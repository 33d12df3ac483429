SPECIFICATION Spec
CONSTANTS
    MAX_PROCESSES = 3
    MaxPid = 3
    Images = {m1, m2, m3, m4}
    Kernel = Kernel
    None = None
SYMMETRY ImageSymmetry
INVARIANTS
    WaitRunsOthers
