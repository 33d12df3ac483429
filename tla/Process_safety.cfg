SPECIFICATION Spec
CONSTANTS
    MAX_PROCESSES = 4
    MaxPid = 4
    Images = {m1, m2, m3, m4}
    Kernel = Kernel
    None = None
SYMMETRY ImageSymmetry
INVARIANTS
    NothingInUseIsFreed
    ImagesAccountedFor
    SchedulerInv
PROPERTIES
    DispatchBringsNearer
