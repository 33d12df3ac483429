SPECIFICATION MCSpec
CONSTANTS
  Parts = {"hda"}
  total_pages <- MCTotal
  Usable <- MCUsable
  BitmapPages <- MCBitmapPages
  MaxRun = 3
  None = None
  Lbas = {0, 1}
  Values = {"o", "x"}
  Blank = "o"
  Size = 4
  IdxMod = 8
  MaxSize = 8
  QUEUE_ENTRIES = 3
  Ids = {0, 1, 2}
  MaxAbandoned = 1
  BUFFER = 4
  GUARD = 1
  Pad = 1
  Lengths = {1, 2, 4}
  MaxSamples = 6
  MaxTicks = 9
  Punctual = FALSE
INVARIANT NoReplay
