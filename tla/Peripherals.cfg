SPECIFICATION MCSpec
CONSTANTS
  Parts = {"queue", "input", "ring", "ports", "enum", "kbd", "storage", "layer", "blkfs", "fbcon", "terms", "scarf", "shell", "play"}
  None = None
  EVENTQ_BUFFERS = 2
  MaxTyped = 4
  RING_TRBS = 4
  EVENT_TRBS = 4
  Outstanding = 2
  Names = 3
  N = 2
  MaxSlots = 2
  MaxPlugs = 3
  MaxMoves = 4
  Early = FALSE
  MAX_KEYBOARDS = 2
  QUEUE = 3
  MaxTimeouts = 1
  sector_count = 13
  max_sectors = 2
  CHUNK = 3
  SPEED = 9
  DETECT = 3
  Word <- MCWord
  SECTOR_SIZE = 2
  capacity = 4
  cols = 2
  rows = 2
  MAX_PARAMS = 2
  MaxBatch = 2
  AVAIL = 2
  COLUMNS = 1
  LIST_ROWS = 1
  MaxArgs = 2
  MAX = 2
  MaxTracks = 2
  IN_BYTES = 6
  CHUNK_BYTES = 4
  FRAME_BYTES = 2
  DECODED = 6
  FMT = 2
INVARIANTS
  HeardAsTyped AnsweredInOrder DevicesTracked AnswerIsOwn KeysTyped DiskLayerSound TreeSurvives
    TextKept LineSound  
PROPERTIES RequestsServed AnswersAreReal
