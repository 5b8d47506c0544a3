\* Two pages of 256 bytes; a page holds up to four chunks of 16 bytes.
SPECIFICATION Spec
CONSTANTS
  PageSize = 256
  NPages = 2
  SizeMod = 16384
  MallocSizes = {0, 16}
  CallocSizes <- SomeProducts
  ReallocSizes = {0, 16, 80, 144, 8192}
  MaxLive = 4
  MaxResets = 1
  GrowIntoLast = FALSE
INVARIANTS Tiled EndsFlagged ListExact BlocksIntact NoFreeArena NoAbort
