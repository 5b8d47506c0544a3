SPECIFICATION Spec
CONSTANTS
  Threads = {t1, t2}
  NFds = 4
  Calls = {"read", "dup", "dup2", "open", "pipe", "close"}
  AppFds = {0}
  MonFds = {2}
  Listing = 1
  ByteBits = 2
  WordBytes = 2
  Faults = {}
SYMMETRY Symmetry
INVARIANTS TypeOK MarkedIsApp AppIsMarked TableSound
