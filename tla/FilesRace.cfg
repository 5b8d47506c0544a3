\* Threads may close a descriptor that another thread's call names.
SPECIFICATION Spec
CONSTANTS
  Threads = {t1, t2}
  NFds = 4
  Calls = {"read", "dup", "dup2", "socket", "open", "openat", "pipe", "close"}
  AppFds = {0}
  MonFds = {2}
  Listing = 1
  ByteBits = 2
  WordBytes = 2
  Faults = {"race"}
SYMMETRY Symmetry
INVARIANT MonitorUntouched
