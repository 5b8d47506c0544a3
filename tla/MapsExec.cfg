\* One thread: executable mappings, with the pages next to them, and mremap
\* with all flags.
SPECIFICATION Spec
CONSTANTS
  PageSize = 1
  Threads = {t1}
  NoThread = none
  Sides = {0, 1}
  NPages = 4
  MaxPages = 2
  MprotectSizes = {1, 2}
  SingleGroup = TRUE
  Prots = {"x", "wx"}
  MremapFlags <- EachFlag
  Cross = FALSE
  MaxTorn = 1
  FreeNodes = 9
  RefillNodes = 2
INVARIANTS RecordsMatch CallAssertsHold UnsafeNotExec
PROPERTIES KernelScope
