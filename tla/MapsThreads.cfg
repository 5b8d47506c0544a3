\* Two threads in mmap and munmap; the free list runs empty.
SPECIFICATION Spec
CONSTANTS
  PageSize = 2
  Threads = {t1, t2}
  NoThread = none
  Sides = {0, 1}
  NPages = 7
  MaxPages = 3
  MprotectSizes = {}
  SingleGroup = TRUE
  Prots = {"rw"}
  MremapFlags <- NoFlags
  Cross = FALSE
  MaxTorn = 1
  FreeNodes = 2
  RefillNodes = 2
INVARIANTS Ordered RecordsMatch CallAssertsHold
PROPERTIES KernelScope
