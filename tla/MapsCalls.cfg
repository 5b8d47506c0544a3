\* One thread: mmap, munmap, mprotect and mremap of data, on both sides; the
\* list implements the page map.
SPECIFICATION Spec
CONSTANTS
  PageSize = 2
  Threads = {t1}
  NoThread = none
  Sides = {0, 1}
  NPages = 5
  MaxPages = 3
  MprotectSizes = {2, 4}
  SingleGroup = TRUE
  Prots = {"r", "rw"}
  MremapFlags <- InPlaceOrMove
  Cross = FALSE
  MaxTorn = 1
  FreeNodes = 9
  RefillNodes = 2
INVARIANTS TypeOK Ordered RecordsMatch CallAssertsHold
PROPERTIES KernelScope ImplementsPageMap
