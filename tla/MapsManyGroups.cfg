\* mprotect of a range of several groups.
SPECIFICATION Spec
CONSTANTS
  PageSize = 1
  Threads = {t1}
  NoThread = none
  Sides = {0, 1}
  NPages = 6
  MaxPages = 3
  MprotectSizes = {1, 2, 3}
  SingleGroup = FALSE
  Prots = {"rw"}
  MremapFlags <- NoFlags
  Cross = FALSE
  MaxTorn = 0
  FreeNodes = 9
  RefillNodes = 2
INVARIANTS NoOverlap
