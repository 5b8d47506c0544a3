SPECIFICATION FairSpec
CONSTANTS
  Threads = {t1,t2,t3}
  Initial = {t1,t2}
  Exiters = {t1,t2}
  Callers = {}
  Pages = {p1,p2}
  WX = {}
  Unmappable = {}
  Need <- OneEach
  MaxHB = 2
  NoThread = NoThread
  NoPage = NoPage
INVARIANTS TypeOK AssertsHold PhaseAccounting
CHECK_DEADLOCK FALSE
PROPERTIES FaultResolved
