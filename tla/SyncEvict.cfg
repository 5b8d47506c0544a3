SPECIFICATION Spec
CONSTANTS
  Threads = {t1,t2}
  Initial = {t1,t2}
  Exiters = {t1}
  Callers = {t1}
  Pages = {p1,p2,p3,p4}
  WX = {p4}
  Unmappable = {p2}
  Need <- OneNeedsTwo
  MaxHB = 2
  NoThread = NoThread
  NoPage = NoPage
INVARIANTS GuardedExec ListsAgree SlotsSuffice SlotsMatch
CHECK_DEADLOCK FALSE
