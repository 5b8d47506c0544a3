SPECIFICATION Spec
CONSTANTS
  Threads = {t1,t2}
  Initial = {t1,t2}
  Exiters = {}
  Callers = {}
  Pages = {p1}
  WX = {}
  Unmappable = {}
  Need <- OneEach
  MaxHB = 2
  NoThread = NoThread
  NoPage = NoPage
INVARIANTS PagePublished
