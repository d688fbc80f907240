SPECIFICATION FairSpec
CONSTANTS
  c1 = c1
  c2 = c2
  o1 = o1
  o2 = o2
  t1 = t1
  t2 = t2
  Starters = {c1, c2}
  Objects = {o1}
  Threads = {t1}
  MaxEngines = 2
  None = None
PROPERTY DeathIsHandled
CHECK_DEADLOCK FALSE
