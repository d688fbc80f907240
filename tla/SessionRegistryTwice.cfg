SPECIFICATION Spec
CONSTANTS
  p1 = p1
  p2 = p2
  p3 = p3
  s1 = s1
  s2 = s2
  o1 = o1
  o2 = o2
  o3 = o3
  Callers = {p1, p2}
  Ids = {s1, s2}
  Objects = {o1, o2}
  None = None
INVARIANT RevivesOnce
CHECK_DEADLOCK FALSE
