SPECIFICATION Spec
CONSTANTS
  c1 = c1
  c2 = c2
  t1 = t1
  Callers = {c1, c2}
  Loops = {c2}
  Typists = {t1}
  Panes = {p1, p2}
  Capacity = 3
  ResumeCapacity = 1
  Room = 1
  Loads <- OrphanLoads
CHECK_DEADLOCK FALSE
INVARIANTS OwnReplyAlways
