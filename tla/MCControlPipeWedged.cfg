SPECIFICATION WedgedSpec
CONSTANTS
  c1 = c1
  c2 = c2
  t1 = t1
  Callers = {c1, c2}
  Loops = {}
  Typists = {t1}
  Panes = {p1, p2}
  Capacity = 2
  ResumeCapacity = 1
  Room = 1
  Loads <- WedgedLoads
CHECK_DEADLOCK FALSE
PROPERTIES ShutdownEnds
