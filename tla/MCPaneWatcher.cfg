SPECIFICATION Spec
CONSTANTS
  Panes = {p1, p2}
  First = {p1}
  Capacity = 1
  Loads <- MCLoads
CHECK_DEADLOCK FALSE
INVARIANTS SettledIsTrue
PROPERTIES GapEnds
