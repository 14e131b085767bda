SPECIFICATION Spec
CONSTANTS
  Updaters = {u1, u2}
  MaxPairs = 6
  MaxSelections = 5
  Scenarios <- Everything
INVARIANTS NeverTorn
CHECK_DEADLOCK FALSE
SYMMETRY Symmetry
