SPECIFICATION Spec
CONSTANTS
  Updaters = {u1, u2}
  MaxPairs = 6
  MaxSelections = 5
  Scenarios <- Everything
INVARIANTS MatchedPair SelectionSound ReportHolds RepairsItself NoFalseAlarm
PROPERTIES NeverStranded UncertainSelectorHolds OneUpdater
CHECK_DEADLOCK FALSE
SYMMETRY Symmetry
