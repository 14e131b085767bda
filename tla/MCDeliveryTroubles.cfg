SPECIFICATION Spec
CONSTANTS
  r1 = r1
  r2 = r2
  m1 = m1
  m2 = m2
  t1 = t1
  t2 = t2
  a1 = a1
  a2 = a2
  a3 = a3
  Recipients = {r1, r2}
  Headless = {r2}
  Messages = {m1, m2}
  PasteCauses = {"write_readiness_changed"}
  AttemptIds = {a1, a2, a3}
  Raw = {m2}
  Threads = {t1}
  Scenarios <- Troubles
  Quiesces = 2
  MaxRuns = 3
INVARIANTS WakeIsOwned InFlightIsDrivenUnlessPanicked
PROPERTIES EnterOnce ImplementsMailbox
SYMMETRY Symmetry
CHECK_DEADLOCK FALSE
