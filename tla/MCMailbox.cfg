SPECIFICATION Spec
CONSTANTS
  Recipients = {bob, hal}
  Headless = {hal}
  Messages = {m1, m2}
  BlockCauses = {"worker_failed", "write_readiness_changed"}
  AttemptIds = {a1, a2}
SYMMETRY Symmetry
INVARIANTS
  DoorbellNamesOneMessage
  WithdrawnMeansUnwritten
  OldestFirst
  AlarmsWereWritten
PROPERTIES
  WritesOnce
  OutcomeIsFinal
