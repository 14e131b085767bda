SPECIFICATION FairSpec
CONSTANTS
  r1 = r1
  r2 = r2
  m1 = m1
  m2 = m2
  t1 = t1
  t2 = t2
  a1 = a1
  a2 = a2
  a3 = a3
  Recipients = {r1}
  Headless = {}
  Messages = {m1, m2}
  PasteCauses = {}
  AttemptIds = {a1, a2}
  Raw = {}
  Threads = {t1}
  Scenarios <- Lively
  Quiesces = 1
  MaxRuns = 3
PROPERTIES WithdrawalReachesGate WritesEnd QueueDrains
CHECK_DEADLOCK FALSE
