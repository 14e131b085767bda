SPECIFICATION Spec
CONSTANTS
  Recipients = {bob}
  Headless = {}
  Messages = {m1, m2}
  BlockCauses = {"worker_failed"}
  AttemptIds = {a1, a2}
SYMMETRY Symmetry
INVARIANTS
  AttentionIsRequeueable
