CONSTANTS
  Writers = {w1, w2}
  Keys = {k1, k2}
  Bodies = {b1, b2}
  MaxSeq = 4
  MaxLines = 3
  NoWriter = NoWriter
  NoPayload = NoPayload
SPECIFICATION Spec
SYMMETRY Symmetry
INVARIANTS OwnFileReplays OneLinePerKey ProjectionIsJournal AnswersAgree
