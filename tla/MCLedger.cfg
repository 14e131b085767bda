CONSTANTS
  Writers = {w1, w2}
  Payloads = {p1, p2}
  MaxSeq = 4
  MaxLines = 4
  Strict = FALSE
  NoWriter = NoWriter
  NoPayload = NoPayload
SPECIFICATION Spec
SYMMETRY Symmetry
INVARIANTS AckedIsDurable SequenceNamesOneLine
