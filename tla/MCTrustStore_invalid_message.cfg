CONSTANTS
  p1 = p1
  p2 = p2
  d1 = d1
  d2 = d2
  Proc = {p1, p2}
  Digests = {d1, d2}
  MaxReceipts = 2
  NoFile = NoFile
  Torn = Torn
  Faulty = FALSE
  MaxCalls = 1
  MaxCrashes = 0
  MaxLosses = 0
  MaxEdits = 0
SPECIFICATION Spec
SYMMETRY Symmetry
CHECK_DEADLOCK FALSE
INVARIANT InvalidMeansInvalid
