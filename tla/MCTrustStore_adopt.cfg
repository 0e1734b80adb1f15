CONSTANTS
  p1 = p1
  p2 = p2
  d1 = d1
  d2 = d2
  Proc = {p1, p2}
  Digests = {d1, d2}
  MaxReceipts = 1
  NoFile = NoFile
  Torn = Torn
  Faulty = TRUE
  MaxCalls = 1
  MaxCrashes = 1
  MaxLosses = 1
  MaxEdits = 1
SPECIFICATION Spec
SYMMETRY Symmetry
CHECK_DEADLOCK FALSE
INVARIANTS ReportTruth RefusalsChangedNothing LeftoversAccounted AdoptionSurvives
PROPERTY ReceiptsKept
