SPECIFICATION OptimizerSpec
CONSTANTS
  right = right
  wrong = wrong
  summary = summary
  same = same
  malformed = malformed
  t1 = t1
  t2 = t2
  p1 = p1
  p2 = p2
  Gone = Gone
  Unsafe = Unsafe
  Unbound = Unbound
  NotRun = NotRun
  NoTest = NoTest
  Undecodable = Undecodable
  Role = "processor"
  Images <- MCImages
  Outputs <- MCOutputs
  Supported = summary
  OtherVersion = same
  Official = right
  Tests <- MCTests
  Packages <- MCPackages
  MaxRecords = 6
  MaxSwaps = 1
SYMMETRY MCSymmetry
INVARIANTS NoSilentResidue StoppedIsNotAnOutcome SummaryMeansPassed
CHECK_DEADLOCK FALSE
