SPECIFICATION InspectionSpec
CONSTANTS
  right = right
  wrong = wrong
  supported = supported
  other = other
  malformed = malformed
  Gone = Gone
  Unsafe = Unsafe
  Unbound = Unbound
  NotRun = NotRun
  Role = "source"
  Images <- MCImages
  Outputs <- MCOutputs
  Supported = supported
  OtherVersion = other
  Official = right
  MaxSwaps = 2
INVARIANTS RetryOnlyUnstarted OneSwapNeverTrusted EvidenceIsOneImage
PROPERTY InspectionReturns
CHECK_DEADLOCK FALSE
