SPECIFICATION LiveSpec
CONSTANTS
  projected = projected
  streamed = streamed
  optimized = optimized
  tool = tool
  stranger = stranger
  json = json
  pass = pass
  brief = brief
  Gone = Gone
  Unsafe = Unsafe
  Unbound = Unbound
  NotRun = NotRun
  Bundles <- MCBundles
  Mode <- MCMode
  SourceOf <- MCSourceOf
  ProcessorOf <- MCProcessorOf
  Expected = optimized
  Images <- MCImages
  Outputs <- MCOutputs
  Parsable <- MCParsable
  Summary <- MCSummary
  MaxSwaps = 0
INVARIANTS StartsAreAuthorized RetryMeansNothingStarted
PROPERTIES ImplementsContract ApplyReturns
CHECK_DEADLOCK FALSE
