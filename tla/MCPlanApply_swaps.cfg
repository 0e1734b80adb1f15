SPECIFICATION Spec
CONSTANTS
  projected = projected
  streamed = streamed
  optimized = optimized
  tool = tool
  stranger = stranger
  json = json
  pass = pass
  brief = brief
  Gone = Gone
  Unsafe = Unsafe
  Unbound = Unbound
  NotRun = NotRun
  Bundles <- OneBundle
  Mode <- OneMode
  SourceOf <- MCSourceOf
  ProcessorOf <- MCProcessorOf
  Expected = optimized
  Images <- MCImages
  Outputs <- MCOutputs
  Parsable <- MCParsable
  Summary <- MCSummary
  MaxSwaps = 2
INVARIANTS OneSwapNeverPublished NoFallback PublishedOutputIsOwed
CHECK_DEADLOCK FALSE
