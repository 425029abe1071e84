SPECIFICATION RackFairSpec
CONSTANTS
  main = main
  s5 = s5
  s10 = s10
  None = None
  Main = main
  Threads <- MCThreads
  Calls <- MCCalls
  Pins <- MCPins
  GpioFaults = {"open"}
  BusMayFail = FALSE
  Records <- SharedRecords
  Kind <- SharedKind
  Inp <- SharedInp
  InitOrder <- SharedOrder
  ScanList <- SharedLists
  Present <- SharedPresent
INVARIANTS
  NeverCrashes
PROPERTIES
  ImplementsReadout
  ProcessingEnds
