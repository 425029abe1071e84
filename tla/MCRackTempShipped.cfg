SPECIFICATION RackSpec
CONSTANTS
  main = main
  s5 = s5
  s10 = s10
  None = None
  Main = main
  Threads <- MCThreads
  Calls <- MCCalls
  Pins <- MCPins
  GpioFaults = {}
  BusMayFail = FALSE
  Records <- ShippedRecords
  Kind <- ShippedKind
  Inp <- ShippedInp
  InitOrder <- ShippedOrder
  ScanList <- ShippedLists
  Present <- ShippedPresent
INVARIANTS
  ReadsOwnProbe
