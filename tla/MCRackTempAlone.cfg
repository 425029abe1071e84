SPECIFICATION RackSpec
CONSTANTS
  main = main
  s5 = s5
  s10 = s10
  None = None
  Main = main
  Threads <- MCThreads
  Calls <- MCCalls
  Pins <- MCPins
  GpioFaults = {"open"}
  BusMayFail = TRUE
  Records <- AloneRecords
  Kind <- AloneKind
  Inp <- AloneInp
  InitOrder <- AloneOrder
  ScanList <- AloneLists
  Present <- AlonePresent
INVARIANTS
  RackTypeOK
  ReadsOwnProbe
  
  WritesOwnRegister
  AcknowledgedWriteLanded
CHECK_DEADLOCK FALSE
