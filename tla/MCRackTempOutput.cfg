SPECIFICATION RackSpec
CONSTANTS
  main = main
  s5 = s5
  s10 = s10
  None = None
  Main = main
  Threads <- MCThreads
  Calls <- MCCalls
  Pins <- MCPins
  GpioFaults = {}
  BusMayFail = FALSE
  Records <- OutputRecords
  Kind <- OutputKind
  Inp <- OutputInp
  InitOrder <- OutputOrder
  ScanList <- OutputLists
  Present <- OutputPresent
INVARIANTS
  InitialisedFromOwnSetting
