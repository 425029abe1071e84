SPECIFICATION DbScanFairSpec
CONSTANTS
  s5 = s5
  s10 = s10
  a = a
  b = b
  c = c
  d = d
  Passive = Passive
  Illegal = Illegal
  NULL = NULL
  Records <- MCRecords
  Lists <- MCLists
  InitialList <- MCInitialList
  Phases = {0, 1}
  MaxChanges = 2
INVARIANTS
  DbScanTypeOK
  OnListOfScan
  UnmodifiedMeansOnList
  EveryoneOnce
PROPERTIES
  ProcessedForever
