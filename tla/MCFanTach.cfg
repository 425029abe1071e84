SPECIFICATION FanFairSpec
CONSTANTS
  t1 = t1
  t2 = t2
  fan = fan
  None = None
  Threads <- MCThreads
  FanCaller = fan
  Calls <- MCCalls
  n_fan = 3
INVARIANTS
  BusTypeOK
  TalksToChosenSlave
  SuccessMovedAllBytes
  FanTalksToTachometer
  SuccessMeansMostFresh
PROPERTIES
  MutexReleased
