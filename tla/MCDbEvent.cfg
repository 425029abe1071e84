SPECIFICATION DbEventSpec
CONSTANTS
  a = a
  b = b
  temperature = temperature
  Subs <- MCSubs
  Records = {temperature}
  RecOf <- MCRecOf
  EVENTSPERQUE = 3
  EVENTENTRIES = 2
  MaxQueues = 2
  SelfCancel = {a, b}
  FlowControl = TRUE
SYMMETRY MCSymmetry
INVARIANTS
  DbEventTypeOK
  BooksRight
  MostRecentSentOnceEnabled
  NoUseAfterFree
  NoLostWakeup
  FlushSignalMatches
PROPERTIES
  ImplementsMonitorQueue
