SPECIFICATION DbEventSpec
CONSTANTS
  a = a
  b = b
  temperature = temperature
  Subs <- MCSubs
  Records = {temperature}
  RecOf <- MCRecOf
  EVENTSPERQUE = 3
  EVENTENTRIES = 2
  MaxQueues = 2
  SelfCancel = {}
  FlowControl = FALSE
SYMMETRY MCSymmetry
INVARIANTS
  MostRecentSent
