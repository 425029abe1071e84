SPECIFICATION StartSpec
CONSTANTS
  Pins = {44, 45}
  GpioFaults = {"open", "flush"}
  HB_MODULUS = 46
  Window = 5
  CommandLines <- MCCommandLines
  NULL = NULL
  Beyond = Beyond
INVARIANTS
  ProtTypeOK
  RegularWhileReadable
  IrregularWhileUnreadable
  ClientToldOfTrip
  ArgumentsExist
  MacrosApply
  InitialisedOnce
PROPERTY
  ScriptAfterInit
