SPECIFICATION RecordSpec
CONSTANTS
  CharSigned = FALSE
  Setpoints <- MCSetpoints
  StartBytes = {0, 1, 255}
  ConfigValues <- MCConfigValues
  HIHI = 8960
  HIGH = 7680
  LOW = 3840
  LOLO = 2560
  HYST = 16
  MDEL = 16
  NaN = NaN
  NaNBytes = {0}
INVARIANTS
  ThresholdStored
  NonNegativeReadsBack
  SeverityOfValue
  ClientSees
  OutputShown
PROPERTY
  AlarmHeld
