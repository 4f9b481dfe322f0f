SPECIFICATION Spec
CONSTANTS
  Configs = {c1, c2}
  NoConfig = NoConfig
  MaxRevision = 2
  MaxFaults = 0
  TornWrites = TRUE
PROPERTIES ResetIsRecorded
