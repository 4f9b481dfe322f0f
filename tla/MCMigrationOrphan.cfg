SPECIFICATION FairSpec
CONSTANTS
  Configs = {c1, c2}
  NoConfig = NoConfig
  MaxRevision = 2
  MaxFaults = 2
  TornWrites = TRUE
PROPERTIES MigrationRetried
