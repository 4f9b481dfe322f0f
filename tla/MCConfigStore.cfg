\* Every boot, update, reset and save, with up to four storage errors or cuts.
SPECIFICATION FairSpec
CONSTANTS
  Configs = {c1, c2}
  NoConfig = NoConfig
  MaxRevision = 3
  MaxFaults = 4
  TornWrites = TRUE
INVARIANTS
  HeadIntact
  SnapshotIsStored
  RollbackIsClean
  SecretsAreGone
PROPERTIES
  NotCommittedIsDurable
  JobSettlesNetwork
  DeviceConfigSpec
  BootsConverge
