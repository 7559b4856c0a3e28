\* Nothing goes wrong: no edits, no faults.
SPECIFICATION FairSpec
CONSTANTS
  a = a
  b = b
  Instances = {a, b}
  PrimaryName = a
  NoLabels = NoLabels
  NoTargets = NoTargets
  Absent = Absent
  ClusterWide = ClusterWide
  Unset = Unset
  ClusterSpecs <- Healthy
  BackupSpecs <- GoodBackup
  MaxFaults = 0
  MaxEdits = 0
PROPERTY
  SuccessIsReported
\* Nothing is left to do for a backup that is gone.
CHECK_DEADLOCK FALSE
