\* Finding: an instance is renamed while the restore runs.
SPECIFICATION Spec
CONSTANTS
  a = a
  b = b
  Instances = {a, b}
  Absent = Absent
  NoLabels = NoLabels
  NoTargets = NoTargets
  ClusterSpecs <- RenamedCluster
  BackupSpecs <- OneBackup
  Selector <- EveryInstance
  MaxRestores = 1
  MaxFaults = 0
  MaxEdits = 1
  MaxJobDeletions = 0
PROPERTY
  CompletionMeansRestored
\* A restore that is Completed or gone leaves the controller nothing to do.
CHECK_DEADLOCK FALSE
