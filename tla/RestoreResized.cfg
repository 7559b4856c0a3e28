\* The replica comes and goes while the restore runs.
SPECIFICATION Spec
CONSTANTS
  a = a
  b = b
  Instances = {a, b}
  Absent = Absent
  NoLabels = NoLabels
  NoTargets = NoTargets
  ClusterSpecs <- ResizedCluster
  BackupSpecs <- OneBackup
  Selector <- EveryInstance
  MaxRestores = 1
  MaxFaults = 0
  MaxEdits = 2
  MaxJobDeletions = 0
PROPERTIES
  CompletionMeansRestored
  CompletedIsFinal
\* A restore that is Completed or gone leaves the controller nothing to do.
CHECK_DEADLOCK FALSE
