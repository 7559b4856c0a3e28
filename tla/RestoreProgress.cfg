\* Jobs get lost, API calls fail, and the name of the restore is used twice.
SPECIFICATION FairSpec
CONSTANTS
  a = a
  b = b
  Instances = {a, b}
  Absent = Absent
  NoLabels = NoLabels
  NoTargets = NoTargets
  ClusterSpecs <- NewCluster
  BackupSpecs <- OneBackup
  Selector <- OnlyA
  MaxRestores = 2
  MaxFaults = 1
  MaxEdits = 0
  MaxJobDeletions = 1
PROPERTIES
  DeletionTerminates
  SuccessIsReported
\* A restore that is Completed or gone leaves the controller nothing to do.
CHECK_DEADLOCK FALSE
