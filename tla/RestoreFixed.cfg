\* One cluster, two kinds of backup; API errors and crashes at every step.
SPECIFICATION Spec
CONSTANTS
  a = a
  b = b
  Instances = {a, b}
  Absent = Absent
  NoLabels = NoLabels
  NoTargets = NoTargets
  ClusterSpecs <- FixedCluster
  BackupSpecs <- TwoBackups
  Selector <- EveryInstance
  MaxRestores = 1
  MaxFaults = 1
  MaxEdits = 0
  MaxJobDeletions = 0
INVARIANTS
  TypeOK
  JobsAreRecorded
  GoneLeavesNoJob
PROPERTY
  ImplementsContract
\* A restore that is Completed or gone leaves the controller nothing to do.
CHECK_DEADLOCK FALSE
