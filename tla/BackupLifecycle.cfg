\* An edit or a second use of the name, and a failing call, a crash or a lost job.
SPECIFICATION FairSpec
CONSTANTS
  a = a
  b = b
  Instances = {a, b}
  PrimaryName = a
  NoLabels = NoLabels
  NoTargets = NoTargets
  Absent = Absent
  ClusterWide = ClusterWide
  Unset = Unset
  ClusterSpecs <- Changing
  BackupSpecs <- AnyBackup
  MaxFaults = 1
  MaxEdits = 1
INVARIANT
  TypeOK
PROPERTIES
  CompletionMeansBackedUp
  DeletionTerminates
  TroubleIsReported
\* Nothing is left to do for a backup that is gone.
CHECK_DEADLOCK FALSE
