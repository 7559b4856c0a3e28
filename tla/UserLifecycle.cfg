\* An edit, a failing call or a crash while a password is rotated.
SPECIFICATION FairSpec
CONSTANTS
  a = a
  b = b
  p = p
  q = q
  Instances = {a, b}
  Clusters <- AnyList
  Specs <- Switching
  Passwords = {p, q}
  Absent = Absent
  Unset = Unset
  NoLabels = NoLabels
  NoTargets = NoTargets
  MaxUsers = 1
  MaxTroubles = 1
  MaxTicks = 2
INVARIANTS
  TypeOK
PROPERTIES
  ChangeIsReal
  ChangesAreKept
  RotationHappens
  RotationsEnd
  StatusSettles
  DeletionTerminates
\* Nothing is left to do for a user that is gone.
CHECK_DEADLOCK FALSE
