\* Finding: a user is deleted and created again before its Secret is collected.
SPECIFICATION FairSpec
CONSTANTS
  a = a
  b = b
  p = p
  q = q
  Instances = {a, b}
  Clusters <- JustOne
  Specs <- JustSteady
  Passwords = {p, q}
  Absent = Absent
  Unset = Unset
  NoLabels = NoLabels
  NoTargets = NoTargets
  MaxUsers = 2
  MaxTroubles = 0
  MaxTicks = 0
PROPERTY
  SecretIsThere
\* Nothing is left to do for a user that is gone.
CHECK_DEADLOCK FALSE
