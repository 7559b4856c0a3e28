\* The cluster is deleted in the foreground: garbage collector and cleanup race.
SPECIFICATION FairSpec
CONSTANTS
  a = a
  b = b
  small = small
  bad = bad
  Instances = {a}
  DefaultName = a
  Specs <- OnlyParked
  Storages = {small, bad}
  BadQuantity = bad
  p = p
  q = q
  Passwords = {p, q}
  Absent = Absent
  Unset = Unset
  Cascades <- AnyCascade
  MaxFaults = 0
  MaxEdits = 0
PROPERTY
  DeletionTerminates
\* Nothing is left to do for a cluster that is gone.
CHECK_DEADLOCK FALSE
