\* A spec without instances, or with a mistake, is mended at any time.
SPECIFICATION FairSpec
CONSTANTS
  a = a
  b = b
  small = small
  bad = bad
  Instances = {a}
  DefaultName = a
  Specs <- Mended
  Storages = {small, bad}
  BadQuantity = bad
  p = p
  q = q
  Passwords = {p, q}
  Absent = Absent
  Unset = Unset
  Cascades <- Background
  MaxFaults = 0
  MaxEdits = 1
PROPERTIES
  ReadyIsReported
  ValidSpecIsApplied
\* Nothing is left to do for a cluster that is gone.
CHECK_DEADLOCK FALSE
