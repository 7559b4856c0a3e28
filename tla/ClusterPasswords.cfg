\* Finding: a second pass.
SPECIFICATION Spec
CONSTANTS
  a = a
  b = b
  small = small
  bad = bad
  Instances = {a}
  DefaultName = a
  Specs <- OnlySingle
  Storages = {small, bad}
  BadQuantity = bad
  p = p
  q = q
  Passwords = {p, q}
  Absent = Absent
  Unset = Unset
  Cascades <- Background
  MaxFaults = 0
  MaxEdits = 0
PROPERTY
  PasswordsAreKept
\* Nothing is left to do for a cluster that is gone.
CHECK_DEADLOCK FALSE
