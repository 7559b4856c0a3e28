\* API errors, crashes and outages, and edits of the spec, while passes and the cleanup are in flight.
SPECIFICATION Spec
CONSTANTS
  a = a
  b = b
  small = small
  bad = bad
  Instances = {a, b}
  DefaultName = a
  Specs <- EmptyOrPair
  Storages = {small, bad}
  BadQuantity = bad
  p = p
  q = q
  Passwords = {p, q}
  Absent = Absent
  Unset = Unset
  Cascades <- Background
  MaxFaults = 1
  MaxEdits = 1
SYMMETRY
  Anonymous
INVARIANTS
  TypeOK
  ChildrenUnderFinalizer
PROPERTIES
  EditsSurvive
  FinalizerCoversCleanup
\* Nothing is left to do for a cluster that is gone.
CHECK_DEADLOCK FALSE
