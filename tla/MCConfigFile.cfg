CONSTANTS
  DomainAllowlist = domains  MountAllowlist = mounts  v1 = v1  v2 = v2
  Editors = {e1, e2}
  Values = {v1, v2}
  Missing = Missing
  Scalar = Scalar
  Empty = Empty
  Mixed = Mixed
  None = None
  Inodes = {i1, i2, i3, i4}
  HandWritten <- MCHandWritten
  Registries <- MCRegistries
  MaxEdits = 3
SPECIFICATION Spec
CHECK_DEADLOCK FALSE
INVARIANTS ReaderSeesWhole TakesEffect
PROPERTIES RemovedIsGone
SYMMETRY Symmetry
