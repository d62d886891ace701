CONSTANTS
  Keys = {k1, k2}
  Blobs = {b1}
  Absent = Absent
  Labels = {}
  NoLabel = NoLabel
  MaxCheckpoints = 3
  MaxFiles = 2
  Fits <- MCFits
  Sessions = {s1, s2, s3}
  NoParent = NoParent
  Configs <- MCConfigs
  MaxCalls = 3
SPECIFICATION Spec
CHECK_DEADLOCK FALSE
INVARIANTS BaseKept LimitsEverywhere TreeComplete
SYMMETRY Symmetry
