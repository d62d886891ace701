CONSTANTS
  k1 = k1  k2 = k2  k3 = k3
  b1 = b1  b2 = b2
  Keys = {k1, k2, k3}
  Blobs = {b1, b2}
  Absent = Absent
  Dir = Dir
  Link = Link
  Inside <- MCNested
  Length <- MCLength
  MayTimeOut = TRUE
  SameTick = FALSE
SPECIFICATION WorkspaceSpec
INVARIANT TracksDisk
PROPERTIES MirrorsHead RecordsDisk
SYMMETRY MCSymmetry
