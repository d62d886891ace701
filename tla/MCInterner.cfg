CONSTANTS
  Keys = {k1, k2}
  MaxAddress = 5
  Blobs <- MCBlobs
  Absent = Absent
  Labels = {}
  NoLabel = NoLabel
  MaxCheckpoints = 3
  Fits <- MCFits
  Sessions = {s1, s2}
  x = x
  y = y
  z = z
  Contents <- MCContents
  Addresses <- MCAddresses
  Hashes <- MCHashes
  Hash <- MCHash
  MaxCalls = 4
SPECIFICATION Spec
CHECK_DEADLOCK FALSE
INVARIANTS SameContents OneCopy
SYMMETRY Symmetry
