CONSTANTS
  Requests = {r1, r2, r3}
  Connections = {c1}
  Ids = {s1, s2, s3}
  None = None
  Kinds = {"read", "write", "web", "create", "webcreate", "fork", "webfork", "switch", "merge", "close", "list", "tree", "status"}
  SessionLimits = {1, 2}
  IdleTimeout = 1
  IdleTimeouts = {0, 1}
  SnapshotOnClose = TRUE
  WritesMayFail = FALSE
  MaxRequests = 3
SPECIFICATION Spec
CHECK_DEADLOCK FALSE
INVARIANTS SessionLimit ClosedHasSnapshot EvictedNeverEntered LiveIsRunning
SYMMETRY Symmetry
