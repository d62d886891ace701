CONSTANTS
  Requests = {r1, r2}
  Connections = {c1, c2}
  Ids = {s1, s2}
  None = None
  Kinds = {"write", "web", "create", "webcreate", "fork", "webfork", "switch", "merge", "close", "list", "tree"}
  SessionLimits = {2}
  IdleTimeout = None
  IdleTimeouts = {None}
  SnapshotOnClose = TRUE
  WritesMayFail = TRUE
  MaxRequests = 2
SPECIFICATION FairSpec
CHECK_DEADLOCK FALSE
PROPERTIES EveryRequestAnswered
