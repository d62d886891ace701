CONSTANTS
  Ids = {"a", "b"}
  Objects <- MCObjects
  Writers = {w1, w2}
  Chosen <- MCChosen
  None = None
  Absent = Absent
  Empty = Empty
  Torn = Torn
  MaxRequests = 3
  MaxCrashes = 1
SPECIFICATION Spec
CHECK_DEADLOCK FALSE
INVARIANTS OwnPathKept ClosedComesBack
SYMMETRY Symmetry
