CONSTANTS
  Calls = {c1}
  Redirecting = {}
  Detaching = {}
  Garbling = {c1}
SPECIFICATION ExecutorFairSpec
CHECK_DEADLOCK FALSE
PROPERTIES EveryCallEnds
