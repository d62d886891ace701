CONSTANTS
  Calls = {c1, c2}
  Redirecting = {c1}
  Detaching = {c1}
  Garbling = {c1}
SPECIFICATION ExecutorFairSpec
CHECK_DEADLOCK FALSE
INVARIANTS StoppedIsReported GroupGone ReachableAtShutdown
PROPERTIES TameCallsEnd
