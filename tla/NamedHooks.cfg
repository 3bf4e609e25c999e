SPECIFICATION RunFairSpec
CONSTANTS
  Hooks = {e1, e2, e3}
  NoHook = none
INVARIANTS CauseReported
PROPERTIES FailureEnds
CHECK_DEADLOCK FALSE
