SPECIFICATION WsSpec
CONSTANTS
  Procs = {p1}
  CreateHooks <- MCHooks
  Configs <- OneConfig
  Commands <- WithSkip
  Projects <- BothKinds
  Budget <- CalmThree
  MaxRuns = 5
  MaxId = 9
  NoCtr = NoCtr
  NoProbe = NoProbe
  NoVersion = NoVersion
INVARIANTS UpRanCreateHooks
CHECK_DEADLOCK FALSE
