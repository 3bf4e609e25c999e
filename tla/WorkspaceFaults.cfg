SPECIFICATION FaultSpec
CONSTANTS
  Procs = {p1}
  CreateHooks <- MCHooks
  Configs <- Upgrade
  Commands <- AllCommands
  Projects <- AllProjects
  Budget <- FaultBudget
  MaxRuns = 5
  MaxId = 9
  NoCtr = NoCtr
  NoProbe = NoProbe
  NoVersion = NoVersion
INVARIANTS TypeOK MarkersTruthful ProbeReflectsHooks HooksRepeatOnlyAfterFaults UpIsComplete
PROPERTIES UpRecovers LimitedKeepsWorkspace
CHECK_DEADLOCK FALSE
