SPECIFICATION WsSpec
CONSTANTS
  Procs = {p1, p2}
  CreateHooks <- MCHooks
  Configs <- OneConfig
  Commands <- BesideBringUps
  Projects <- BothKinds
  Budget <- CalmThree
  MaxRuns = 5
  MaxId = 9
  NoCtr = NoCtr
  NoProbe = NoProbe
  NoVersion = NoVersion
INVARIANTS SomeBringUpFinished MarkersTruthful
SYMMETRY Symmetry
CHECK_DEADLOCK FALSE
