SPECIFICATION Spec
CONSTANTS
  Procs = {p1, p2}
  Configs <- MCConfigs
  NamesOf <- MCNames
  FolderOf <- MCFolders
  Compose = {"compose"}
  Legacy <- OldDevc
  Budgets <- FaultBudgets
  None = None
INVARIANTS EarlierNamesRetired
PROPERTIES StaysReachable OthersKept
SYMMETRY Symmetry
