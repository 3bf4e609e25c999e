SPECIFICATION Spec
CONSTANTS
  Pieces <- MCPieces
  MaxLen <- MCMaxLen
  HostEnvs <- BothEnvs
INVARIANTS FolderReferencesAgree RejectedOnlyUnresolvable
CHECK_DEADLOCK FALSE
