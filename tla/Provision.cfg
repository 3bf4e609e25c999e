SPECIFICATION PSpec
CONSTANTS
  Procs = {p1}
  MaxKeys = 4
  Crashes = TRUE
  Overlap = FALSE
  Edits = 2
  Seconds = 1
  Editing = FALSE
INVARIANTS SSHReady EnsureCompletes RotateReplaces TextKept
PROPERTIES IdentityStable
CHECK_DEADLOCK FALSE
