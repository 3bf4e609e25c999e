SPECIFICATION FairSpec
CONSTANTS
  s1 = s1
  s2 = s2
  Sessions = {s1, s2}
  Kinds <- TwoClients
  Packets = 3
  QueueCap = 1
  Forwarding = TRUE
INVARIANTS EarlierRequestsCount ExitStatusOnce AgentOutlivesSession
PROPERTIES MuxNeverStalls LastSizeApplied EndReported
CHECK_DEADLOCK FALSE
