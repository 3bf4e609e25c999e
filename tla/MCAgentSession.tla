--------------------------- MODULE MCAgentSession ---------------------------
(* A small instance of AgentSession: a session that does everything but     *)
(* forwarding, and one that forwards the agent.                             *)
EXTENDS AgentSession

CONSTANTS s1, s2

TwoClients ==
  [s \in Sessions |-> IF s = s1 THEN {"pty", "window", "env", "run", "sftp", "other", "close"}
                                ELSE {"agent", "close"}]
=============================================================================
