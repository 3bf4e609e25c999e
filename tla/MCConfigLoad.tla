---------------------------- MODULE MCConfigLoad ----------------------------
(* Small instances of ConfigLoad.                                           *)
EXTENDS ConfigLoad

(* A names B, which names the local folder: three passes.                   *)
Chained ==
  [v \in {"A", "B"} |->
     [set |-> TRUE,
      value |-> IF v = "A" THEN <<"src", "${localEnv:B}">>
                           ELSE <<"/", "${localWorkspaceFolderBasename}">>]]

(* A names itself.                                                          *)
Cyclic == [v \in {"A", "B"} |->
             [set |-> v = "A", value |-> <<"src", "/", "${localEnv:A}">>]]

BothEnvs == {Chained, Cyclic}

MCPieces ==
  [f \in Fields |->
     CASE f = "name" -> {"repo", "${localEnv:B:default}", "${devcontainerId}"}
       [] f = "workspaceFolder" ->
            {"/", "${localEnv:A}", "${localEnv:B}", "${localWorkspaceFolderBasename}",
             "${containerWorkspaceFolder}", "${containerWorkspaceFolderBasename}"}
       [] f = "other" ->
            {"/", "${localEnv:A}", "${localEnv:B}", "${devcontainerId}", "${containerEnv:C}",
             "${containerWorkspaceFolder}", "${containerWorkspaceFolderBasename}",
             "${unknown}"}]

MCMaxLen == [f \in Fields |-> IF f = "name" THEN 1 ELSE 2]
=============================================================================
