----------------------------- MODULE Provision -----------------------------
(***************************************************************************)
(* provision end to end on the host (cmd/devc/provision.go): the keys and  *)
(* their copies in the container (KeyFiles), the workspace's Host block in *)
(* ssh.config.d, and the Include in the user's ssh config (SSHInclude),    *)
(* which is what `ssh devc.<name>` goes by; and `devc ssh-config`, which   *)
(* does all of it but the container's part.                                *)
(***************************************************************************)
EXTENDS KeyFiles, Sequences

CONSTANTS
  Edits,     \* bound: versions of the user's text
  Seconds,   \* bound: seconds that pass
  Editing    \* the user saves the ssh config while devc runs

ASSUME ProvisionAssumption ==
  Edits \in Nat /\ Seconds \in Nat /\ Editing \in BOOLEAN

VARIABLES
  block,     \* the workspace's ssh.config.d file: none, torn, whole
  todo,      \* todo[p]: what p does after the keys: nothing, create_block,
             \* write_block, include, including, return
  config, backup, clock, text, above, step, seen   \* those of SSHInclude

Inc == INSTANCE SSHInclude WITH at <- step

sshvars == <<config, backup, clock, text, above, step, seen>>
pvars == <<vars, block, todo, sshvars>>

PInit ==
  /\ Init /\ Inc!Init
  /\ block = "none"
  /\ todo = [p \in Procs |-> "nothing"]

Then(p, next) == todo' = [todo EXCEPT ![p] = next]

Calm == \A p \in Procs : todo[p] = "nothing"

Start(p, o) ==
  /\ todo[p] = "nothing" /\ (Overlap \/ Calm)
  /\ Begin(p, o)
  /\ UNCHANGED <<block, todo, sshvars>>

(* Up to the credentials in the container; ssh-config wants the keys only,  *)
(* and with --print no more than that.                                      *)
KeyStep(p) ==
  /\ Step(p) \/ Crash(p) \/ InstallCut(p)
  /\ LET installed == Install(p) \/ (InstallCut(p) /\ last' = Success(p, TRUE))
     IN  \/ (installed \/ Configured(p)) /\ Then(p, "create_block")
         \/ ~installed /\ UNCHANGED todo
  /\ UNCHANGED <<block, sshvars>>

(* WriteWorkspaceConfig.                                                    *)
CreateBlock(p) ==
  /\ todo[p] = "create_block"
  /\ block' = "torn"
  /\ Then(p, "write_block")
  /\ UNCHANGED <<vars, sshvars>>

(* With --quiet the user's ssh config is not touched.                       *)
WriteBlock(p) ==
  /\ todo[p] = "write_block"
  /\ block' = "whole"
  /\ \E next \in {"include", "nothing"} : Then(p, next)
  /\ UNCHANGED <<vars, sshvars>>

(* EnsureInclude.                                                           *)
IncludeStep(p) ==
  /\ \/ /\ todo[p] = "include"
        /\ Inc!Read(p)
     \/ /\ todo[p] = "including"
        /\ \/ Inc!CreateBackup(p, clock) \/ Inc!WriteBackup(p, clock)
           \/ Inc!Truncate(p) \/ Inc!Write(p)
  /\ Then(p, IF step'[p] = "idle" THEN "return" ELSE "including")
  /\ UNCHANGED <<vars, block>>

Return(p) ==
  /\ todo[p] = "return"
  /\ Then(p, "nothing")
  /\ UNCHANGED <<vars, block, sshvars>>

Die(p) ==
  /\ Crashes /\ todo[p] # "nothing"
  /\ Then(p, "nothing")
  /\ IF step[p] = "idle" THEN UNCHANGED sshvars ELSE Inc!Crash(p)
  /\ UNCHANGED <<vars, block>>

(* The user edits and time passes.                                          *)
Outside ==
  /\ \/ (Editing \/ Calm) /\ Inc!Edit
     \/ Inc!Tick
  /\ UNCHANGED <<vars, block, todo>>

PNext ==
  \/ \E p \in Procs : \/ \E o \in Ops : Start(p, o)
                      \/ KeyStep(p) \/ CreateBlock(p) \/ WriteBlock(p)
                      \/ IncludeStep(p) \/ Return(p) \/ Die(p)
  \/ Outside

PSpec == PInit /\ [][PNext]_pvars

----------------------------------------------------------------------------
(* Properties.                                                              *)

(* When `devc up` returns, `ssh devc.<name>` gets in: the block is there,   *)
(* the user's ssh config has the Include, with nothing above it that could  *)
(* win but what the user has put there since, the container accepts the     *)
(* client's key, and shows the host key that known_hosts pins.  It holds as *)
(* long as no process has died over the keys, and again once a rotation has *)
(* succeeded, unless this up's own stream of secrets was cut unnoticed.     *)
SSHReady ==
  \A p \in Procs :
    todo[p] = "return" /\ last.op = "up" /\ last.clean /\ ~last.cut =>
      /\ block = "whole"
      /\ Inc!HasInclude(config) /\ (config[1] # Inc!Include => above)
      /\ priv["client"] \in Whole /\ ctr.auth = priv["client"]
      /\ known \in Whole /\ ctr.host = known

(* The user's text is never lost, it is in the config or in a backup, also  *)
(* where a process dies between emptying the config and writing it.         *)
TextKept == Inc!TextKept

(* "EnsureInclude guarantees that userSSHConfig begins with" the Include:    *)
(* it does when `devc up` returns.                                          *)
IncludeOnTop ==
  \A p \in Procs : todo[p] = "return" => config # <<>> /\ config[1] = Inc!Include

(* provision "installs the SSH agent and credentials": when `devc up`        *)
(* returns and nobody ever died, the container accepts the client's key.    *)
SecretsInstalled ==
  \A p \in Procs :
    todo[p] = "return" /\ last.op = "up" /\ last.clean => ctr.auth = priv["client"]

(* "Back up an existing, non-empty config before touching it": devc writes  *)
(* over the user's text only when a backup has it.                          *)
BackedUp == Inc!BackedUp

(* While nobody is at work the config holds the user's text.                *)
ConfigKept == Inc!ConfigKept
=============================================================================
