------------------------------- MODULE Rename -------------------------------
(***************************************************************************)
(* retireRenamed (package cmd/devc): a workspace's id holds its name, so a *)
(* devcontainer.json that gets another name becomes another workspace, and *)
(* `devc up` first removes what the earlier names left behind: containers, *)
(* state directory, control sockets and ssh block.                         *)
(*                                                                         *)
(* Several devc processes run; each may be killed, and each listing and    *)
(* each removal may fail.  The bring-up that follows is the part of it     *)
(* that leaves these traces.                                               *)
(***************************************************************************)
EXTENDS Naturals

CONSTANTS
  Procs,      \* devc processes
  Configs,    \* the devcontainer.json files
  NamesOf,    \* NamesOf[c]: the names the user gives c
  FolderOf,   \* FolderOf[c]: the local folder of c
  Compose,    \* the compose configs, whose containers devc does not label
  Legacy,     \* ids brought up by a devc that did not record the config
  Budgets,    \* bound: what may happen how often, for each of Events
  None        \* model value: nothing there

Names == UNION {NamesOf[c] : c \in Configs}
Folders == {FolderOf[c] : c \in Configs}
Ids == {[name |-> n, folder |-> FolderOf[c]] : n \in Names, c \in Configs}
Events == {"crash", "remove", "fail", "overlap"}

(* On a label or in state.json, besides a config: no config (an old devc),  *)
(* no label at all (compose).                                               *)
Untracked == "untracked"
Unlabelled == "unlabelled"

ASSUME RenameAssumption ==
  /\ Untracked \notin Configs /\ Unlabelled \notin Configs
  /\ None \notin Configs \cup {Untracked, Unlabelled}
  /\ Legacy \subseteq Ids
  /\ Budgets \subseteq [Events -> Nat]

VARIABLES
  ctr,     \* ctr[i]: what devc-i's container says of its config
  st,      \* st[i]: what i's state.json says of it
  ssh,     \* ssh[i]: the config whose `up` wrote i's ssh block
  run,     \* run[p]: the `up` that process p runs
  budget   \* what may still happen

host == <<ctr, st, ssh>>
vars == <<host, run, budget>>

(* at: where it is; config, id: what it brings up; listed: the state files  *)
(* it has read; refs: earlier incarnations still to retire; ref: the one    *)
(* being retired; failed: history, a listing or a removal has failed;       *)
(* blind: history, it was the listing of the state files; alone: history,   *)
(* no other devc has run since it started.                                  *)
Unread == [i \in Ids |-> None]

Idle ==
  [at |-> "idle", config |-> None, id |-> None, listed |-> Unread, refs |-> {},
   ref |-> None, failed |-> FALSE, blind |-> FALSE, alone |-> FALSE]

States == [Ids -> Configs \cup {Untracked, None}]

Runs ==
  [at : {"states", "containers", "retire", "remove", "state", "block", "create", "persist", "config"},
   config : Configs, id : Ids, listed : States, refs : SUBSET Ids,
   ref : Ids \cup {None}, failed : BOOLEAN, blind : BOOLEAN, alone : BOOLEAN]

TypeOK ==
  /\ ctr \in [Ids -> Configs \cup {Untracked, Unlabelled, None}]
  /\ st \in States
  /\ ssh \in [Ids -> Configs \cup {None}]
  /\ run \in [Procs -> Runs \cup {Idle}]
  /\ budget \in [Events -> Nat]

IdOf(c, n) == [name |-> n, folder |-> FolderOf[c]]

(* Legacy ids are up, by a config of that name.                             *)
Init ==
  /\ ctr = [i \in Ids |-> IF i \in Legacy THEN Untracked ELSE None]
  /\ st = [i \in Ids |-> IF i \in Legacy THEN Untracked ELSE None]
  /\ ssh \in [Ids -> Configs \cup {None}]
  /\ \A i \in Ids : IF i \in Legacy
                    THEN ssh[i] # None /\ FolderOf[ssh[i]] = i.folder /\ i.name \in NamesOf[ssh[i]]
                    ELSE ssh[i] = None
  /\ run = [p \in Procs |-> Idle]
  /\ budget \in Budgets

----------------------------------------------------------------------------
Spend(event) == budget[event] > 0 /\ budget' = [budget EXCEPT ![event] = @ - 1]

Goto(p, label) == run' = [run EXCEPT ![p].at = label]

(* The removal that p tries goes well, or fails and is reported.            *)
Done(p, label) ==
  /\ run' = [run EXCEPT ![p].at = label]
  /\ UNCHANGED budget

Fails(p, label) ==
  /\ run' = [run EXCEPT ![p].at = label, ![p].failed = TRUE]
  /\ Spend("fail")

(* The user may have given c another name since it was last brought up.      *)
Setup(p, c, n) ==
  LET calm == \A q \in Procs : run[q] = Idle
  IN  /\ run[p] = Idle
      /\ IF calm THEN UNCHANGED budget ELSE Spend("overlap")
      /\ run' = [q \in Procs |->
                   IF q = p
                   THEN [Idle EXCEPT !.at = "states", !.config = c, !.id = IdOf(c, n), !.alone = calm]
                   ELSE [run[q] EXCEPT !.alone = FALSE]]
      /\ UNCHANGED host

(* knownWorkspaces reads the state files, and then lists the containers.    *)
(* Where the state directories cannot be listed it goes on without them.    *)
ListStates(p) ==
  /\ run[p].at = "states"
  /\ \/ /\ run' = [run EXCEPT ![p].at = "containers", ![p].listed = st]
        /\ UNCHANGED budget
     \/ /\ run' = [run EXCEPT ![p].at = "containers", ![p].failed = TRUE, ![p].blind = TRUE]
        /\ Spend("fail")
  /\ UNCHANGED host

(* seen: the containers listed.  A container's label beats the state file;  *)
(* a compose container is placed by the state file, which is read again for *)
(* its folder alone.                                                        *)
Located(p, i, seen) ==
  \/ run[p].listed[i] # None
  \/ seen[i] \in Configs \cup {Untracked}
  \/ seen[i] = Unlabelled /\ st[i] # None

ConfigOf(p, i, seen) == IF seen[i] \in Configs THEN seen[i] ELSE run[p].listed[i]

(* Mutant: the folder alone.                                                *)
MutantSameConfig(p, i, seen) == TRUE

SameConfig(p, i, seen) == ConfigOf(p, i, seen) \in {run[p].config, Untracked, None}

(* Mutant: only the state directories are looked at.                        *)
MutantEarlier(p, i, seen) ==
  /\ i # run[p].id /\ i.folder = run[p].id.folder
  /\ run[p].listed[i] # None /\ SameConfig(p, i, seen)

(* Mutant: wherever it is.                                                  *)
MutantAnywhere(p, i, seen) ==
  i # run[p].id /\ Located(p, i, seen) /\ SameConfig(p, i, seen)

(* renamedFrom.                                                             *)
Earlier(p, i, seen) ==
  /\ i # run[p].id /\ i.folder = run[p].id.folder
  /\ Located(p, i, seen) /\ SameConfig(p, i, seen)

(* Where the containers cannot be listed, the state files have to do.       *)
ListContainers(p) ==
  /\ run[p].at = "containers"
  /\ \E seen \in {ctr, Unread} :
       /\ run' = [run EXCEPT ![p].at = "retire", ![p].listed = Unread,
                             ![p].refs = {i \in Ids : Earlier(p, i, seen)},
                             ![p].failed = @ \/ seen # ctr]
       /\ IF seen = ctr THEN UNCHANGED budget ELSE Spend("fail")
  /\ UNCHANGED host

NextRef(p) ==
  /\ run[p].at = "retire"
  /\ \E i \in run[p].refs :
       run' = [run EXCEPT ![p].at = "remove", ![p].ref = i, ![p].refs = @ \ {i}]
  /\ UNCHANGED <<host, budget>>

(* Mutant: a container that could not be removed is not skipped.            *)
MutantRemoveContainers(p) ==
  /\ run[p].at = "remove"
  /\ \/ ctr' = [ctr EXCEPT ![run[p].ref] = None] /\ Done(p, "state")
     \/ Fails(p, "state") /\ UNCHANGED ctr
  /\ UNCHANGED <<st, ssh>>

(* removeWorkspaceContainers.  A compose project of which only some members *)
(* could be removed is still there; the order of the ids is not modelled.   *)
RemoveContainers(p) ==
  /\ run[p].at = "remove"
  /\ \/ ctr' = [ctr EXCEPT ![run[p].ref] = None] /\ Done(p, "state")
     \/ Fails(p, "retire") /\ UNCHANGED ctr
  /\ UNCHANGED <<st, ssh>>

(* For and Dir.Remove.                                                      *)
RemoveState(p) ==
  /\ run[p].at = "state"
  /\ \/ st' = [st EXCEPT ![run[p].ref] = None] /\ Done(p, "block")
     \/ Fails(p, "block") /\ UNCHANGED st
  /\ UNCHANGED <<ctr, ssh>>

(* RemoveWorkspaceConfig.                                                   *)
RemoveBlock(p) ==
  /\ run[p].at = "block"
  /\ \/ ssh' = [ssh EXCEPT ![run[p].ref] = None] /\ Done(p, "retire")
     \/ Fails(p, "retire") /\ UNCHANGED ssh
  /\ UNCHANGED <<ctr, st>>

Retired(p) ==
  /\ run[p].at = "retire" /\ run[p].refs = {}
  /\ run' = [run EXCEPT ![p].at = "create", ![p].ref = None]
  /\ UNCHANGED <<host, budget>>

(* The container is created, recreated, or kept with the label it has.      *)
Create(p) ==
  LET c == run[p].config
  IN  /\ run[p].at = "create"
      /\ Goto(p, "persist")
      /\ \/ ctr' = [ctr EXCEPT ![run[p].id] = IF c \in Compose THEN Unlabelled ELSE c]
         \/ ctr[run[p].id] # None /\ UNCHANGED ctr
      /\ UNCHANGED <<st, ssh, budget>>

(* persist, persistCompose: a failure is a warning.                         *)
Persist(p) ==
  /\ run[p].at = "persist"
  /\ Goto(p, "config")
  /\ \/ st' = [st EXCEPT ![run[p].id] = run[p].config] /\ UNCHANGED budget
     \/ Spend("fail") /\ UNCHANGED st
  /\ UNCHANGED <<ctr, ssh>>

Ends(p) == run' = [run EXCEPT ![p] = Idle]

WriteSSHConfig(p) ==
  /\ run[p].at = "config"
  /\ Ends(p)
  /\ ssh' = [ssh EXCEPT ![run[p].id] = run[p].config]
  /\ UNCHANGED <<ctr, st, budget>>

(* A step of the bring-up fails, and the command with it; or a compose `up` *)
(* ends here, for it was limited to other services.                         *)
Abort(p) ==
  /\ \/ run[p].at \in {"create", "config"}
     \/ run[p].at = "persist" /\ run[p].config \in Compose
  /\ Ends(p)
  /\ UNCHANGED <<host, budget>>

----------------------------------------------------------------------------
(* The environment.                                                         *)
Crash(p) ==
  /\ run[p] # Idle /\ Spend("crash")
  /\ Ends(p)
  /\ UNCHANGED host

(* The container runtime, used by hand.                                     *)
RemoveByHand(i) ==
  /\ ctr[i] # None /\ Spend("remove")
  /\ ctr' = [ctr EXCEPT ![i] = None]
  /\ UNCHANGED <<st, ssh, run>>

Step(p) ==
  \/ ListStates(p) \/ ListContainers(p) \/ NextRef(p) \/ RemoveContainers(p)
  \/ RemoveState(p) \/ RemoveBlock(p) \/ Retired(p)
  \/ Create(p) \/ Persist(p) \/ WriteSSHConfig(p) \/ Abort(p)

Next ==
  \/ \E p \in Procs : \/ \E c \in Configs : \E n \in NamesOf[c] : Setup(p, c, n)
                      \/ Step(p) \/ Crash(p)
  \/ \E i \in Ids : RemoveByHand(i)

Spec == Init /\ [][Next]_vars

----------------------------------------------------------------------------
(* Properties.                                                              *)

IdsOf(c) == {IdOf(c, n) : n \in NamesOf[c]}

(* A compose container that no state file places: its `up` was killed       *)
(* before it persisted, or limited to other services.                       *)
Unplaced(i) == ctr[i] = Unlabelled /\ st[i] = None

(* retireRenamed: where no listing and no removal has failed, no state of   *)
(* the config is left under another name as the bring-up starts and no      *)
(* container but an unplaced one, nor a container of its folder that is not *)
(* known to be another config's, whatever other runs, failed, killed or at  *)
(* the same time as one another, have left; only beside this one must none  *)
(* have run.                                                                *)
EarlierNamesRetired ==
  \A p \in Procs :
    run[p].at = "create" /\ ~run[p].failed /\ run[p].alone =>
      \A i \in Ids \ {run[p].id} :
        /\ st[i] # run[p].config
        /\ i \in IdsOf(run[p].config) => ctr[i] = None \/ Unplaced(i)
        /\ i.folder = run[p].id.folder /\ ctr[i] = Untracked => st[i] \in Configs

(* "removes every earlier incarnation": no container of the config is left. *)
NoneLeft ==
  \A p \in Procs :
    run[p].at = "create" /\ ~run[p].failed /\ run[p].alone =>
      \A i \in IdsOf(run[p].config) \ {run[p].id} : ctr[i] = None

(* "keep its keys and ssh block so it stays reachable": an ssh block is     *)
(* removed only when the container it leads to is gone, unless another devc *)
(* runs beside.                                                             *)
StaysReachable ==
  [][\A p \in Procs, i \in Ids :
       run[p].alone /\ ssh[i] # None /\ ssh'[i] = None => ctr[i] = None]_vars

(* "another config in the same folder: a distinct workspace": what an `up`  *)
(* that runs alone retires was never another config's; only where it could  *)
(* not list the state directories may it be another compose config's.       *)
OthersKept ==
  [][\A p \in Procs, i \in Ids :
       run[p].alone /\ ssh[i] # None /\ ssh'[i] = None =>
         ssh[i] = run[p].config \/ (run[p].blind /\ ssh[i] \in Compose)]_vars

(* The same without that exception.                                         *)
OthersKeptBlindly ==
  [][\A p \in Procs, i \in Ids :
       run[p].alone /\ ssh[i] # None /\ ssh'[i] = None => ssh[i] = run[p].config]_vars

(* The same of every `up`.                                                  *)
OthersAlwaysKept ==
  [][\A i \in Ids : ssh[i] # None /\ ssh'[i] = None =>
       \E p \in Procs : run[p].ref = i /\ run[p].config = ssh[i]]_vars

AlwaysReachable ==
  [][\A i \in Ids : ssh[i] # None /\ ssh'[i] = None => ctr[i] = None]_vars

(* "so one whose container is already gone still has its keys and ssh block *)
(* found": devc sees every workspace that has an ssh block.                 *)
BlocksFound ==
  \A i \in Ids : ssh[i] # None /\ (\A p \in Procs : run[p] = Idle)
                  => ctr[i] \in Configs \cup {Untracked} \/ st[i] # None
=============================================================================
