----------------------------- MODULE Workspace -----------------------------
(***************************************************************************)
(* A workspace of either kind: the single container of Lifecycle, or the   *)
(* service of a compose project that the configuration names.              *)
(*                                                                         *)
(* For a compose project `up`, `down`, `stop` and `restart` take services   *)
(* (flags own and others: the workspace's service is among those named, or *)
(* is not), compose finds, makes and removes the containers, devc looks the *)
(* service's container up by its labels and executes in it by id.  Compose  *)
(* itself is external.  ctr is the container of the workspace's service; the *)
(* containers of the others are left out, for devc reads nothing of them.   *)
(***************************************************************************)
EXTENDS Lifecycle

CONSTANT Projects   \* the kinds of workspace

ASSUME ProjectsAssumption ==
  Projects \subseteq
    [compose  : BOOLEAN,              \* a compose project
     narrow   : BOOLEAN,              \* runServices leaves the workspace's service out
     pulls    : BOOLEAN,              \* another service depends on it
     scaled   : BOOLEAN,              \* it is scaled to two containers
     shutdown : {"none", "stop"}]     \* shutdownAction

VARIABLE project

wsvars == <<vars, project>>

WsInit == Init /\ project \in Projects

----------------------------------------------------------------------------
Named(p) == Has(p, "own") \/ Has(p, "others")

(* composeServices, and the flags that act on a workspace as a whole.       *)
Rejected(p) ==
  /\ Named(p)
  /\ ~project.compose \/ Has(p, "purge") \/ Has(p, "all")

Reject(p) ==
  /\ pc[p] \in {"find", "stop", "restart", "down"}
  /\ Rejected(p)
  /\ Fail(p)

(* ComposeTargets and ComposeCovers: the workspace's service is a target.   *)
Targeted(p, fallback) == IF Named(p) THEN Has(p, "own") ELSE fallback

(* Mutant: a bring-up always goes on to the workspace's container.          *)
MutantCovers(p) == TRUE

Covers(p) == Targeted(p, ~project.narrow)

(* compose up: the targets and what they depend on.  A container is made     *)
(* anew on --force-recreate, which is for the targets, or when the compose  *)
(* file was edited.                                                         *)
Decision(p) ==
  IF ~(Covers(p) \/ project.pulls) THEN "persist"
  ELSE IF ~Present THEN "create"
  ELSE IF Has(p, "recreate") /\ Covers(p) THEN "remove"
  ELSE IF ctr.running THEN "persist" ELSE "start"

ComposeUp(p) ==
  /\ pc[p] = "find"
  /\ \/ Goto(p, Decision(p)) /\ UNCHANGED budget
     \/ /\ Present /\ (Covers(p) \/ project.pulls)
        /\ Spend("edit") /\ Goto(p, "remove")
  /\ UNCHANGED <<shared, memory>>

ComposeCreate(p) ==
  /\ pc[p] = "create"
  /\ \/ (Present \/ nextId > MaxId) /\ Fail(p)
     \/ /\ ~Present /\ nextId <= MaxId
        /\ ctr' = [FreshContainer(p) EXCEPT !.running = FALSE]
        /\ nextId' = nextId + 1
        /\ Goto(p, "start")
        /\ UNCHANGED <<conf, host, memory, budget>>

(* upCompose is over for a bring-up of other services only.                 *)
NotCovered(p) ==
  /\ pc[p] = "persist" /\ ~Covers(p)
  /\ Goto(p, IF cmd[p].kind = "ssh" THEN "reattach" ELSE "ok")
  /\ UNCHANGED <<shared, memory, budget>>

(* FindComposeService: exactly one container, whose id is both the exec     *)
(* reference and the once-semantics key.                                    *)
Found == Present /\ ~project.scaled

FindService(p) ==
  /\ pc[p] = "persist" /\ Covers(p)
  /\ \/ ~Found /\ Fail(p)
     \/ /\ Found
        /\ cid' = [cid EXCEPT ![p] = ctr.id]
        /\ Goto(p, "persist_load")
        /\ UNCHANGED <<shared, cmd, my, copy, env, budget>>

PersistCompose(p) ==
  /\ pc[p] = "persist_load"
  /\ dir' = TRUE
  /\ copy' = [copy EXCEPT ![p] = st]
  /\ Goto(p, "persist_save")
  /\ UNCHANGED <<conf, ctr, nextId, st, keys, nextKey, ssh, cmd, my, cid, env, budget>>

PersistComposeSave(p) ==
  /\ pc[p] = "persist_save"
  /\ \/ Save(copy[p]) /\ UNCHANGED budget
     \/ Spend("failure") /\ UNCHANGED st
  /\ Goto(p, IF Has(p, "skip") THEN "probe" ELSE "hooks")
  /\ UNCHANGED <<conf, ctr, nextId, dir, keys, nextKey, ssh, memory>>

----------------------------------------------------------------------------
(* postUp is the same for both kinds, but for the exec reference: it fails   *)
(* once the container with that id is gone.                                 *)
Gone(p) == Present => ctr.id # cid[p]

Executes(p) ==
  \/ pc[p] \in {"poststart", "probing", "prepare", "copy", "secrets", "serve"}
  \/ pc[p] = "run" /\ Unmarked(p) # {}

ExecFails(p) ==
  /\ Executes(p) /\ pc[p] # "probing"
  /\ Gone(p)
  /\ Fail(p)

ProbeFails(p) ==
  /\ pc[p] = "probing"
  /\ Gone(p)
  /\ env' = [env EXCEPT ![p] = NoProbe]
  /\ copy' = [copy EXCEPT ![p] = [@ EXCEPT !.probe = NoProbe,
                                          !.version = my[p].version,
                                          !.cid = cid[p]]]
  /\ Goto(p, "probe_save")
  /\ UNCHANGED <<shared, cmd, my, cid, budget>>

PostUp(p) ==
  \/ ExecFails(p) \/ ProbeFails(p)
  \/ ~(Executes(p) /\ Gone(p)) /\ (HookStep(p) \/ ProvisionStep(p) \/ Serve(p))

(* ssh --stdio: attachRef finds the service's container again.              *)
ComposeAttach(p) ==
  /\ pc[p] \in {"attach", "reattach"}
  /\ \/ /\ Found /\ ctr.running
        /\ cid' = [cid EXCEPT ![p] = ctr.id]
        /\ Goto(p, "serve")
        /\ UNCHANGED <<shared, cmd, my, copy, env, budget>>
     \/ /\ ~Running /\ ~(Present /\ project.scaled)
        /\ pc[p] = "attach" /\ Has(p, "start")
        /\ Goto(p, "find")
        /\ UNCHANGED <<shared, memory, budget>>
     \/ /\ ~(Found /\ ctr.running)
        /\ \/ pc[p] = "reattach" \/ ~Has(p, "start") \/ (Present /\ project.scaled)
        /\ Fail(p)

----------------------------------------------------------------------------
(* compose stop, restart, down and rm.                                      *)
ComposeStop(p) ==
  /\ pc[p] = "stop"
  /\ ctr' = IF Targeted(p, TRUE) /\ Present THEN [ctr EXCEPT !.running = FALSE] ELSE ctr
  /\ Goto(p, "ok")
  /\ UNCHANGED <<conf, nextId, host, memory, budget>>

(* Without services the workspace's own is restarted, and with --all those  *)
(* of runServices.  Compose may object to a container that is not there.    *)
ComposeRestart(p) ==
  LET target == Targeted(p, ~(Has(p, "all") /\ project.narrow))
  IN  /\ pc[p] = "restart"
      /\ \/ target /\ ~Present /\ Fail(p)
         \/ /\ ctr' = IF target /\ Present
                      THEN [ctr EXCEPT !.running = TRUE, !.started = FALSE] ELSE ctr
            /\ Goto(p, "ok")
            /\ UNCHANGED <<conf, nextId, host, memory, budget>>

(* Mutant: services named or not, it is compose down.                       *)
MutantComposeDown(p) ==
  /\ pc[p] = "down" /\ ~Has(p, "auto")
  /\ ctr' = NoCtr
  /\ Goto(p, Removed(p))
  /\ UNCHANGED <<conf, nextId, host, memory, budget>>

ComposeDown(p) ==
  /\ pc[p] = "down" /\ ~Has(p, "auto")
  /\ ctr' = IF Targeted(p, TRUE) THEN NoCtr ELSE ctr
  /\ Goto(p, Removed(p))
  /\ UNCHANGED <<conf, nextId, host, memory, budget>>

(* down --auto stops, or leaves the workspace running.                      *)
AutoDown(p) ==
  /\ pc[p] = "down" /\ Has(p, "auto")
  /\ Goto(p, IF project.shutdown = "stop" THEN "stop" ELSE "ok")
  /\ UNCHANGED <<shared, memory, budget>>

----------------------------------------------------------------------------
ComposeStep(p) ==
  \/ ComposeUp(p) \/ StartContainer(p) \/ RemoveContainer(p) \/ ComposeCreate(p)
  \/ NotCovered(p) \/ FindService(p) \/ PersistCompose(p) \/ PersistComposeSave(p)
  \/ PostUp(p) \/ ComposeAttach(p)
  \/ ComposeStop(p) \/ ComposeRestart(p) \/ ComposeDown(p)
  \/ PurgeState(p) \/ PurgeSSHConfig(p) \/ RotateKeys(p) \/ Return(p)

WsStep(p) ==
  \/ Reject(p)
  \/ ~Rejected(p) /\ AutoDown(p)
  \/ ~Rejected(p) /\ project.compose /\ ComposeStep(p)
  \/ ~Rejected(p) /\ ~project.compose
     /\ ~(pc[p] = "down" /\ Has(p, "auto")) /\ Step(p)

WsNext ==
  /\ \/ \E p \in Procs : WsStep(p) \/ Abort(p) \/ \E c \in Commands : Begin(p, c)
     \/ Edit
     \/ Exit
  /\ UNCHANGED project

WsSpec == WsInit /\ [][WsNext]_wsvars

WsFairSpec == WsSpec /\ \A p \in Procs : WF_wsvars(WsStep(p) /\ UNCHANGED project)

----------------------------------------------------------------------------
(* Properties.                                                              *)

(* A successful `up` that covers the workspace's service leaves nothing half *)
(* done, whatever earlier commands that failed or died left behind.  The    *)
(* exception: two inspections that fail file the markers of two containers  *)
(* under the one name, and the second container is taken for the first.     *)
UpIsComplete ==
  \A p \in Procs :
    pc[p] = "ok" /\ cmd[p].kind = "up" /\ Covers(p)
      => Complete(p) \/ (cid[p] = ByName /\ Used("failure") > 1)

(* "Naming services only changes which containers the verb touches, never   *)
(* the workspace's identity" (README.md): a command limited to other        *)
(* services leaves the workspace's container, state, keys and ssh config as *)
(* they are, unless one of those services depends on it.                    *)
Limited(p) == pc[p] # "idle" /\ Has(p, "others") /\ ~Has(p, "own")

LimitedKeepsWorkspace ==
  [][(\A p \in Procs : pc[p] # "idle" => Limited(p)) /\ ~project.pulls /\ ~Exit
       => UNCHANGED <<ctr, host>>]_wsvars

(* A crash, or a hook that fails, repeats at most the one hook it caught     *)
(* between its run and its marker, and so does a marker that is not saved.  *)
(* In a single container an inspection that fails files the markers under   *)
(* the container's name, which costs that `up` and the next one every hook; *)
(* with compose there is no such fallback.                                  *)
HooksRepeatOnlyAfterFaults ==
  Present => Cardinality(Repetitions)
    <= Used("crash")
       + (IF project.compose THEN 1 ELSE 2 * Cardinality(HookNames)) * Used("failure")

(* Nothing that a failed or killed command leaves behind can keep a later   *)
(* `up` from succeeding, once faults cease.                                 *)
UpRecovers ==
  \A p \in Procs :
    pc[p] = "find" /\ Undisturbed /\ ~project.scaled /\ ~Rejected(p)
      /\ (cmd[p].kind = "ssh" => Covers(p)) ~> pc[p] = "ok"

(* When every command has ended undisturbed and one of them has made the    *)
(* container, a bring-up won and finished, whatever ran beside it, commands *)
(* for other services among them.                                           *)
SomeBringUpFinished == nextId > FirstId => SomeoneFinished

(* `devc up` without services brings the workspace up.                      *)
UpBringsWorkspace ==
  \A p \in Procs : pc[p] = "ok" /\ cmd[p].kind = "up" /\ ~Named(p) => Present
=============================================================================
