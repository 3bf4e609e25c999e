----------------------------- MODULE NamedHooks -----------------------------
(***************************************************************************)
(* One lifecycle command (hooks.Run): none, a single command, or the       *)
(* object form, whose entries runNamed runs at the same time, cancelling   *)
(* the others once one has failed.  The caller may be interrupted, which   *)
(* cancels them all.  A command in the container is run by the container   *)
(* runtime's exec: the context kills that client, which takes nothing      *)
(* along.                                                                  *)
(***************************************************************************)
EXTENDS Naturals, FiniteSets

CONSTANTS
  Hooks,   \* the names of the object form
  NoHook    \* no entry: the command succeeded so far

ASSUME HookAssumption == NoHook \notin Hooks

VARIABLES
  entry,      \* entry[e]: how far the goroutine of entry e is
  first,      \* firstErr: the entry that set it
  command,    \* command[e]: the command itself still runs
  cancelled,  \* the context that runNamed derived
  caller,     \* the caller's context is cancelled
  returned    \* runNamed has returned

runvars == <<entry, first, command, cancelled, caller, returned>>

(* failed: the command exited with an error of its own; killed: it was      *)
(* stopped by the cancelled context; both are seen as an error.             *)
States == {"running", "failed", "killed", "reports", "cancels", "done"}

RunTypeOK ==
  /\ entry \in [Hooks -> [is : States, was : {"running", "failed", "killed", "ok"}]]
  /\ first \in Hooks \cup {NoHook}
  /\ command \in [Hooks -> BOOLEAN]
  /\ cancelled \in BOOLEAN /\ caller \in BOOLEAN /\ returned \in BOOLEAN
  /\ \A e \in Hooks : entry[e].was = "killed" => cancelled \/ caller

RunInit ==
  /\ entry = [e \in Hooks |-> [is |-> "running", was |-> "running"]]
  /\ first = NoHook
  /\ command = [e \in Hooks |-> TRUE]
  /\ cancelled = FALSE /\ caller = FALSE /\ returned = FALSE

Becomes(e, is) == entry' = [entry EXCEPT ![e].is = is]
Ends(e, is, was) == entry' = [entry EXCEPT ![e] = [is |-> is, was |-> was]]

Succeeds(e) ==
  /\ entry[e].is = "running"
  /\ Ends(e, "done", "ok")
  /\ command' = [command EXCEPT ![e] = FALSE]
  /\ UNCHANGED <<first, cancelled, caller, returned>>

Fails(e) ==
  /\ entry[e].is = "running"
  /\ Ends(e, "reports", "failed")
  /\ command' = [command EXCEPT ![e] = FALSE]
  /\ UNCHANGED <<first, cancelled, caller, returned>>

(* The executor's process is killed once its context is cancelled.          *)
Killed(e) ==
  /\ entry[e].is = "running"
  /\ cancelled \/ caller
  /\ Ends(e, "reports", "killed")
  /\ UNCHANGED <<first, command, cancelled, caller, returned>>

(* A command that nobody waits for ends.                                    *)
OrphanEnds(e) ==
  /\ entry[e].was = "killed" /\ command[e]
  /\ command' = [command EXCEPT ![e] = FALSE]
  /\ UNCHANGED <<entry, first, cancelled, caller, returned>>

(* Mutant: the siblings are stopped before the error is recorded.           *)
MutantReport(e) ==
  /\ entry[e].is \in {"reports", "cancels"}
  /\ IF entry[e].is = "reports"
     THEN cancelled' = TRUE /\ Becomes(e, "cancels") /\ UNCHANGED first
     ELSE /\ first' = IF first = NoHook THEN e ELSE first
          /\ Becomes(e, "done") /\ UNCHANGED cancelled
  /\ UNCHANGED <<command, caller, returned>>

(* once.Do records the first error; whoever else comes waits until it is    *)
(* through, and records nothing.                                            *)
Report(e) ==
  /\ entry[e].is = "reports"
  /\ IF first = NoHook
     THEN first' = e /\ Becomes(e, "cancels")
     ELSE /\ \A d \in Hooks : entry[d].is # "cancels"
          /\ Becomes(e, "done") /\ UNCHANGED first
  /\ UNCHANGED <<command, cancelled, caller, returned>>

(* Mutant: the siblings are left running.                                   *)
MutantCancelSiblings(e) ==
  /\ entry[e].is = "cancels"
  /\ Becomes(e, "done")
  /\ UNCHANGED <<first, command, cancelled, caller, returned>>

CancelSiblings(e) ==
  /\ entry[e].is = "cancels"
  /\ cancelled' = TRUE
  /\ Becomes(e, "done")
  /\ UNCHANGED <<first, command, caller, returned>>

(* wg.Wait, then the deferred cancel.                                       *)
RunReturns ==
  /\ ~returned
  /\ \A e \in Hooks : entry[e].is = "done"
  /\ returned' = TRUE
  /\ cancelled' = TRUE
  /\ UNCHANGED <<entry, first, command, caller>>

Interrupt ==
  /\ ~caller
  /\ caller' = TRUE
  /\ UNCHANGED <<entry, first, command, cancelled, returned>>

RunNext ==
  \/ \E e \in Hooks : \/ Succeeds(e) \/ Fails(e) \/ Killed(e) \/ OrphanEnds(e)
                        \/ Report(e) \/ CancelSiblings(e)
  \/ RunReturns \/ Interrupt

RunSpec == RunInit /\ [][RunNext]_runvars

(* Goroutines are scheduled and a cancelled command is stopped; a command   *)
(* may run forever.                                                         *)
RunFairSpec ==
  /\ RunSpec
  /\ WF_runvars(RunReturns)
  /\ \A e \in Hooks : /\ WF_runvars(Killed(e)) /\ WF_runvars(Report(e))
                        /\ WF_runvars(CancelSiblings(e))

----------------------------------------------------------------------------
(* Properties.                                                              *)

(* runNamed reports the failure that stopped the rest, never the rest being *)
(* stopped because of it (run.go: "returns the first error encountered").   *)
CauseReported ==
  first # NoHook /\ ~caller => entry[first].was = "failed"

(* One failure ends the command, though another entry would run forever.    *)
FailureEnds ==
  (\E e \in Hooks : entry[e].was = "failed") ~> returned

(* "cancel() // stop the siblings": nothing of a command that has failed    *)
(* still runs when its failure is reported.                                 *)
SiblingsStopped == returned /\ ~caller => \A e \in Hooks : ~command[e]
=============================================================================
