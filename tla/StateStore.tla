----------------------------- MODULE StateStore -----------------------------
(***************************************************************************)
(* What package state promises for one workspace's state.json: a register  *)
(* that holds one whole document, or nothing.  A Save replaces the document *)
(* in one instant between its call and its return, a Load returns what the  *)
(* register held at one such instant, Remove (`devc down --purge`) empties  *)
(* it.  A process may die at any moment.  StateFile is the implementation.  *)
(***************************************************************************)

CONSTANTS Procs,     \* devc processes that use the workspace
          Docs,      \* the documents a Save may write
          NoDoc,     \* no state.json: Load yields the zero State
          NoCall     \* a process that is in none of Load, Save and Remove

VARIABLES cell,   \* the register
          call    \* call[p]: the operation p is in, if any

vars == <<cell, call>>

Calls == [op : {"save"}, doc : Docs, done : BOOLEAN]
           \cup [op : {"load"}, doc : Docs \cup {NoDoc}, done : BOOLEAN]
           \cup [op : {"remove"}, doc : {NoDoc}, done : BOOLEAN]

TypeOK == /\ cell \in Docs \cup {NoDoc}
          /\ call \in [Procs -> Calls \cup {NoCall}]

Init == /\ cell = NoDoc
        /\ call = [p \in Procs |-> NoCall]

Invoke(p, op, doc) ==
  /\ call[p] = NoCall
  /\ call' = [call EXCEPT ![p] = [op |-> op, doc |-> doc, done |-> FALSE]]
  /\ UNCHANGED cell

(* The instant at which the operation of p takes effect.                   *)
Commit(p) ==
  /\ call[p] # NoCall
  /\ ~ call[p].done
  /\ \/ /\ call[p].op \in {"save", "remove"}
        /\ cell' = call[p].doc
        /\ call' = [call EXCEPT ![p] = [op |-> @.op, doc |-> @.doc, done |-> TRUE]]
     \/ /\ call[p].op = "load"
        /\ call' = [call EXCEPT ![p] = [op |-> @.op, doc |-> cell, done |-> TRUE]]
        /\ UNCHANGED cell

(* The operation returns successfully: it has taken effect.                *)
Return(p) ==
  /\ call[p] # NoCall
  /\ call[p].done
  /\ call' = [call EXCEPT ![p] = NoCall]
  /\ UNCHANGED cell

(* The operation fails or its process dies: a Save that was not committed   *)
(* leaves no trace.                                                         *)
Abort(p) ==
  /\ call[p] # NoCall
  /\ call' = [call EXCEPT ![p] = NoCall]
  /\ UNCHANGED cell

Next == \E p \in Procs :
          \/ \E d \in Docs : Invoke(p, "save", d)
          \/ Invoke(p, "load", NoDoc)
          \/ Invoke(p, "remove", NoDoc)
          \/ Commit(p)
          \/ Return(p)
          \/ Abort(p)

Spec == Init /\ [][Next]_vars
=============================================================================
