------------------------------ MODULE StateFile ------------------------------
(***************************************************************************)
(* state/state.go: the files behind a workspace's state.json, one action   *)
(* per system call.  Save truncates and writes the ONE temporary name      *)
(* state.json.tmp and renames it over state.json; Load opens and reads     *)
(* state.json; Remove unlinks the directory's entries and the directory.   *)
(* Names point to inodes, an open file descriptor keeps its inode, and a   *)
(* process may die between any two calls.                                  *)
(***************************************************************************)
EXTENDS Naturals, FiniteSets

CONSTANTS Procs,      \* devc processes that use the workspace
          Docs,       \* the documents a Save may write
          NoDoc,      \* the zero State, what Load yields without a file
          Size,       \* Size[d]: the bytes of d
          Inodes,     \* inode numbers
          NoInode,    \* a name that does not exist, a closed descriptor
          NoCall,     \* used by the refinement only
          Overlap     \* TRUE: Saves of two processes may overlap

ASSUME DocsAssumption ==
  /\ NoDoc \notin Docs
  /\ Size \in [Docs -> Nat \ {0}]
  /\ NoInode \notin Inodes
  /\ Overlap \in BOOLEAN
  /\ \A op \in {"save", "load", "remove"}, d \in Docs \cup {NoDoc}, b \in BOOLEAN :
       NoCall # [op |-> op, doc |-> d, done |-> b]

VARIABLES dir,      \* the workspace directory exists
          main,     \* the inode state.json names
          tmp,      \* the inode state.json.tmp names
          data,     \* data[i]: what the inode holds
          pc,       \* pc[p]: the system call p makes next
          fd,       \* fd[p]: the inode p has open
          doc       \* doc[p]: the document p saves, or the one it has loaded

vars == <<dir, main, tmp, data, pc, fd, doc>>

SavePcs == {"s_open", "s_write", "s_rename", "s_ok"}
LoadPcs == {"l_open", "l_read", "l_ok"}
RemovePcs == {"r_main", "r_tmp", "r_dir"}

(* The last document written from offset 0, and the length of the file: a   *)
(* longer document written earlier by somebody else leaves its tail behind. *)
Bytes == [head : Docs \cup {NoDoc}, size : Nat]
Empty == [head |-> NoDoc, size |-> 0]
Whole(b) == b.head \in Docs /\ b.size = Size[b.head]

TypeOK ==
  /\ dir \in BOOLEAN
  /\ main \in Inodes \cup {NoInode}
  /\ tmp \in Inodes \cup {NoInode}
  /\ data \in [Inodes -> Bytes]
  /\ pc \in [Procs -> {"idle"} \cup SavePcs \cup LoadPcs \cup RemovePcs]
  /\ fd \in [Procs -> Inodes \cup {NoInode}]
  /\ doc \in [Procs -> Docs \cup {NoDoc}]
  /\ \A p \in Procs : fd[p] # NoInode <=> pc[p] \in {"s_write", "l_read"}

Init ==
  /\ dir = FALSE
  /\ main = NoInode
  /\ tmp = NoInode
  /\ data = [i \in Inodes |-> Empty]
  /\ pc = [p \in Procs |-> "idle"]
  /\ fd = [p \in Procs |-> NoInode]
  /\ doc = [p \in Procs |-> NoDoc]

Unreferenced(i) == i # main /\ i # tmp /\ \A p \in Procs : fd[p] # i

Goto(p, label) == pc' = [pc EXCEPT ![p] = label]

(* The call of p is over, with an error or with its result handed over.     *)
Finish(p) ==
  /\ Goto(p, "idle")
  /\ fd' = [fd EXCEPT ![p] = NoInode]
  /\ doc' = [doc EXCEPT ![p] = NoDoc]

----------------------------------------------------------------------------
(* state.For: MkdirAll.                                                     *)
For(p) ==
  /\ pc[p] = "idle"
  /\ dir' = TRUE
  /\ UNCHANGED <<main, tmp, data, pc, fd, doc>>

MaySave(p) == Overlap \/ \A q \in Procs : pc[q] \notin SavePcs

SaveBegin(p, d) ==
  /\ pc[p] = "idle"
  /\ MaySave(p)
  /\ Goto(p, "s_open")
  /\ doc' = [doc EXCEPT ![p] = d]
  /\ UNCHANGED <<dir, main, tmp, data, fd>>

(* Mutant: state.json itself is written, without a temporary.               *)
MutantSaveOpen(p) ==
  /\ pc[p] = "s_open"
  /\ IF ~dir
     THEN Finish(p) /\ UNCHANGED <<main, data>>
     ELSE \E i \in Inodes :
            /\ IF main = NoInode THEN Unreferenced(i) ELSE i = main
            /\ main' = i
            /\ data' = [data EXCEPT ![i] = Empty]
            /\ fd' = [fd EXCEPT ![p] = i]
            /\ Goto(p, "s_write")
            /\ UNCHANGED doc
  /\ UNCHANGED <<dir, tmp>>

(* os.WriteFile opens state.json.tmp with O_CREATE|O_TRUNC.                 *)
SaveOpen(p) ==
  /\ pc[p] = "s_open"
  /\ IF ~dir
     THEN Finish(p) /\ UNCHANGED <<tmp, data>>
     ELSE \E i \in Inodes :
            /\ IF tmp = NoInode THEN Unreferenced(i) ELSE i = tmp
            /\ tmp' = i
            /\ data' = [data EXCEPT ![i] = Empty]
            /\ fd' = [fd EXCEPT ![p] = i]
            /\ Goto(p, "s_write")
            /\ UNCHANGED doc
  /\ UNCHANGED <<dir, main>>

Overwrite(b, d) ==
  [head |-> d, size |-> IF b.size > Size[d] THEN b.size ELSE Size[d]]

SaveWrite(p) ==
  /\ pc[p] = "s_write"
  /\ data' = [data EXCEPT ![fd[p]] = Overwrite(@, doc[p])]
  /\ fd' = [fd EXCEPT ![p] = NoInode]
  /\ Goto(p, "s_rename")
  /\ UNCHANGED <<dir, main, tmp, doc>>

(* os.Rename moves whatever state.json.tmp names now over state.json.       *)
SaveRename(p) ==
  /\ pc[p] = "s_rename"
  /\ IF tmp = NoInode
     THEN Finish(p) /\ UNCHANGED <<main, tmp>>
     ELSE /\ main' = tmp
          /\ tmp' = NoInode
          /\ Goto(p, "s_ok")
          /\ UNCHANGED <<fd, doc>>
  /\ UNCHANGED <<dir, data>>

SaveReturn(p) ==
  /\ pc[p] = "s_ok"
  /\ Finish(p)
  /\ UNCHANGED <<dir, main, tmp, data>>

LoadBegin(p) ==
  /\ pc[p] = "idle"
  /\ Goto(p, "l_open")
  /\ UNCHANGED <<dir, main, tmp, data, fd, doc>>

(* os.ReadFile opens state.json; a missing file is the zero State.          *)
LoadOpen(p) ==
  /\ pc[p] = "l_open"
  /\ fd' = [fd EXCEPT ![p] = main]
  /\ Goto(p, IF main = NoInode THEN "l_ok" ELSE "l_read")
  /\ UNCHANGED <<dir, main, tmp, data, doc>>

(* The bytes are read and parsed: a torn document fails the Load.           *)
LoadRead(p) ==
  /\ pc[p] = "l_read"
  /\ IF Whole(data[fd[p]])
     THEN /\ doc' = [doc EXCEPT ![p] = data[fd[p]].head]
          /\ fd' = [fd EXCEPT ![p] = NoInode]
          /\ Goto(p, "l_ok")
     ELSE Finish(p)
  /\ UNCHANGED <<dir, main, tmp, data>>

LoadReturn(p) ==
  /\ pc[p] = "l_ok"
  /\ Finish(p)
  /\ UNCHANGED <<dir, main, tmp, data>>

RemoveBegin(p) ==
  /\ pc[p] = "idle"
  /\ Goto(p, "r_main")
  /\ UNCHANGED <<dir, main, tmp, data, fd, doc>>

(* os.RemoveAll unlinks each entry, then the directory if it is empty.      *)
RemoveMain(p) ==
  /\ pc[p] = "r_main"
  /\ main' = NoInode
  /\ Goto(p, "r_tmp")
  /\ UNCHANGED <<dir, tmp, data, fd, doc>>

RemoveTmp(p) ==
  /\ pc[p] = "r_tmp"
  /\ tmp' = NoInode
  /\ Goto(p, "r_dir")
  /\ UNCHANGED <<dir, main, data, fd, doc>>

RemoveDir(p) ==
  /\ pc[p] = "r_dir"
  /\ dir' = (dir /\ (main # NoInode \/ tmp # NoInode))
  /\ Finish(p)
  /\ UNCHANGED <<main, tmp, data>>

(* The process is killed, or the host goes down: its descriptors close.     *)
Crash(p) ==
  /\ pc[p] # "idle"
  /\ Finish(p)
  /\ UNCHANGED <<dir, main, tmp, data>>

Step(p) ==
  \/ For(p)
  \/ \E d \in Docs : SaveBegin(p, d)
  \/ SaveOpen(p) \/ SaveWrite(p) \/ SaveRename(p) \/ SaveReturn(p)
  \/ LoadBegin(p) \/ LoadOpen(p) \/ LoadRead(p) \/ LoadReturn(p)
  \/ RemoveBegin(p) \/ RemoveMain(p) \/ RemoveTmp(p) \/ RemoveDir(p)
  \/ Crash(p)

Next == \E p \in Procs : Step(p)

Spec == Init /\ [][Next]_vars

----------------------------------------------------------------------------
(* No reader of state.json ever meets a document that is not whole, at      *)
(* whatever point a process is killed: "Save writes state.json atomically   *)
(* (write temp + rename)".                                                  *)
VisibleWhole ==
  /\ main # NoInode => Whole(data[main])
  /\ \A p \in Procs : pc[p] = "l_read" => Whole(data[fd[p]])

(* What a reader has opened does not change under it: nobody writes to the  *)
(* inode of state.json or of a document that was state.json.                *)
PublishedIsFinal ==
  [][ /\ main # NoInode => data'[main] = data[main]
      /\ \A p \in Procs : pc[p] = "l_read" => data'[fd[p]] = data[fd[p]] ]_vars

(* The files implement the register of StateStore: a Save takes effect at   *)
(* its rename, a Load at its open, a Remove at the unlink of state.json.    *)
Cell == IF main = NoInode THEN NoDoc ELSE data[main].head

Done(p) == pc[p] \in {"s_ok", "l_read", "l_ok", "r_tmp", "r_dir"}

Call(p) ==
  IF pc[p] = "idle"
  THEN NoCall
  ELSE [op   |-> IF pc[p] \in SavePcs THEN "save"
                 ELSE IF pc[p] \in LoadPcs THEN "load" ELSE "remove",
        doc  |-> IF pc[p] = "l_read" THEN data[fd[p]].head ELSE doc[p],
        done |-> Done(p)]

Store == INSTANCE StateStore WITH cell <- Cell, call <- [p \in Procs |-> Call(p)]

ImplementsStore == Store!Spec
=============================================================================
