-------------------------- MODULE StateFileProofs --------------------------
(***************************************************************************)
(* As long as the Saves of different processes do not overlap, Save is     *)
(* atomic however many processes load, save, remove and die: for every set *)
(* of processes, documents and inodes.                                     *)
(***************************************************************************)
EXTENDS StateFile, TLAPS

OneSaver == \A p, q \in Procs : pc[p] \in SavePcs /\ pc[q] \in SavePcs => p = q

NamesDiffer == tmp # NoInode => tmp # main

SaverInv ==
  \A p \in Procs :
    /\ pc[p] \in SavePcs => doc[p] \in Docs
    /\ pc[p] = "s_write" => /\ fd[p] \in Inodes
                            /\ fd[p] # main
                            /\ tmp \in {fd[p], NoInode}
                            /\ data[fd[p]] = Empty
                            /\ \A q \in Procs : pc[q] = "l_read" => fd[q] # fd[p]
    /\ pc[p] = "s_rename" /\ tmp # NoInode
         => data[tmp] = [head |-> doc[p], size |-> Size[doc[p]]]

ReaderInv ==
  \A p \in Procs :
    /\ pc[p] = "l_read" => fd[p] \in Inodes /\ fd[p] # tmp /\ Whole(data[fd[p]])
    /\ pc[p] \in {"idle", "l_open", "l_read"} \cup RemovePcs => doc[p] = NoDoc

IInv == /\ TypeOK
        /\ OneSaver
        /\ NamesDiffer
        /\ main # NoInode => Whole(data[main])
        /\ SaverInv
        /\ ReaderInv

(* Serial use, the assumption of every theorem below.                       *)
Serial == ~Overlap

LEMMA InitInv == Init => IInv
<1> SUFFICES ASSUME Init PROVE IInv
  OBVIOUS
<1>1. TypeOK
  BY DocsAssumption DEF Init, TypeOK, Bytes, Empty
<1> QED
  BY <1>1 DEF Init, IInv, OneSaver, NamesDiffer, SaverInv, ReaderInv, SavePcs,
     RemovePcs

(* The bytes that one WriteFile leaves in the file it has truncated.        *)
LEMMA WriteAfterTruncate ==
  ASSUME NEW d \in Docs
  PROVE  /\ Overwrite(Empty, d) = [head |-> d, size |-> Size[d]]
         /\ Whole([head |-> d, size |-> Size[d]])
         /\ [head |-> d, size |-> Size[d]] \in Bytes
  BY DocsAssumption DEF Overwrite, Empty, Whole, Bytes

(* A call that ends, well or badly, disturbs nothing.                       *)
LEMMA FinishInv ==
  ASSUME IInv, NEW p \in Procs, Finish(p), UNCHANGED <<main, tmp, data>>,
         dir' \in BOOLEAN
  PROVE  IInv'
<1>1. TypeOK'
  BY DEF IInv, TypeOK, Finish, Goto
<1>2. OneSaver' /\ NamesDiffer' /\ (main' # NoInode => Whole(data'[main']))
  BY DEF IInv, TypeOK, OneSaver, NamesDiffer, Finish, Goto, SavePcs, Whole
<1>3. SaverInv'
  BY DEF IInv, TypeOK, SaverInv, Finish, Goto, SavePcs
<1>4. ReaderInv'
  BY DEF IInv, TypeOK, ReaderInv, Finish, Goto, Whole, RemovePcs
<1> QED BY <1>1, <1>2, <1>3, <1>4 DEF IInv

LEMMA StepInv ==
  ASSUME Serial, IInv, NEW p \in Procs, Step(p)
  PROVE  IInv'
<1> USE DocsAssumption
<1> USE DEF IInv, TypeOK, OneSaver, NamesDiffer, SaverInv, ReaderInv, RemovePcs
<1>1. CASE For(p)
  BY <1>1 DEF For, Whole
<1>2. ASSUME NEW d \in Docs, SaveBegin(p, d) PROVE IInv'
  BY <1>2 DEF SaveBegin, Goto, MaySave, Serial, Whole, SavePcs
<1>3. CASE SaveOpen(p)
  <2>1. CASE ~dir
    BY <1>3, <2>1, FinishInv DEF SaveOpen
  <2>2. CASE dir
    <3>1. PICK i \in Inodes :
            /\ IF tmp = NoInode THEN Unreferenced(i) ELSE i = tmp
            /\ tmp' = i
            /\ data' = [data EXCEPT ![i] = Empty]
            /\ fd' = [fd EXCEPT ![p] = i]
            /\ Goto(p, "s_write")
            /\ UNCHANGED doc
      BY <1>3, <2>2 DEF SaveOpen
    <3>2. pc[p] = "s_open" /\ UNCHANGED <<dir, main>>
      BY <1>3 DEF SaveOpen
    <3>3. i # main
      BY <3>1 DEF Unreferenced
    <3>4. \A q \in Procs : pc[q] = "l_read" => fd[q] # i
      BY <3>1 DEF Unreferenced
    <3>5. TypeOK'
      <4>1. Empty \in Bytes
        BY DEF Empty, Bytes
      <4> QED BY <3>1, <3>2, <4>1 DEF Goto, SavePcs
    <3>6. OneSaver'
      BY <3>1, <3>2 DEF Goto, SavePcs
    <3>7. NamesDiffer' /\ (main' # NoInode => Whole(data'[main']))
      BY <3>1, <3>2, <3>3 DEF Whole
    <3>8. SaverInv'
      BY <3>1, <3>2, <3>3, <3>4 DEF Goto, SavePcs, Empty
    <3>9. ReaderInv'
      BY <3>1, <3>2, <3>4 DEF Goto, Whole
    <3> QED BY <3>5, <3>6, <3>7, <3>8, <3>9
  <2> QED BY <2>1, <2>2
<1>4. CASE SaveWrite(p)
  <2>1. /\ pc[p] = "s_write" /\ pc' = [pc EXCEPT ![p] = "s_rename"]
        /\ fd' = [fd EXCEPT ![p] = NoInode]
        /\ UNCHANGED <<dir, main, tmp, doc>>
    BY <1>4 DEF SaveWrite, Goto
  <2>2. doc[p] \in Docs /\ fd[p] \in Inodes /\ fd[p] # main
    BY <2>1 DEF SavePcs
  <2>3. data' = [data EXCEPT ![fd[p]] = [head |-> doc[p], size |-> Size[doc[p]]]]
    BY <1>4, <2>1, <2>2, WriteAfterTruncate DEF SaveWrite
  <2>4. TypeOK'
    BY <2>1, <2>2, <2>3, WriteAfterTruncate DEF SavePcs
  <2>5. OneSaver' /\ NamesDiffer' /\ (main' # NoInode => Whole(data'[main']))
    BY <2>1, <2>2, <2>3 DEF SavePcs, Whole
  <2>6. SaverInv'
    BY <2>1, <2>2, <2>3 DEF SavePcs
  <2>7. ReaderInv'
    BY <2>1, <2>2, <2>3 DEF Whole
  <2> QED BY <2>4, <2>5, <2>6, <2>7
<1>5. CASE SaveRename(p)
  <2>1. CASE tmp = NoInode
    BY <1>5, <2>1, FinishInv DEF SaveRename
  <2>2. CASE tmp # NoInode
    <3>1. /\ pc[p] = "s_rename" /\ pc' = [pc EXCEPT ![p] = "s_ok"]
          /\ main' = tmp /\ tmp' = NoInode
          /\ UNCHANGED <<dir, data, fd, doc>>
      BY <1>5, <2>2 DEF SaveRename, Goto
    <3>2. Whole(data[tmp])
      <4>1. doc[p] \in Docs
        BY <3>1 DEF SavePcs
      <4>2. data[tmp] = [head |-> doc[p], size |-> Size[doc[p]]]
        BY <2>2, <3>1
      <4>3. Whole([head |-> doc[p], size |-> Size[doc[p]]])
        BY <4>1, WriteAfterTruncate
      <4> QED BY <4>2, <4>3, Zenon
    <3>3. TypeOK' /\ OneSaver' /\ NamesDiffer'
      BY <2>2, <3>1 DEF SavePcs
    <3>4. SaverInv'
      BY <2>2, <3>1 DEF SavePcs
    <3>5. ReaderInv' /\ Whole(data'[main'])
      BY <2>2, <3>1, <3>2 DEF Whole
    <3> QED BY <3>3, <3>4, <3>5
  <2> QED BY <2>1, <2>2
<1>6. CASE SaveReturn(p)
  BY <1>6, FinishInv DEF SaveReturn
<1>7. CASE LoadBegin(p)
  <2>1. TypeOK' /\ OneSaver' /\ NamesDiffer' /\ SaverInv'
    BY <1>7 DEF LoadBegin, Goto, SavePcs, LoadPcs
  <2>2. ReaderInv' /\ (main' # NoInode => Whole(data'[main']))
    BY <1>7 DEF LoadBegin, Goto, Whole
  <2> QED BY <2>1, <2>2
<1>8. CASE LoadOpen(p)
  <2>1. TypeOK' /\ OneSaver' /\ NamesDiffer'
    BY <1>8 DEF LoadOpen, Goto, SavePcs, LoadPcs
  <2>2. SaverInv'
    BY <1>8 DEF LoadOpen, Goto, SavePcs
  <2>3. ReaderInv' /\ (main' # NoInode => Whole(data'[main']))
    BY <1>8 DEF LoadOpen, Goto, Whole
  <2> QED BY <2>1, <2>2, <2>3
<1>9. CASE LoadRead(p)
  <2>1. Whole(data[fd[p]]) /\ fd[p] \in Inodes
    BY <1>9 DEF LoadRead
  <2>2. /\ pc[p] = "l_read" /\ pc' = [pc EXCEPT ![p] = "l_ok"]
        /\ doc' = [doc EXCEPT ![p] = data[fd[p]].head]
        /\ fd' = [fd EXCEPT ![p] = NoInode]
        /\ UNCHANGED <<dir, main, tmp, data>>
    BY <1>9, <2>1 DEF LoadRead, Goto
  <2>3. TypeOK' /\ OneSaver' /\ NamesDiffer'
    BY <2>1, <2>2 DEF SavePcs, LoadPcs, Whole
  <2>4. SaverInv'
    BY <2>2 DEF SavePcs
  <2>5. ReaderInv' /\ (main' # NoInode => Whole(data'[main']))
    BY <2>2 DEF Whole
  <2> QED BY <2>3, <2>4, <2>5
<1>10. CASE LoadReturn(p)
  BY <1>10, FinishInv DEF LoadReturn
<1>11. CASE RemoveBegin(p) \/ RemoveMain(p) \/ RemoveTmp(p)
  <2>1. TypeOK' /\ OneSaver' /\ NamesDiffer'
    BY <1>11 DEF RemoveBegin, RemoveMain, RemoveTmp, Goto, SavePcs, RemovePcs
  <2>2. SaverInv'
    BY <1>11 DEF RemoveBegin, RemoveMain, RemoveTmp, Goto, SavePcs
  <2>3. ReaderInv' /\ (main' # NoInode => Whole(data'[main']))
    BY <1>11 DEF RemoveBegin, RemoveMain, RemoveTmp, Goto, Whole
  <2> QED BY <2>1, <2>2, <2>3
<1>12. CASE RemoveDir(p)
  BY <1>12, FinishInv DEF RemoveDir
<1>13. CASE Crash(p)
  BY <1>13, FinishInv DEF Crash
<1> QED
  BY <1>1, <1>2, <1>3, <1>4, <1>5, <1>6, <1>7, <1>8, <1>9, <1>10, <1>11, <1>12,
     <1>13 DEF Step

LEMMA Invariance == ASSUME Serial PROVE Spec => []IInv
<1>1. IInv /\ [Next]_vars => IInv'
  <2> SUFFICES ASSUME IInv, [Next]_vars PROVE IInv'
    OBVIOUS
  <2>1. CASE Next
    BY <2>1, StepInv DEF Next
  <2>2. CASE UNCHANGED vars
    BY <2>2 DEF vars, IInv, TypeOK, OneSaver, NamesDiffer, SaverInv, ReaderInv, Whole
  <2> QED BY <2>1, <2>2
<1> QED BY InitInv, <1>1, PTL DEF Spec

(* TypeOK, and what a save encodes is a document.                           *)
Typed == TypeOK /\ \A p \in Procs : pc[p] \in SavePcs => doc[p] \in Docs

(* However many processes save, load, remove and die at the same time: a    *)
(* call that is over has no descriptor open, and one that is in between has *)
(* one exactly where it reads or writes, of a file with whole fields.       *)
THEOREM DescriptorsClosed == Spec => []TypeOK
<1>1. Init => Typed
  BY InitInv DEF IInv, Init, Typed, SavePcs
<1>2. Typed /\ UNCHANGED vars => Typed'
  BY DEF Typed, TypeOK, vars
<1>3. ASSUME Typed, NEW p \in Procs, Step(p)
      PROVE  Typed'
  <2> USE <1>3 DEF Typed, TypeOK
  <2>1. \A d \in Docs, b \in Bytes : Overwrite(b, d) \in Bytes /\ Empty \in Bytes
    BY DocsAssumption DEF Overwrite, Bytes, Empty
  <2>2. CASE Finish(p) /\ UNCHANGED <<main, tmp, data>> /\ dir' \in BOOLEAN
    BY <2>2 DEF Finish, Goto, SavePcs, LoadPcs, RemovePcs
  <2>3. CASE \/ For(p) \/ LoadBegin(p) \/ LoadOpen(p) \/ RemoveBegin(p)
             \/ RemoveMain(p) \/ RemoveTmp(p) \/ \E d \in Docs : SaveBegin(p, d)
    BY <2>3 DEF For, LoadBegin, LoadOpen, RemoveBegin, RemoveMain, RemoveTmp, SaveBegin,
                Goto, SavePcs, LoadPcs, RemovePcs
  <2>4. CASE SaveOpen(p) /\ dir
    BY <2>1, <2>4, DocsAssumption DEF SaveOpen, Goto, SavePcs, LoadPcs, RemovePcs
  <2>5. CASE SaveWrite(p)
    <3>1. fd[p] \in Inodes /\ doc[p] \in Docs /\ Overwrite(data[fd[p]], doc[p]) \in Bytes
      BY <2>1, <2>5, DocsAssumption DEF SaveWrite, SavePcs
    <3>2. data' \in [Inodes -> Bytes]
      BY <3>1, <2>5 DEF SaveWrite
    <3> QED
      BY <2>5, <3>2 DEF SaveWrite, Goto, SavePcs, LoadPcs, RemovePcs
  <2>6. CASE SaveRename(p) /\ tmp # NoInode
    BY <2>6 DEF SaveRename, Goto, SavePcs, LoadPcs, RemovePcs
  <2>7. CASE LoadRead(p) /\ Whole(data[fd[p]])
    BY <2>7 DEF LoadRead, Whole, Goto, SavePcs, LoadPcs, RemovePcs
  <2>8. CASE \/ SaveOpen(p) /\ ~dir
             \/ SaveRename(p) /\ tmp = NoInode
             \/ LoadRead(p) /\ ~Whole(data[fd[p]])
             \/ SaveReturn(p) \/ LoadReturn(p) \/ RemoveDir(p) \/ Crash(p)
    BY <2>2, <2>8 DEF SaveOpen, SaveRename, LoadRead, SaveReturn, LoadReturn, RemoveDir, Crash
  <2> QED
    BY <2>3, <2>4, <2>5, <2>6, <2>7, <2>8 DEF Step
<1>4. Typed /\ [Next]_vars => Typed'
  BY <1>2, <1>3 DEF Next
<1>5. Typed => TypeOK
  BY DEF Typed
<1> QED
  BY <1>1, <1>4, <1>5, PTL DEF Spec

(* Whoever reads state.json reads a whole document.                         *)
THEOREM SerialSavesAreAtomic == ASSUME Serial PROVE Spec => []VisibleWhole
<1>1. IInv => VisibleWhole
  BY DEF IInv, ReaderInv, VisibleWhole
<1> QED BY <1>1, Invariance, PTL

(* Nobody writes to a document that is published: what a reader has opened   *)
(* stays as it was.                                                         *)
THEOREM PublishedDocumentsAreFinal == ASSUME Serial PROVE Spec => PublishedIsFinal
<1> DEFINE Final == /\ main # NoInode => data'[main] = data[main]
                    /\ \A p \in Procs : pc[p] = "l_read" => data'[fd[p]] = data[fd[p]]
<1>1. IInv /\ [Next]_vars => [Final]_vars
  <2> SUFFICES ASSUME IInv, Next PROVE Final
    OBVIOUS
  <2>1. PICK p \in Procs : Step(p)
    BY DEF Next
  <2>2. CASE SaveOpen(p)
    <3>1. \/ UNCHANGED data
          \/ \E i \in Inodes : /\ IF tmp = NoInode THEN Unreferenced(i) ELSE i = tmp
                              /\ data' = [data EXCEPT ![i] = Empty]
      BY <2>2 DEF SaveOpen
    <3>2. CASE UNCHANGED data
      BY <3>2
    <3>3. ASSUME NEW i \in Inodes, IF tmp = NoInode THEN Unreferenced(i) ELSE i = tmp,
                 data' = [data EXCEPT ![i] = Empty]
          PROVE  Final
      <4>1. i # main /\ \A q \in Procs : pc[q] = "l_read" => fd[q] # i
        BY <3>3 DEF IInv, NamesDiffer, ReaderInv, Unreferenced
      <4> QED BY <3>3, <4>1 DEF IInv, TypeOK, ReaderInv
    <3> QED BY <3>1, <3>2, <3>3
  <2>3. CASE SaveWrite(p)
    <3>1. fd[p] # main /\ \A q \in Procs : pc[q] = "l_read" => fd[q] # fd[p]
      BY <2>3 DEF SaveWrite, IInv, SaverInv
    <3>2. PICK b : data' = [data EXCEPT ![fd[p]] = b]
      BY <2>3 DEF SaveWrite
    <3>3. main # NoInode => data'[main] = data[main]
      BY <3>1, <3>2 DEF IInv, TypeOK
    <3>4. ASSUME NEW q \in Procs, pc[q] = "l_read" PROVE data'[fd[q]] = data[fd[q]]
      BY <3>1, <3>2, <3>4 DEF IInv, TypeOK, ReaderInv
    <3> QED BY <3>3, <3>4
  <2>4. CASE ~SaveOpen(p) /\ ~SaveWrite(p)
    BY <2>1, <2>4 DEF Step, For, SaveBegin, SaveRename, SaveReturn, LoadBegin,
       LoadOpen, LoadRead, LoadReturn, RemoveBegin, RemoveMain, RemoveTmp,
       RemoveDir, Crash
  <2> QED BY <2>2, <2>3, <2>4
<1> QED BY <1>1, Invariance, PTL DEF Spec, PublishedIsFinal

----------------------------------------------------------------------------
(* The refinement.  Calling is what the files say of the pending calls.      *)
Calling == [q \in Procs |-> Call(q)]

OthersUntouched(p) ==
  \A q \in Procs \ {p} :
    /\ pc'[q] = pc[q] /\ fd'[q] = fd[q] /\ doc'[q] = doc[q]
    /\ pc[q] = "l_read" => data'[fd[q]] = data[fd[q]]

LEMMA CallingChanges ==
  ASSUME NEW p \in Procs, OthersUntouched(p)
  PROVE  Calling' = [Calling EXCEPT ![p] = Call(p)']
<1>1. ASSUME NEW q \in Procs, q # p PROVE Call(q)' = Call(q)
  <2>1. /\ pc'[q] = pc[q] /\ doc'[q] = doc[q] /\ fd'[q] = fd[q]
        /\ pc[q] = "l_read" => data'[fd[q]] = data[fd[q]]
    BY <1>1 DEF OthersUntouched
  <2>2. Done(q)' = Done(q)
    BY <2>1 DEF Done
  <2> QED BY <2>1, <2>2 DEF Call
<1> QED BY <1>1 DEF Calling

(* Every operation but an idle one is a call of the register.               *)
LEMMA NotIdleIsCalling ==
  ASSUME IInv, NEW p \in Procs, pc[p] # "idle"
  PROVE  Call(p) # NoCall
<1>1. PICK op \in {"save", "load", "remove"}, d \in Docs \cup {NoDoc}, b \in BOOLEAN :
        Call(p) = [op |-> op, doc |-> d, done |-> b]
  <2>1. Done(p) \in BOOLEAN
    BY DEF Done
  <2>2. IF pc[p] = "l_read" THEN data[fd[p]].head \in Docs ELSE doc[p] \in Docs \cup {NoDoc}
    BY DEF IInv, TypeOK, ReaderInv, Whole
  <2> QED BY <2>1, <2>2 DEF Call
<1> QED BY <1>1, DocsAssumption

(* A call that ends leaves the register alone.                              *)
LEMMA FinishRefines ==
  ASSUME IInv, NEW p \in Procs, Finish(p), UNCHANGED <<main, tmp, data>>,
         pc[p] # "idle"
  PROVE  Store!Abort(p)
<1>1. Cell' = Cell
  BY DEF Cell
<1>2. OthersUntouched(p)
  BY DEF OthersUntouched, Finish, Goto, IInv, TypeOK
<1>3. Call(p)' = NoCall
  BY DEF Finish, Goto, IInv, TypeOK, Call, SavePcs, RemovePcs
<1>4. Calling' = [Calling EXCEPT ![p] = NoCall]
  BY <1>2, <1>3, CallingChanges
<1>5. Calling[p] # NoCall
  BY NotIdleIsCalling DEF Calling
<1> QED BY <1>1, <1>4, <1>5 DEF Store!Abort, Calling

(* When the pending call of p turns from not done to done, with the register *)
(* set to its document (Save, Remove) or its document set to the register.   *)
LEMMA CommitSave ==
  ASSUME NEW p \in Procs, OthersUntouched(p), Call(p) # NoCall,
         NEW op \in {"save", "remove"}, NEW d,
         Call(p) = [op |-> op, doc |-> d, done |-> FALSE],
         Call(p)' = [op |-> op, doc |-> d, done |-> TRUE],
         Cell' = d
  PROVE  Store!Commit(p)
<1>1. Calling[p] = Call(p)
  BY DEF Calling
<1>2. Calling' = [Calling EXCEPT ![p] = [op |-> op, doc |-> d, done |-> TRUE]]
  BY CallingChanges
<1>3. Calling[p].op = op /\ Calling[p].doc = d /\ ~Calling[p].done
  BY <1>1
<1> QED BY <1>1, <1>2, <1>3 DEF Store!Commit, Calling

LEMMA CommitLoad ==
  ASSUME NEW p \in Procs, OthersUntouched(p), Call(p) # NoCall, NEW d,
         Call(p) = [op |-> "load", doc |-> d, done |-> FALSE],
         Call(p)' = [op |-> "load", doc |-> Cell, done |-> TRUE],
         Cell' = Cell
  PROVE  Store!Commit(p)
<1>1. Calling[p] = Call(p)
  BY DEF Calling
<1>2. Calling' = [Calling EXCEPT ![p] = [op |-> "load", doc |-> Cell, done |-> TRUE]]
  BY CallingChanges
<1>3. Calling[p].op = "load" /\ ~Calling[p].done
  BY <1>1
<1> QED BY <1>1, <1>2, <1>3 DEF Store!Commit, Calling

LEMMA StoreInit == Init => Store!Init
  BY DEF Init, Store!Init, Cell, Call

(* One step of the files is one step of the register, or none.              *)
LEMMA StepRefines ==
  ASSUME Serial, IInv, NEW p \in Procs, Step(p)
  PROVE  [Store!Next]_(Store!vars)
<1> DEFINE Stutter == Cell' = Cell /\ Calling' = Calling
<1>0. /\ Stutter => UNCHANGED Store!vars
      /\ Store!Abort(p) \/ Store!Commit(p) => Store!Next
  BY DEF Store!vars, Calling, Store!Next
<1>1. CASE For(p)
  <2>1. Stutter
    BY <1>1 DEF For, Cell, Calling, Call, Done
  <2> QED BY <1>0, <2>1
<1>2. ASSUME NEW d \in Docs, SaveBegin(p, d) PROVE Store!Next
  <2>1. OthersUntouched(p) /\ Cell' = Cell
    BY <1>2 DEF SaveBegin, Goto, OthersUntouched, IInv, TypeOK, Cell
  <2>2. Calling[p] = NoCall /\ Done(p)' = FALSE
    BY <1>2 DEF SaveBegin, Goto, Calling, Call, Done, IInv, TypeOK
  <2>3. Call(p)' = [op |-> "save", doc |-> d, done |-> FALSE]
    BY <1>2, <2>2 DEF SaveBegin, Goto, Call, IInv, TypeOK, ReaderInv, SavePcs, LoadPcs, RemovePcs
  <2>4. Store!Invoke(p, "save", d)
    BY <2>1, <2>2, <2>3, CallingChanges DEF Store!Invoke, Calling
  <2> QED BY <2>4 DEF Store!Next
<1>3. CASE LoadBegin(p)
  <2>1. OthersUntouched(p) /\ Cell' = Cell
    BY <1>3 DEF LoadBegin, Goto, OthersUntouched, IInv, TypeOK, Cell
  <2>2. Calling[p] = NoCall /\ Done(p)' = FALSE
    BY <1>3 DEF LoadBegin, Goto, Calling, Call, Done, IInv, TypeOK
  <2>3. Call(p)' = [op |-> "load", doc |-> NoDoc, done |-> FALSE]
    BY <1>3, <2>2 DEF LoadBegin, Goto, Call, IInv, TypeOK, ReaderInv, SavePcs, LoadPcs, RemovePcs
  <2>4. Store!Invoke(p, "load", NoDoc)
    BY <2>1, <2>2, <2>3, CallingChanges DEF Store!Invoke, Calling
  <2> QED BY <2>4 DEF Store!Next
<1>4. CASE RemoveBegin(p)
  <2>1. OthersUntouched(p) /\ Cell' = Cell
    BY <1>4 DEF RemoveBegin, Goto, OthersUntouched, IInv, TypeOK, Cell
  <2>2. Calling[p] = NoCall /\ Done(p)' = FALSE
    BY <1>4 DEF RemoveBegin, Goto, Calling, Call, Done, IInv, TypeOK
  <2>3. Call(p)' = [op |-> "remove", doc |-> NoDoc, done |-> FALSE]
    BY <1>4, <2>2 DEF RemoveBegin, Goto, Call, IInv, TypeOK, ReaderInv, SavePcs, LoadPcs, RemovePcs
  <2>4. Store!Invoke(p, "remove", NoDoc)
    BY <2>1, <2>2, <2>3, CallingChanges DEF Store!Invoke, Calling
  <2> QED BY <2>4 DEF Store!Next
<1>5. CASE SaveRename(p) /\ tmp # NoInode
  <2>1. /\ pc[p] = "s_rename" /\ pc' = [pc EXCEPT ![p] = "s_ok"]
        /\ main' = tmp
        /\ UNCHANGED <<data, fd, doc>>
    BY <1>5 DEF SaveRename, Goto
  <2>2. OthersUntouched(p)
    BY <2>1 DEF OthersUntouched, IInv, TypeOK
  <2>3. Done(p) = FALSE /\ Done(p)' = TRUE
    BY <2>1 DEF Done, IInv, TypeOK
  <2>4. /\ Call(p) = [op |-> "save", doc |-> doc[p], done |-> FALSE]
        /\ Call(p)' = [op |-> "save", doc |-> doc[p], done |-> TRUE]
    BY <2>1, <2>3 DEF Call, SavePcs, IInv, TypeOK
  <2>5. data[tmp] = [head |-> doc[p], size |-> Size[doc[p]]]
    BY <1>5, <2>1 DEF IInv, SaverInv
  <2>6. Cell' = doc[p]
    BY <1>5, <2>1, <2>5 DEF Cell
  <2>7. Store!Commit(p)
    BY <2>1, <2>2, <2>4, <2>6, CommitSave, NotIdleIsCalling
  <2> QED BY <1>0, <2>7
<1>6. CASE LoadOpen(p)
  <2>1. /\ pc[p] = "l_open" /\ fd' = [fd EXCEPT ![p] = main]
        /\ pc' = [pc EXCEPT ![p] = IF main = NoInode THEN "l_ok" ELSE "l_read"]
        /\ UNCHANGED <<main, data, doc>>
    BY <1>6 DEF LoadOpen, Goto
  <2>2. OthersUntouched(p) /\ Cell' = Cell
    BY <2>1 DEF OthersUntouched, IInv, TypeOK, Cell
  <2>3. Done(p) = FALSE /\ Done(p)' = TRUE
    BY <2>1 DEF Done, IInv, TypeOK
  <2>4. Call(p) = [op |-> "load", doc |-> NoDoc, done |-> FALSE]
    BY <2>1, <2>3 DEF Call, SavePcs, LoadPcs, IInv, ReaderInv
  <2>5. Call(p)' = [op |-> "load", doc |-> Cell, done |-> TRUE]
    <3>1. CASE main = NoInode
      BY <2>1, <2>3, <3>1 DEF Call, Cell, SavePcs, LoadPcs, IInv, TypeOK, ReaderInv
    <3>2. CASE main # NoInode
      BY <2>1, <2>3, <3>2 DEF Call, Cell, SavePcs, LoadPcs, IInv, TypeOK
    <3> QED BY <3>1, <3>2
  <2>6. Store!Commit(p)
    BY <2>1, <2>2, <2>4, <2>5, CommitLoad, NotIdleIsCalling
  <2> QED BY <1>0, <2>6
<1>7. CASE RemoveMain(p)
  <2>1. /\ pc[p] = "r_main" /\ pc' = [pc EXCEPT ![p] = "r_tmp"]
        /\ main' = NoInode
        /\ UNCHANGED <<data, fd, doc>>
    BY <1>7 DEF RemoveMain, Goto
  <2>2. OthersUntouched(p) /\ Cell' = NoDoc
    BY <2>1 DEF OthersUntouched, IInv, TypeOK, Cell
  <2>3. Done(p) = FALSE /\ Done(p)' = TRUE
    BY <2>1 DEF Done, IInv, TypeOK
  <2>4. /\ Call(p) = [op |-> "remove", doc |-> NoDoc, done |-> FALSE]
        /\ Call(p)' = [op |-> "remove", doc |-> NoDoc, done |-> TRUE]
    BY <2>1, <2>3 DEF Call, SavePcs, LoadPcs, RemovePcs, IInv, TypeOK, ReaderInv
  <2>5. Store!Commit(p)
    BY <2>1, <2>2, <2>4, CommitSave, NotIdleIsCalling
  <2> QED BY <1>0, <2>5
<1>8. CASE SaveOpen(p) /\ dir
  <2>1. PICK i \in Inodes :
          /\ IF tmp = NoInode THEN Unreferenced(i) ELSE i = tmp
          /\ data' = [data EXCEPT ![i] = Empty]
          /\ fd' = [fd EXCEPT ![p] = i]
          /\ pc[p] = "s_open" /\ pc' = [pc EXCEPT ![p] = "s_write"]
          /\ UNCHANGED <<main, doc>>
    BY <1>8 DEF SaveOpen, Goto
  <2>2. i # main /\ \A q \in Procs : pc[q] = "l_read" => fd[q] # i
    BY <2>1 DEF IInv, NamesDiffer, ReaderInv, Unreferenced
  <2>3. Cell' = Cell
    BY <2>1, <2>2 DEF Cell, IInv, TypeOK
  <2>4. OthersUntouched(p)
    BY <2>1, <2>2 DEF OthersUntouched, IInv, TypeOK, ReaderInv
  <2>5. Call(p)' = Calling[p]
    BY <2>1 DEF Calling, Call, Done, SavePcs, IInv, TypeOK
  <2>6. Stutter
    BY <2>3, <2>4, <2>5, CallingChanges DEF Calling
  <2> QED BY <1>0, <2>6
<1>9. CASE SaveWrite(p)
  <2>1. PICK b :
          /\ data' = [data EXCEPT ![fd[p]] = b]
          /\ fd' = [fd EXCEPT ![p] = NoInode]
          /\ pc[p] = "s_write" /\ pc' = [pc EXCEPT ![p] = "s_rename"]
          /\ UNCHANGED <<main, doc>>
    BY <1>9 DEF SaveWrite, Goto
  <2>2. fd[p] # main /\ \A q \in Procs : pc[q] = "l_read" => fd[q] # fd[p]
    BY <2>1 DEF IInv, SaverInv
  <2>3. Cell' = Cell
    BY <2>1, <2>2 DEF Cell, IInv, TypeOK
  <2>4. OthersUntouched(p)
    BY <2>1, <2>2 DEF OthersUntouched, IInv, TypeOK, ReaderInv
  <2>5. Call(p)' = Calling[p]
    BY <2>1 DEF Calling, Call, Done, SavePcs, IInv, TypeOK
  <2>6. Stutter
    BY <2>3, <2>4, <2>5, CallingChanges DEF Calling
  <2> QED BY <1>0, <2>6
<1>10. CASE LoadRead(p)
  <2>1. Whole(data[fd[p]])
    BY <1>10 DEF LoadRead, IInv, ReaderInv
  <2>2. /\ pc[p] = "l_read" /\ pc' = [pc EXCEPT ![p] = "l_ok"]
        /\ doc' = [doc EXCEPT ![p] = data[fd[p]].head]
        /\ fd' = [fd EXCEPT ![p] = NoInode]
        /\ UNCHANGED <<main, data>>
    BY <1>10, <2>1 DEF LoadRead, Goto
  <2>3. OthersUntouched(p) /\ Cell' = Cell
    BY <2>2 DEF OthersUntouched, IInv, TypeOK, Cell
  <2>4. Call(p)' = Calling[p]
    BY <2>2 DEF Calling, Call, Done, SavePcs, LoadPcs, IInv, TypeOK
  <2>5. Stutter
    BY <2>3, <2>4, CallingChanges DEF Calling
  <2> QED BY <1>0, <2>5
<1>11. CASE RemoveTmp(p)
  <2>1. OthersUntouched(p) /\ Cell' = Cell /\ Call(p)' = Calling[p]
    BY <1>11 DEF RemoveTmp, Goto, OthersUntouched, IInv, TypeOK, Cell, Calling,
       Call, Done, SavePcs, LoadPcs, RemovePcs
  <2>2. Stutter
    BY <2>1, CallingChanges DEF Calling
  <2> QED BY <1>0, <2>2
<1>12. CASE \/ SaveOpen(p) /\ ~dir
            \/ SaveRename(p) /\ tmp = NoInode
            \/ SaveReturn(p) \/ LoadReturn(p) \/ RemoveDir(p) \/ Crash(p)
  <2>1. Finish(p) /\ UNCHANGED <<main, tmp, data>> /\ pc[p] # "idle"
    BY <1>12 DEF SaveOpen, SaveRename, SaveReturn, LoadReturn, RemoveDir, Crash
  <2> QED BY <1>0, <2>1, FinishRefines
<1> QED
  BY <1>1, <1>2, <1>3, <1>4, <1>5, <1>6, <1>7, <1>8, <1>9, <1>10, <1>11, <1>12
     DEF Step, IInv, TypeOK

(* Save, Load and Remove of one workspace, with one saver at a time, behave  *)
(* as the operations of an atomic register.                                 *)
THEOREM SerialFilesImplementStore == ASSUME Serial PROVE Spec => ImplementsStore
<1>1. IInv /\ [Next]_vars => [Store!Next]_(Store!vars)
  <2> SUFFICES ASSUME IInv, [Next]_vars PROVE [Store!Next]_(Store!vars)
    OBVIOUS
  <2>1. CASE Next
    BY <2>1, StepRefines DEF Next
  <2>2. CASE UNCHANGED vars
    BY <2>2 DEF vars, Store!vars, Cell, Call, Done
  <2> QED BY <2>1, <2>2
<1> QED BY <1>1, StoreInit, Invariance, PTL DEF Spec, ImplementsStore, Store!Spec
=============================================================================
