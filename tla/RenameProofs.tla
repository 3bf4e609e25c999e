---------------------------- MODULE RenameProofs ----------------------------
(***************************************************************************)
(* What an `up` that runs alone does to the traces of its earlier names,   *)
(* whatever state other runs, failed, killed or overlapping, have left.    *)
(***************************************************************************)
EXTENDS Rename, TLAPS

(* Two configs of one folder share no name, for they would share an id.     *)
DistinctNames ==
  \A c, d \in Configs :
    c # d /\ FolderOf[c] = FolderOf[d] => NamesOf[c] \cap NamesOf[d] = {}

(* What an old devc left is told apart by its folder alone.                 *)
LegacyAlone ==
  \A i \in Legacy, c, d \in Configs :
    FolderOf[c] = i.folder /\ FolderOf[d] = i.folder => c = d

(* i is an id of c.                                                         *)
Owner(i, c) == i.folder = FolderOf[c] /\ i.name \in NamesOf[c]

Owned ==
  \A i \in Ids :
    /\ ctr[i] \in Configs => Owner(i, ctr[i])
    /\ st[i] \in Configs => Owner(i, st[i])
    /\ ssh[i] # None => Owner(i, ssh[i])
    /\ ctr[i] = Untracked \/ st[i] = Untracked => i \in Legacy
    /\ ctr[i] = Unlabelled => \E d \in Configs \cap Compose : Owner(i, d)

Retiring == {"remove", "state", "block"}

(* A trace of p's config under another name.                                *)
Trace(p, i) ==
  \/ st[i] = run[p].config
  \/ i \in IdsOf(run[p].config) /\ ctr[i] # None /\ ~Unplaced(i)
  \/ i.folder = run[p].id.folder /\ ctr[i] = Untracked /\ st[i] \notin Configs

ToRetire(p) ==
  run[p].refs \cup (IF run[p].at \in Retiring THEN {run[p].ref} ELSE {})

(* What p knows while it runs alone.                                        *)
Active(p) ==
  run[p] # Idle =>
    /\ run[p] \in Runs /\ Owner(run[p].id, run[p].config)
    /\ run[p].at \in Retiring => run[p].ref \in Ids
    /\ run[p].at = "create" => run[p].refs = {}
    /\ run[p].at = "states" => run[p].listed = Unread

Calm(p) == \A q \in Procs : q # p => run[q] = Idle

Listed(p) ==
  run[p].at = "containers" =>
    \/ run[p].listed = st
    \/ run[p].listed = Unread /\ run[p].blind /\ run[p].failed

(* No trace is overlooked.                                                  *)
Found(p) ==
  run[p].at \in Retiring \cup {"retire", "create"} /\ ~run[p].failed =>
    \A i \in Ids \ {run[p].id} :
      Trace(p, i) => \/ i \in run[p].refs
                     \/ i = run[p].ref /\ run[p].at \in {"remove", "state"}

(* Nothing of another config's is retired, but for what is retired blindly. *)
MayRetire(p, i) == ssh[i] = run[p].config \/ (run[p].blind /\ ssh[i] \in Compose)

Mine(p) == \A i \in ToRetire(p) : ssh[i] # None => MayRetire(p, i)

Gone(p) == run[p].at \in {"state", "block"} => ctr[run[p].ref] = None

Knows(p) == run[p].alone => Calm(p) /\ Listed(p) /\ Found(p) /\ Mine(p) /\ Gone(p)

Inv == TypeOK /\ Owned /\ \A p \in Procs : Active(p) /\ Knows(p)

----------------------------------------------------------------------------
LEMMA IdFacts ==
  ASSUME NEW c \in Configs, NEW n \in NamesOf[c]
  PROVE  n \in Names /\ IdOf(c, n) \in Ids /\ Owner(IdOf(c, n), c)
BY DEF Names, IdOf, Ids, Owner

LEMMA DistinctMarks == Untracked # Unlabelled
BY DEF Untracked, Unlabelled

LEMMA IdleFacts ==
  /\ Idle.at = "idle" /\ ~Idle.alone
  /\ \A r \in Runs : r # Idle /\ r.at # "idle"
BY DEF Idle, Runs

LEMMA RunsClosed ==
  ASSUME NEW r \in Runs, NEW l \in States, NEW s \in SUBSET Ids, NEW f \in BOOLEAN
  PROVE  [r EXCEPT !.at = "retire", !.listed = l, !.refs = s, !.failed = f] \in Runs
BY DEF Runs

(* One config has an id.                                                    *)
LEMMA OneOwner ==
  ASSUME DistinctNames, NEW i \in Ids, NEW c \in Configs, NEW d \in Configs,
         Owner(i, c), Owner(i, d)
  PROVE  c = d
BY DEF DistinctNames, Owner

LEMMA InitInv == Init => Inv
<1> SUFFICES ASSUME Init PROVE Inv
  OBVIOUS
<1>1. TypeOK
  BY RenameAssumption DEF Init, TypeOK, States
<1>2. Owned
  BY RenameAssumption, DistinctMarks DEF Init, Owned, Owner
<1>3. ASSUME NEW p \in Procs
      PROVE  Active(p) /\ Knows(p)
  BY IdleFacts DEF Init, Active, Knows
<1> QED
  BY <1>1, <1>2, <1>3 DEF Inv

(* p has done a step, and nothing is known worse than before.                *)
Good(p) ==
  /\ TypeOK' /\ Owned' /\ Active(p)' /\ Knows(p)'
  /\ \A q \in Procs : q # p => run'[q] = run[q] /\ run[p] # Idle

LEMMA GoodKeepsInv ==
  ASSUME Inv, NEW p \in Procs, Good(p)
  PROVE  Inv'
<1>1. ASSUME NEW q \in Procs, q # p
      PROVE  Active(q)' /\ Knows(q)'
  <2>1. run'[q] = run[q] /\ run[p] # Idle
    BY <1>1 DEF Good
  <2>2. Active(q)'
    BY <2>1 DEF Inv, Active
  <2>3. ~run[q].alone
    BY <1>1, <2>1 DEF Inv, Knows, Calm
  <2> QED
    BY <2>1, <2>2, <2>3 DEF Knows
<1> QED
  BY <1>1 DEF Good, Inv

LEMMA BudgetTyped ==
  ASSUME Inv, NEW e \in Events, Spend(e) \/ UNCHANGED budget
  PROVE  budget' \in [Events -> Nat]
BY DEF Inv, TypeOK, Spend

LEMMA ListStatesGood ==
  ASSUME Inv, NEW p \in Procs, ListStates(p)
  PROVE  Good(p)
<1> USE IdleFacts DEF ListStates, host
<1>1. run[p] \in Runs /\ run[p] # Idle /\ run'[p] \in Runs
  BY DEF Inv, TypeOK, Runs
<1>2. TypeOK' /\ Owned'
  <2>1. budget' \in [Events -> Nat]
    BY BudgetTyped DEF Events
  <2> QED
    BY <1>1, <2>1 DEF Inv, TypeOK, Owned
<1>3. /\ run'[p].id = run[p].id /\ run'[p].config = run[p].config
      /\ run'[p].at = "containers"
      /\ \/ run'[p].listed = st /\ run'[p].blind = run[p].blind
         \/ run'[p].listed = Unread /\ run'[p].blind /\ run'[p].failed
      /\ run'[p].alone = run[p].alone /\ run'[p].refs = run[p].refs
      /\ \A q \in Procs : q # p => run'[q] = run[q]
  BY <1>1 DEF Inv, TypeOK, Runs, Active
<1>4. Active(p)'
  BY <1>1, <1>3 DEF Inv, Active, Retiring
<1>5. Knows(p)'
  BY <1>3 DEF Inv, Knows, Calm, Listed, Found, Mine, MayRetire, Gone, ToRetire, Retiring
<1> QED
  BY <1>1, <1>2, <1>3, <1>4, <1>5 DEF Good

(* Everything that is a trace is found, and nothing of another config's.     *)
LEMMA ListContainersGood ==
  ASSUME DistinctNames, LegacyAlone, Inv, NEW p \in Procs, ListContainers(p)
  PROVE  Good(p)
<1> USE IdleFacts DEF ListContainers, host
<1>0. PICK seen \in {ctr, Unread} :
        /\ run' = [run EXCEPT ![p].at = "retire", ![p].listed = Unread,
                              ![p].refs = {i \in Ids : Earlier(p, i, seen)},
                              ![p].failed = @ \/ seen # ctr]
        /\ IF seen = ctr THEN UNCHANGED budget ELSE Spend("fail")
  OBVIOUS
<1> DEFINE r == run[p]
           refs == {i \in Ids : Earlier(p, i, seen)}
           failed == r.failed \/ seen # ctr
<1>a. r \in Runs /\ r # Idle
  BY DEF Inv, TypeOK
<1>b. Unread \in States /\ refs \in SUBSET Ids /\ failed \in BOOLEAN
  BY DEF Unread, States
<1>c. run' = [run EXCEPT ![p].at = "retire", ![p].listed = Unread, ![p].refs = refs,
                         ![p].failed = failed]
  BY <1>0
<1> HIDE DEF refs, failed
<1>d. run'[p] \in Runs
  <2>1. run'[p] = [r EXCEPT !.at = "retire", !.listed = Unread, !.refs = refs, !.failed = failed]
    BY <1>c DEF Inv, TypeOK
  <2> HIDE DEF r
  <2>2. [r EXCEPT !.at = "retire", !.listed = Unread, !.refs = refs, !.failed = failed] \in Runs
    BY <1>a, <1>b, RunsClosed, Zenon
  <2> QED
    BY <2>1, <2>2, Zenon
<1> USE DEF refs, failed
<1>1. r \in Runs /\ r # Idle /\ run'[p] \in Runs
  BY <1>a, <1>d
<1>2. TypeOK' /\ Owned'
  <2>1. budget' \in [Events -> Nat]
    BY <1>0, BudgetTyped DEF Events
  <2> QED
    BY <1>c, <1>1, <2>1 DEF Inv, TypeOK, Owned
<1>3. /\ run'[p].id = r.id /\ run'[p].config = r.config
      /\ run'[p].at = "retire" /\ run'[p].refs = refs
      /\ run'[p].alone = r.alone /\ run'[p].blind = r.blind /\ run'[p].failed = failed
      /\ \A q \in Procs : q # p => run'[q] = run[q]
  BY <1>c, <1>1 DEF Inv, TypeOK, Runs
<1>4. Active(p)'
  BY <1>1, <1>3 DEF Inv, Active, Retiring
<1>5. r.config \in Configs /\ r.id \in Ids /\ Owner(r.id, r.config)
  BY <1>1 DEF Inv, Active, Runs
<1>6. ASSUME r.alone
      PROVE  Found(p)'
  <2> SUFFICES ASSUME NEW i \in Ids \ {r.id}, Trace(p, i), seen = ctr, ~r.failed
               PROVE  Earlier(p, i, seen)
    BY <1>3 DEF Found, Trace, Unplaced
  <2>1. r.listed = st
    BY <1>6 DEF Inv, Knows, Listed
  <2>2. ctr[i] \in Configs \cup {Untracked, Unlabelled, None} /\ st[i] \in Configs \cup {Untracked, None}
    BY DEF Inv, TypeOK, States
  <2>3. CASE Owner(i, r.config) /\ (st[i] # None \/ ctr[i] \in Configs \cup {Untracked})
    <3>1. i.folder = r.id.folder
      BY <1>5, <2>3 DEF Owner
    <3>2. Located(p, i, seen)
      BY <2>1, <2>3 DEF Located
    <3>3. ctr[i] \in Configs => ctr[i] = r.config
      BY <1>5, <2>3, OneOwner DEF Inv, Owned
    <3>4. st[i] \in Configs => st[i] = r.config
      BY <1>5, <2>3, OneOwner DEF Inv, Owned
    <3> QED
      BY <2>1, <2>2, <3>1, <3>2, <3>3, <3>4 DEF Earlier, SameConfig, ConfigOf
  <2>4. CASE st[i] = r.config
    <3>1. Owner(i, r.config) /\ st[i] # None
      BY <1>5, <2>4, RenameAssumption DEF Inv, Owned
    <3> QED
      BY <2>3, <3>1
  <2>5. CASE i.folder = r.id.folder /\ ctr[i] = Untracked /\ st[i] \notin Configs
    BY <2>1, <2>2, <2>5, RenameAssumption DEF Earlier, Located, SameConfig, ConfigOf
  <2>6. CASE i \in IdsOf(r.config) /\ ctr[i] # None /\ ~Unplaced(i)
    <3>1. PICK n \in NamesOf[r.config] : i = IdOf(r.config, n)
      BY <2>6 DEF IdsOf
    <3>2. Owner(i, r.config)
      BY <1>5, <3>1, IdFacts
    <3> QED
      BY <2>2, <2>3, <2>6, <3>2 DEF Unplaced
  <2> QED
    BY <2>4, <2>5, <2>6 DEF Trace
<1>7. ASSUME r.alone
      PROVE  Mine(p)'
  <2> SUFFICES ASSUME NEW i \in Ids, Earlier(p, i, seen), ssh[i] # None
               PROVE  ssh[i] = r.config \/ (r.blind /\ ssh[i] \in Compose)
    BY <1>3 DEF Mine, MayRetire, ToRetire, Retiring
  <2>1. r.listed = st \/ (r.listed = Unread /\ r.blind)
    BY <1>7 DEF Inv, Knows, Listed
  <2>2. /\ ctr[i] \in Configs \cup {Untracked, Unlabelled, None}
        /\ st[i] \in Configs \cup {Untracked, None}
        /\ ssh[i] \in Configs /\ seen[i] \in {ctr[i], None}
    BY DEF Inv, TypeOK, States, Unread
  <2>a. r.listed[i] = st[i] \/ (r.listed[i] = None /\ r.blind)
    BY <2>1 DEF Unread
  <2>3. Owner(i, ssh[i]) /\ i.folder = FolderOf[r.config]
    BY <1>5 DEF Inv, Owned, Owner, Earlier
  <2>4. CASE ConfigOf(p, i, seen) = r.config
    <3>1. r.config \in {ctr[i], st[i]}
      BY <1>5, <2>2, <2>a, <2>4, RenameAssumption DEF ConfigOf
    <3>2. Owner(i, r.config)
      BY <1>5, <3>1 DEF Inv, Owned
    <3> QED
      BY <1>5, <2>2, <2>3, <3>2, OneOwner
  <2>5. CASE i \in Legacy
    BY <1>5, <2>2, <2>3, <2>5 DEF LegacyAlone, Owner
  <2>6. CASE ctr[i] = Unlabelled /\ r.blind
    <3>1. PICK d \in Configs \cap Compose : Owner(i, d)
      BY <2>6 DEF Inv, Owned
    <3>2. ssh[i] = d
      BY <2>2, <2>3, <3>1, OneOwner
    <3> QED
      BY <2>6, <3>2
  <2>7. CASE ConfigOf(p, i, seen) \in {Untracked, None}
    <3>1. i \in Legacy \/ (ctr[i] = Unlabelled /\ r.blind)
      BY <2>2, <2>a, <2>7, RenameAssumption DEF ConfigOf, Earlier, Located, Inv, Owned
    <3> QED
      BY <2>5, <2>6, <3>1
  <2> QED
    BY <2>4, <2>7 DEF Earlier, SameConfig
<1>8. Knows(p)'
  BY <1>3, <1>6, <1>7 DEF Inv, Knows, Calm, Listed, Gone
<1> QED
  BY <1>1, <1>2, <1>3, <1>4, <1>8 DEF Good

LEMMA NextRefGood ==
  ASSUME Inv, NEW p \in Procs, NextRef(p)
  PROVE  Good(p)
<1> USE IdleFacts DEF NextRef, host
<1>1. run[p] \in Runs /\ run[p] # Idle
  BY DEF Inv, TypeOK, Runs
<1>2. PICK i \in run[p].refs :
        run' = [run EXCEPT ![p].at = "remove", ![p].ref = i, ![p].refs = @ \ {i}]
  OBVIOUS
<1>3. /\ run'[p].id = run[p].id /\ run'[p].config = run[p].config
      /\ run'[p].at = "remove" /\ run'[p].ref = i /\ run'[p].refs = run[p].refs \ {i}
      /\ run'[p].alone = run[p].alone /\ run'[p].blind = run[p].blind /\ run'[p].failed = run[p].failed
      /\ \A q \in Procs : q # p => run'[q] = run[q]
  BY <1>1, <1>2 DEF Inv, TypeOK, Runs
<1>4. run'[p] \in Runs /\ i \in Ids
  BY <1>1, <1>2 DEF Inv, TypeOK, Runs
<1>5. TypeOK' /\ Owned'
  BY <1>2, <1>4 DEF Inv, TypeOK, Owned
<1>6. Active(p)'
  BY <1>1, <1>3, <1>4 DEF Inv, Active, Retiring
<1>7. ASSUME run[p].alone
      PROVE  Knows(p)'
  <2>1. Found(p) /\ Mine(p) /\ Calm(p)
    BY <1>7 DEF Inv, Knows
  <2>2. Found(p)'
    BY <1>3, <2>1 DEF Found, Trace, Unplaced, Retiring
  <2>3. ToRetire(p)' \subseteq ToRetire(p)
    BY <1>2, <1>3 DEF ToRetire, Retiring
  <2>a. Mine(p)'
    BY <1>3, <2>1, <2>3 DEF Mine, MayRetire
  <2>4. Calm(p)' /\ Listed(p)' /\ Gone(p)'
    BY <1>3, <2>1 DEF Calm, Listed, Gone
  <2> QED
    BY <2>2, <2>a, <2>4 DEF Knows
<1> QED
  BY <1>1, <1>3, <1>5, <1>6, <1>7 DEF Good, Knows

(* A step that changes at, and failed.                                      *)
Labels == {"retire", "remove", "state", "block", "create", "persist", "config"}

LEMMA Moves ==
  ASSUME Inv, NEW p \in Procs, run[p] # Idle, NEW label \in Labels,
         \/ run' = [run EXCEPT ![p].at = label]
         \/ run' = [run EXCEPT ![p].at = label, ![p].failed = TRUE]
  PROVE  /\ run[p] \in Runs /\ run'[p] \in Runs /\ run'[p] # Idle
         /\ run' \in [Procs -> Runs \cup {Idle}]
         /\ run'[p].at = label /\ run'[p].config = run[p].config /\ run'[p].id = run[p].id
         /\ run'[p].refs = run[p].refs /\ run'[p].ref = run[p].ref
         /\ run'[p].alone = run[p].alone /\ run'[p].blind = run[p].blind
         /\ ~run'[p].failed => ~run[p].failed
         /\ \A q \in Procs : q # p => run'[q] = run[q]
<1>1. run[p] \in Runs
  BY DEF Inv, TypeOK
<1>2. CASE run' = [run EXCEPT ![p].at = label]
  <2>1. run'[p] = [run[p] EXCEPT !.at = label]
    BY <1>2 DEF Inv, TypeOK
  <2>2. [run[p] EXCEPT !.at = label] \in Runs
    BY <1>1 DEF Runs, Labels
  <2>3. /\ run'[p].at = label /\ run'[p].config = run[p].config /\ run'[p].id = run[p].id
        /\ run'[p].refs = run[p].refs /\ run'[p].ref = run[p].ref
        /\ run'[p].alone = run[p].alone /\ run'[p].blind = run[p].blind /\ run'[p].failed = run[p].failed
    BY <1>1, <2>1 DEF Runs
  <2>4. run' \in [Procs -> Runs \cup {Idle}] /\ \A q \in Procs : q # p => run'[q] = run[q]
    BY <1>2, <2>1, <2>2 DEF Inv, TypeOK
  <2>5. run'[p] # Idle
    BY <2>1, <2>2, <2>3, IdleFacts DEF Labels
  <2> QED
    BY <1>1, <2>1, <2>2, <2>3, <2>4, <2>5
<1>3. CASE run' = [run EXCEPT ![p].at = label, ![p].failed = TRUE]
  <2>1. run'[p] = [run[p] EXCEPT !.at = label, !.failed = TRUE]
    BY <1>3 DEF Inv, TypeOK
  <2>2. [run[p] EXCEPT !.at = label, !.failed = TRUE] \in Runs
    BY <1>1 DEF Runs, Labels
  <2>3. /\ run'[p].at = label /\ run'[p].config = run[p].config /\ run'[p].id = run[p].id
        /\ run'[p].refs = run[p].refs /\ run'[p].ref = run[p].ref
        /\ run'[p].alone = run[p].alone /\ run'[p].blind = run[p].blind /\ run'[p].failed
    BY <1>1, <2>1 DEF Runs
  <2>4. run' \in [Procs -> Runs \cup {Idle}] /\ \A q \in Procs : q # p => run'[q] = run[q]
    BY <1>3, <2>1, <2>2 DEF Inv, TypeOK
  <2>5. run'[p] # Idle
    BY <2>1, <2>2, <2>3, IdleFacts DEF Labels
  <2> QED
    BY <1>1, <2>1, <2>2, <2>3, <2>4, <2>5
<1> QED
  BY <1>2, <1>3

LEMMA RemoveContainersGood ==
  ASSUME Inv, NEW p \in Procs, RemoveContainers(p)
  PROVE  Good(p)
<1>1. PICK label \in Labels :
        /\ \/ run' = [run EXCEPT ![p].at = label]
           \/ run' = [run EXCEPT ![p].at = label, ![p].failed = TRUE]
        /\ \/ label = "state" /\ ctr' = [ctr EXCEPT ![run[p].ref] = None]
           \/ label = "retire" /\ run'[p].failed /\ UNCHANGED ctr
        /\ Spend("fail") \/ UNCHANGED budget
        /\ UNCHANGED <<st, ssh>> /\ run[p].at = "remove"
  <2>1. CASE Done(p, "state") /\ ctr' = [ctr EXCEPT ![run[p].ref] = None]
    BY <2>1 DEF RemoveContainers, Done, Labels
  <2>2. CASE Fails(p, "retire") /\ UNCHANGED ctr
    <3>1. run'[p].failed
      BY <2>2 DEF Fails, Inv, TypeOK, Runs, Idle
    <3> QED
      BY <2>2, <3>1 DEF RemoveContainers, Fails, Labels
  <2> QED
    BY <2>1, <2>2 DEF RemoveContainers
<1>2. run[p] # Idle
  BY <1>1, IdleFacts
<1>3. Active(p) /\ run[p].ref \in Ids /\ run[p].config \in Configs
  BY <1>1, <1>2 DEF Inv, Active, Retiring, Runs
<1>4. /\ run'[p] \in Runs /\ run' \in [Procs -> Runs \cup {Idle}]
      /\ run'[p].config = run[p].config /\ run'[p].id = run[p].id
      /\ run'[p].refs = run[p].refs /\ run'[p].ref = run[p].ref
      /\ run'[p].alone = run[p].alone /\ run'[p].blind = run[p].blind
      /\ ~run'[p].failed => ~run[p].failed
      /\ \A q \in Procs : q # p => run'[q] = run[q]
  BY <1>1, <1>2, Moves
<1>5. run'[p].at \in {"state", "retire"}
      /\ (run'[p].at = "state" => ctr' = [ctr EXCEPT ![run[p].ref] = None])
      /\ (run'[p].at = "retire" => run'[p].failed)
  BY <1>1, <1>2, Moves
<1>6. \A i \in Ids : ctr'[i] \in {ctr[i], None}
  BY <1>1 DEF Inv, TypeOK
<1>7. TypeOK'
  <2>1. ctr' \in [Ids -> Configs \cup {Untracked, Unlabelled, None}]
    BY <1>1 DEF Inv, TypeOK
  <2>2. budget' \in [Events -> Nat]
    BY <1>1, BudgetTyped DEF Events
  <2> QED
    BY <1>1, <1>4, <2>1, <2>2 DEF Inv, TypeOK
<1>8. Owned'
  BY <1>1, <1>6, RenameAssumption DEF Inv, Owned
<1>9. Active(p)'
  BY <1>3, <1>4, <1>5, <1>2 DEF Active, Retiring
<1>10. ASSUME run[p].alone
       PROVE  Knows(p)'
  <2>1. Found(p) /\ Mine(p) /\ Calm(p)
    BY <1>10 DEF Inv, Knows
  <2>2. Found(p)'
    <3> SUFFICES ASSUME NEW i \in Ids \ {run[p].id}, Trace(p, i)', ~run'[p].failed
                 PROVE  i \in run[p].refs \/ i = run[p].ref
      BY <1>4, <1>5 DEF Found
    <3>1. Trace(p, i)
      BY <1>1, <1>3, <1>4, <1>6, RenameAssumption DEF Trace, Unplaced
    <3> QED
      BY <1>1, <1>4, <2>1, <3>1 DEF Found, Retiring
  <2>3. ToRetire(p)' \subseteq ToRetire(p)
    BY <1>1, <1>4, <1>5 DEF ToRetire, Retiring
  <2>4. Mine(p)'
    BY <1>1, <1>4, <2>1, <2>3 DEF Mine, MayRetire
  <2>5. Calm(p)' /\ Listed(p)'
    BY <1>4, <1>5, <2>1 DEF Calm, Listed
  <2>6. Gone(p)'
    BY <1>3, <1>4, <1>5 DEF Gone, Inv, TypeOK
  <2> QED
    BY <2>2, <2>4, <2>5, <2>6 DEF Knows
<1> QED
  BY <1>2, <1>4, <1>7, <1>8, <1>9, <1>10 DEF Good, Knows

LEMMA RemoveStateGood ==
  ASSUME Inv, NEW p \in Procs, RemoveState(p)
  PROVE  Good(p)
<1>1. /\ \/ run' = [run EXCEPT ![p].at = "block"]
         \/ run' = [run EXCEPT ![p].at = "block", ![p].failed = TRUE]
      /\ run'[p].failed \/ st' = [st EXCEPT ![run[p].ref] = None]
      /\ \A i \in Ids : st'[i] \in {st[i], None}
      /\ st' \in States
      /\ Spend("fail") \/ UNCHANGED budget
      /\ UNCHANGED <<ctr, ssh>> /\ run[p].at = "state"
  <2>1. CASE Done(p, "block") /\ st' = [st EXCEPT ![run[p].ref] = None]
    BY <2>1 DEF RemoveState, Done, Inv, TypeOK, States
  <2>2. CASE Fails(p, "block") /\ UNCHANGED st
    <3>1. run'[p].failed
      BY <2>2 DEF Fails, Inv, TypeOK, Runs, Idle
    <3> QED
      BY <2>2, <3>1 DEF RemoveState, Fails, Inv, TypeOK
  <2> QED
    BY <2>1, <2>2 DEF RemoveState
<1>2. run[p] # Idle
  BY <1>1, IdleFacts
<1>3. Active(p) /\ run[p].ref \in Ids /\ run[p].config \in Configs
  BY <1>1, <1>2 DEF Inv, Active, Retiring, Runs
<1>4. /\ run'[p] \in Runs /\ run' \in [Procs -> Runs \cup {Idle}] /\ run'[p].at = "block"
      /\ run'[p].config = run[p].config /\ run'[p].id = run[p].id
      /\ run'[p].refs = run[p].refs /\ run'[p].ref = run[p].ref
      /\ run'[p].alone = run[p].alone /\ run'[p].blind = run[p].blind
      /\ ~run'[p].failed => ~run[p].failed
      /\ \A q \in Procs : q # p => run'[q] = run[q]
  <2>1. "block" \in Labels
    BY DEF Labels
  <2> QED
    BY <1>1, <1>2, <2>1, Moves
<1>5. TypeOK'
  <2>1. budget' \in [Events -> Nat]
    BY <1>1, BudgetTyped DEF Events
  <2> QED
    BY <1>1, <1>4, <2>1 DEF Inv, TypeOK
<1>6. Owned'
  BY <1>1, RenameAssumption DEF Inv, Owned
<1>7. Active(p)'
  BY <1>3, <1>4, <1>2 DEF Active, Retiring
<1>8. ASSUME run[p].alone
      PROVE  Knows(p)'
  <2>1. Found(p) /\ Mine(p) /\ Calm(p) /\ ctr[run[p].ref] = None
    BY <1>1, <1>8 DEF Inv, Knows, Gone
  <2>2. Found(p)'
    <3> SUFFICES ASSUME NEW i \in Ids \ {run[p].id}, Trace(p, i)', ~run'[p].failed
                 PROVE  i \in run[p].refs
      BY <1>4 DEF Found
    <3>1. st' = [st EXCEPT ![run[p].ref] = None] /\ ~run[p].failed
      BY <1>1, <1>4
    <3>2. i # run[p].ref
      <4> SUFFICES ASSUME i = run[p].ref PROVE FALSE
        OBVIOUS
      <4>1. st'[i] = None /\ ctr'[i] = None
        BY <1>1, <2>1, <3>1 DEF Inv, TypeOK, States
      <4> QED
        BY <1>3, <1>4, <4>1, RenameAssumption DEF Trace, Unplaced
    <3>3. Trace(p, i)
      <4>1. st'[i] = st[i] /\ ctr'[i] = ctr[i]
        BY <1>1, <3>1, <3>2 DEF Inv, TypeOK, States
      <4> QED
        BY <1>4, <4>1 DEF Trace, Unplaced
    <3> QED
      BY <1>1, <2>1, <3>1, <3>2, <3>3 DEF Found, Retiring
  <2>3. ToRetire(p)' \subseteq ToRetire(p)
    BY <1>1, <1>4 DEF ToRetire, Retiring
  <2>4. Mine(p)'
    BY <1>1, <1>4, <2>1, <2>3 DEF Mine, MayRetire
  <2>5. Calm(p)' /\ Listed(p)' /\ Gone(p)'
    BY <1>1, <1>4, <2>1 DEF Calm, Listed, Gone
  <2> QED
    BY <2>2, <2>4, <2>5 DEF Knows
<1> QED
  BY <1>2, <1>4, <1>5, <1>6, <1>7, <1>8 DEF Good, Knows

LEMMA RemoveBlockGood ==
  ASSUME Inv, NEW p \in Procs, RemoveBlock(p)
  PROVE  Good(p)
<1>1. /\ \/ run' = [run EXCEPT ![p].at = "retire"]
         \/ run' = [run EXCEPT ![p].at = "retire", ![p].failed = TRUE]
      /\ \A i \in Ids : ssh'[i] \in {ssh[i], None}
      /\ ssh' \in [Ids -> Configs \cup {None}]
      /\ Spend("fail") \/ UNCHANGED budget
      /\ UNCHANGED <<ctr, st>> /\ run[p].at = "block"
  BY DEF RemoveBlock, Done, Fails, Inv, TypeOK
<1>2. run[p] # Idle
  BY <1>1, IdleFacts
<1>3. Active(p)
  BY DEF Inv
<1>4. /\ run'[p] \in Runs /\ run' \in [Procs -> Runs \cup {Idle}] /\ run'[p].at = "retire"
      /\ run'[p].config = run[p].config /\ run'[p].id = run[p].id
      /\ run'[p].refs = run[p].refs /\ run'[p].ref = run[p].ref
      /\ run'[p].alone = run[p].alone /\ run'[p].blind = run[p].blind
      /\ ~run'[p].failed => ~run[p].failed
      /\ \A q \in Procs : q # p => run'[q] = run[q]
  <2>1. "retire" \in Labels
    BY DEF Labels
  <2> QED
    BY <1>1, <1>2, <2>1, Moves
<1>5. TypeOK'
  <2>1. budget' \in [Events -> Nat]
    BY <1>1, BudgetTyped DEF Events
  <2> QED
    BY <1>1, <1>4, <2>1 DEF Inv, TypeOK
<1>6. Owned'
  BY <1>1 DEF Inv, Owned
<1>7. Active(p)'
  BY <1>3, <1>4, <1>2 DEF Active, Retiring
<1>8. ASSUME run[p].alone
      PROVE  Knows(p)'
  <2>1. Found(p) /\ Mine(p) /\ Calm(p)
    BY <1>8 DEF Inv, Knows
  <2>2. Found(p)'
    <3> SUFFICES ASSUME NEW i \in Ids \ {run[p].id}, Trace(p, i)', ~run'[p].failed
                 PROVE  i \in run[p].refs
      BY <1>4 DEF Found
    <3>1. Trace(p, i) /\ ~run[p].failed
      BY <1>1, <1>4 DEF Trace, Unplaced
    <3> QED
      BY <1>1, <2>1, <3>1 DEF Found, Retiring
  <2>3. ToRetire(p)' \subseteq ToRetire(p)
    BY <1>1, <1>4 DEF ToRetire, Retiring
  <2>4. Mine(p)'
    <3> SUFFICES ASSUME NEW i \in ToRetire(p)', ssh'[i] # None
                 PROVE  MayRetire(p, i)'
      BY <1>4 DEF Mine, MayRetire
    <3>1. i \in Ids
      BY <1>4 DEF ToRetire, Retiring, Runs
    <3> QED
      BY <1>1, <1>4, <2>1, <2>3, <3>1 DEF Mine, MayRetire
  <2>5. Calm(p)' /\ Listed(p)' /\ Gone(p)'
    BY <1>4, <2>1 DEF Calm, Listed, Gone
  <2> QED
    BY <2>2, <2>4, <2>5 DEF Knows
<1> QED
  BY <1>2, <1>4, <1>5, <1>6, <1>7, <1>8 DEF Good, Knows

LEMMA RetiredGood ==
  ASSUME Inv, NEW p \in Procs, Retired(p)
  PROVE  Good(p)
<1>1. run[p] \in Runs /\ run[p] # Idle /\ run[p].at = "retire" /\ run[p].refs = {}
  BY IdleFacts DEF Retired, Inv, TypeOK
<1>2. run'[p] = [run[p] EXCEPT !.at = "create", !.ref = None]
  BY DEF Retired, Inv, TypeOK
<1>3. [run[p] EXCEPT !.at = "create", !.ref = None] \in Runs
  BY <1>1 DEF Runs
<1>4. /\ run'[p] \in Runs /\ run' \in [Procs -> Runs \cup {Idle}] /\ run'[p].at = "create"
      /\ \A q \in Procs : q # p => run'[q] = run[q]
  BY <1>1, <1>2, <1>3 DEF Retired, Inv, TypeOK, Runs
<1>5. /\ run'[p].config = run[p].config /\ run'[p].id = run[p].id /\ run'[p].refs = {}
      /\ run'[p].alone = run[p].alone /\ run'[p].blind = run[p].blind /\ run'[p].failed = run[p].failed
  BY <1>1, <1>2 DEF Runs
<1>6. TypeOK' /\ Owned'
  BY <1>4 DEF Retired, host, Inv, TypeOK, Owned
<1>7. Active(p)'
  BY <1>1, <1>4, <1>5 DEF Inv, Active, Retiring
<1>8. ASSUME run[p].alone
      PROVE  Knows(p)'
  <2>1. Found(p) /\ Calm(p)
    BY <1>8 DEF Inv, Knows
  <2>2. Found(p)'
    BY <1>1, <1>4, <1>5, <2>1 DEF Retired, host, Found, Trace, Unplaced, Retiring
  <2>3. Mine(p)'
    BY <1>4, <1>5 DEF Mine, MayRetire, ToRetire, Retiring
  <2>4. Calm(p)' /\ Listed(p)' /\ Gone(p)'
    BY <1>4, <2>1 DEF Calm, Listed, Gone
  <2> QED
    BY <2>2, <2>3, <2>4 DEF Knows
<1> QED
  BY <1>1, <1>4, <1>5, <1>6, <1>7, <1>8 DEF Good, Knows

LEMMA CreateGood ==
  ASSUME Inv, NEW p \in Procs, Create(p)
  PROVE  Good(p)
<1>1. run[p].at = "create" /\ run' = [run EXCEPT ![p].at = "persist"] /\ UNCHANGED <<st, ssh, budget>>
  BY DEF Create, Goto
<1>2. run[p] # Idle
  BY <1>1, IdleFacts
<1>3. /\ run'[p] \in Runs /\ run' \in [Procs -> Runs \cup {Idle}] /\ run'[p].at = "persist"
      /\ run'[p].config = run[p].config /\ run'[p].id = run[p].id
      /\ run'[p].refs = run[p].refs /\ run'[p].alone = run[p].alone /\ run'[p].blind = run[p].blind
      /\ \A q \in Procs : q # p => run'[q] = run[q]
  <2>1. "persist" \in Labels
    BY DEF Labels
  <2> QED
    BY <1>1, <1>2, <2>1, Moves
<1>4. /\ run[p].config \in Configs /\ run[p].id \in Ids /\ run[p].refs = {}
      /\ Owner(run[p].id, run[p].config)
  BY <1>1, <1>2 DEF Inv, Active, Runs
<1>5. /\ ctr' \in [Ids -> Configs \cup {Untracked, Unlabelled, None}]
      /\ \A i \in Ids : \/ ctr'[i] = ctr[i]
                        \/ /\ i = run[p].id /\ ctr'[i] = Unlabelled
                           /\ run[p].config \in Compose
                        \/ i = run[p].id /\ ctr'[i] = run[p].config
  BY <1>4 DEF Create, Inv, TypeOK
<1>6. TypeOK'
  BY <1>1, <1>3, <1>5 DEF Inv, TypeOK
<1>7. Unlabelled # Untracked
  BY DEF Unlabelled, Untracked
<1>8. Owned'
  BY <1>1, <1>4, <1>5, <1>7, RenameAssumption DEF Inv, Owned
<1>9. Active(p)'
  BY <1>3, <1>4 DEF Active, Retiring
<1>10. ASSUME run[p].alone
       PROVE  Knows(p)'
  BY <1>3, <1>4, <1>10 DEF Inv, Knows, Calm, Listed, Found, Mine, MayRetire, Gone, ToRetire, Retiring
<1> QED
  BY <1>2, <1>3, <1>6, <1>8, <1>9, <1>10 DEF Good, Knows

LEMMA PersistGood ==
  ASSUME Inv, NEW p \in Procs, Persist(p)
  PROVE  Good(p)
<1>1. /\ run[p].at = "persist" /\ run' = [run EXCEPT ![p].at = "config"] /\ UNCHANGED <<ctr, ssh>>
      /\ UNCHANGED budget \/ Spend("fail")
  BY DEF Persist, Goto
<1>2. run[p] # Idle
  BY <1>1, IdleFacts
<1>3. /\ run'[p] \in Runs /\ run' \in [Procs -> Runs \cup {Idle}] /\ run'[p].at = "config"
      /\ run'[p].config = run[p].config /\ run'[p].id = run[p].id
      /\ run'[p].refs = run[p].refs /\ run'[p].alone = run[p].alone /\ run'[p].blind = run[p].blind
      /\ \A q \in Procs : q # p => run'[q] = run[q]
  <2>1. "config" \in Labels
    BY DEF Labels
  <2> QED
    BY <1>1, <1>2, <2>1, Moves
<1>4. run[p].config \in Configs /\ run[p].id \in Ids /\ Owner(run[p].id, run[p].config)
  BY <1>2 DEF Inv, TypeOK, Active, Runs
<1>5. /\ st' \in States
      /\ \A i \in Ids : st'[i] = st[i] \/ (i = run[p].id /\ st'[i] = run[p].config)
  BY <1>4 DEF Persist, Inv, TypeOK, States
<1>6. TypeOK'
  <2>1. budget' \in [Events -> Nat]
    BY <1>1, BudgetTyped DEF Events
  <2> QED
    BY <1>1, <1>3, <1>5, <2>1 DEF Inv, TypeOK
<1>7. Owned'
  BY <1>1, <1>4, <1>5, RenameAssumption DEF Inv, Owned
<1>8. Active(p)'
  BY <1>3, <1>4 DEF Active, Retiring
<1>9. ASSUME run[p].alone
      PROVE  Knows(p)'
  <2>1. Mine(p) /\ Calm(p)
    BY <1>9 DEF Inv, Knows
  <2> QED
    BY <1>1, <1>3, <2>1 DEF Knows, Calm, Listed, Found, Mine, MayRetire, Gone, ToRetire, Retiring
<1> QED
  BY <1>2, <1>3, <1>6, <1>7, <1>8, <1>9 DEF Good, Knows

(* A run that ends knows nothing any more.                                  *)
LEMMA EndsGood ==
  ASSUME Inv, NEW p \in Procs, run[p] # Idle, Ends(p), Owned', UNCHANGED <<ctr, st>>,
         ssh' \in [Ids -> Configs \cup {None}], budget' \in [Events -> Nat]
  PROVE  Good(p)
<1>1. run'[p] = Idle /\ \A q \in Procs : q # p => run'[q] = run[q]
  BY DEF Ends, Inv, TypeOK
<1>2. TypeOK'
  BY DEF Ends, Inv, TypeOK
<1> QED
  BY <1>1, <1>2, IdleFacts DEF Good, Active, Knows

LEMMA WriteSSHConfigGood ==
  ASSUME Inv, NEW p \in Procs, WriteSSHConfig(p)
  PROVE  Good(p)
<1>1. run[p] # Idle
  BY IdleFacts DEF WriteSSHConfig
<1>2. run[p].config \in Configs /\ run[p].id \in Ids /\ Owner(run[p].id, run[p].config)
  BY <1>1 DEF Inv, TypeOK, Active, Runs
<1>3. /\ ssh' \in [Ids -> Configs \cup {None}]
      /\ \A i \in Ids : ssh'[i] = ssh[i] \/ (i = run[p].id /\ ssh'[i] = run[p].config)
  BY <1>2 DEF WriteSSHConfig, Inv, TypeOK
<1>4. Owned'
  BY <1>2, <1>3 DEF WriteSSHConfig, Inv, Owned
<1> QED
  BY <1>1, <1>3, <1>4, EndsGood DEF WriteSSHConfig, Inv, TypeOK

LEMMA AbortGood ==
  ASSUME Inv, NEW p \in Procs, Abort(p)
  PROVE  Good(p)
<1>1. run[p] # Idle /\ Ends(p) /\ UNCHANGED <<ctr, st, ssh, budget>>
  BY IdleFacts DEF Abort, host
<1>2. Owned'
  BY <1>1 DEF Inv, Owned
<1> QED
  BY <1>1, <1>2, EndsGood DEF Inv, TypeOK

LEMMA CrashGood ==
  ASSUME Inv, NEW p \in Procs, Crash(p)
  PROVE  Good(p)
<1>1. run[p] # Idle /\ Ends(p) /\ UNCHANGED <<ctr, st, ssh>> /\ Spend("crash")
  BY DEF Crash, host
<1>2. Owned' /\ budget' \in [Events -> Nat]
  BY <1>1, BudgetTyped DEF Inv, Owned, Events
<1> QED
  BY <1>1, <1>2, EndsGood DEF Inv, TypeOK

LEMMA SetupKeepsInv ==
  ASSUME Inv, NEW p \in Procs, NEW c \in Configs, NEW n \in NamesOf[c], Setup(p, c, n)
  PROVE  Inv'
<1> DEFINE calm == \A q \in Procs : run[q] = Idle
           new == [Idle EXCEPT !.at = "states", !.config = c, !.id = IdOf(c, n), !.alone = calm]
<1>1. /\ run[p] = Idle /\ UNCHANGED <<ctr, st, ssh>>
      /\ UNCHANGED budget \/ Spend("overlap")
      /\ run' = [q \in Procs |-> IF q = p THEN new ELSE [run[q] EXCEPT !.alone = FALSE]]
  BY DEF Setup, host
<1>2. /\ new.at = "states" /\ new.config = c /\ new.id = IdOf(c, n) /\ new.refs = {}
      /\ new.alone = calm /\ new.listed = Unread
  BY DEF Idle
<1>3. new \in Runs
  <2>1. calm \in BOOLEAN /\ Unread \in States /\ IdOf(c, n) \in Ids
    BY IdFacts DEF Unread, States
  <2> HIDE DEF calm
  <2> QED
    BY <2>1 DEF Runs, Idle
<1> HIDE DEF new
<1>4. ASSUME NEW q \in Procs, q # p
      PROVE  /\ run'[q] \in Runs \cup {Idle} /\ Active(q)' /\ Knows(q)'
             /\ run[q] = Idle => run'[q] = Idle
  <2>1. run'[q] = [run[q] EXCEPT !.alone = FALSE]
    BY <1>1, <1>4
  <2>2. CASE run[q] = Idle
    <3>1. run'[q] = Idle
      <4> DEFINE Like == [at : {"idle"}, config : {None}, id : {None}, listed : {Unread},
                          refs : {{}}, ref : {None}, failed : {FALSE}, blind : {FALSE},
                          alone : {FALSE}]
      <4>1. Idle \in Like
        BY DEF Idle
      <4>2. \A r \in Like : [r EXCEPT !.alone = FALSE] = r
        OBVIOUS
      <4> QED
        BY <2>1, <2>2, <4>1, <4>2
    <3> QED
      BY <3>1, IdleFacts DEF Active, Knows
  <2>3. CASE run[q] # Idle
    <3>1. run[q] \in Runs /\ Active(q)
      BY <2>3 DEF Inv, TypeOK
    <3>2. run'[q] \in Runs /\ ~run'[q].alone
      BY <2>1, <3>1 DEF Runs
    <3>3. /\ run'[q].at = run[q].at /\ run'[q].config = run[q].config /\ run'[q].id = run[q].id
          /\ run'[q].ref = run[q].ref /\ run'[q].refs = run[q].refs
          /\ run'[q].listed = run[q].listed
      BY <2>1, <3>1 DEF Runs
    <3> QED
      BY <2>3, <3>1, <3>2, <3>3 DEF Active, Knows
  <2> QED
    BY <2>2, <2>3
<1>5. run'[p] = new
  BY <1>1
<1>6. TypeOK' /\ Owned'
  <2>1. budget' \in [Events -> Nat]
    BY <1>1, BudgetTyped DEF Events
  <2>2. run' \in [Procs -> Runs \cup {Idle}]
    BY <1>1, <1>3, <1>4, <1>5
  <2> QED
    BY <1>1, <2>1, <2>2 DEF Inv, TypeOK, Owned
<1>7. Active(p)'
  BY <1>2, <1>3, <1>5, IdFacts DEF Active, Retiring
<1>8. Knows(p)'
  <2>1. ASSUME calm
        PROVE  Calm(p)'
    BY <1>4, <2>1 DEF Calm
  <2> QED
    BY <1>2, <1>5, <2>1 DEF Knows, Listed, Found, Mine, MayRetire, Gone, ToRetire, Retiring
<1> QED
  BY <1>4, <1>6, <1>7, <1>8 DEF Inv

LEMMA RemoveByHandKeepsInv ==
  ASSUME Inv, NEW i \in Ids, RemoveByHand(i)
  PROVE  Inv'
<1>1. /\ UNCHANGED <<st, ssh, run>> /\ Spend("remove")
      /\ ctr' \in [Ids -> Configs \cup {Untracked, Unlabelled, None}]
      /\ \A j \in Ids : ctr'[j] \in {ctr[j], None}
  BY DEF RemoveByHand, Inv, TypeOK
<1>2. TypeOK'
  <2>1. budget' \in [Events -> Nat]
    BY <1>1, BudgetTyped DEF Events
  <2> QED
    BY <1>1, <2>1 DEF Inv, TypeOK
<1>3. Owned'
  BY <1>1, RenameAssumption DEF Inv, Owned
<1>4. ASSUME NEW p \in Procs
      PROVE  Active(p)' /\ Knows(p)'
  <2>1. Active(p)'
    BY <1>1 DEF Inv, Active
  <2>2. ASSUME run[p].alone
        PROVE  Knows(p)'
    <3>1. run[p] # Idle
      BY <2>2, IdleFacts
    <3>2. Active(p) /\ Found(p) /\ Mine(p) /\ Calm(p) /\ Listed(p) /\ Gone(p)
      BY <2>2 DEF Inv, Knows
    <3>3. Found(p)'
      <4> SUFFICES ASSUME NEW j \in Ids, Trace(p, j)' PROVE Trace(p, j)
        BY <1>1, <3>2 DEF Found
      <4>1. run[p].config \in Configs
        BY <3>1, <3>2 DEF Active, Runs
      <4> QED
        BY <1>1, <4>1, RenameAssumption DEF Trace, Unplaced
    <3>4. Gone(p)'
      BY <1>1, <3>1, <3>2 DEF Gone, Active, Retiring
    <3>5. Mine(p)' /\ Calm(p)' /\ Listed(p)'
      BY <1>1, <3>2 DEF Mine, MayRetire, ToRetire, Calm, Listed
    <3> QED
      BY <3>3, <3>4, <3>5 DEF Knows
  <2> QED
    BY <1>1, <2>1, <2>2 DEF Knows
<1> QED
  BY <1>2, <1>3, <1>4 DEF Inv

LEMMA InvStep ==
  ASSUME DistinctNames, LegacyAlone, Inv, [Next]_vars
  PROVE  Inv'
<1>1. ASSUME NEW p \in Procs, Step(p) \/ Crash(p)
      PROVE  Inv'
  BY <1>1, GoodKeepsInv, ListStatesGood, ListContainersGood, NextRefGood, RemoveContainersGood,
     RemoveStateGood, RemoveBlockGood, RetiredGood, CreateGood, PersistGood, WriteSSHConfigGood,
     AbortGood, CrashGood DEF Step
<1>2. CASE UNCHANGED vars
  BY <1>2 DEF vars, host, Inv, TypeOK, Owned, Active, Knows, Calm, Listed, Found, Trace, Unplaced, Mine, MayRetire,
              ToRetire, Gone
<1> QED
  BY <1>1, <1>2, SetupKeepsInv, RemoveByHandKeepsInv DEF Next

(* A step that takes an ssh block away is the last one of its retirement.   *)
LEMMA BlockGoesLast ==
  ASSUME Inv, [Next]_vars, NEW i \in Ids, ssh[i] # None, ssh'[i] = None
  PROVE  \E p \in Procs : RemoveBlock(p) /\ run[p].ref = i
<1>1. ASSUME NEW p \in Procs, WriteSSHConfig(p)
      PROVE  FALSE
  <2>1. run[p].config \in Configs
    BY <1>1, IdleFacts DEF WriteSSHConfig, Inv, TypeOK, Runs
  <2> QED
    BY <1>1, <2>1, RenameAssumption DEF WriteSSHConfig, Inv, TypeOK
<1>2. ASSUME NEW p \in Procs, RemoveBlock(p)
      PROVE  run[p].ref = i
  BY <1>2 DEF RemoveBlock, Inv, TypeOK
<1> QED
  BY <1>1, <1>2 DEF Next, Step, vars, host, Setup, ListStates, ListContainers, NextRef,
     RemoveContainers, RemoveState, Retired, Create, Persist, Abort, Crash, RemoveByHand

----------------------------------------------------------------------------
THEOREM RenameInv == ASSUME DistinctNames, LegacyAlone PROVE Spec => []Inv
<1>1. Init => Inv
  BY InitInv
<1>2. Inv /\ [Next]_vars => Inv'
  BY InvStep
<1> QED
  BY <1>1, <1>2, PTL DEF Spec

(* No state and no container of the config is left under an earlier name    *)
(* when an `up` that ran alone starts to bring it up, but a compose         *)
(* container that no state file places: cmd/devc/rename.go, retireRenamed,  *)
(* whatever the runs before have left.                                      *)
THEOREM RenameRetires ==
  ASSUME DistinctNames, LegacyAlone
  PROVE  Spec => []EarlierNamesRetired
<1>1. Inv => EarlierNamesRetired
  <2> SUFFICES ASSUME Inv, NEW p \in Procs, run[p].at = "create", ~run[p].failed, run[p].alone,
                      NEW i \in Ids \ {run[p].id}
               PROVE  ~Trace(p, i)
    BY DEF EarlierNamesRetired, Trace, Unplaced
  <2>1. run[p].refs = {} /\ Found(p)
    BY IdleFacts DEF Inv, Active, Knows
  <2> QED
    BY <2>1 DEF Found, Retiring
<1> QED
  BY <1>1, RenameInv, PTL

(* The keys and the ssh block of an earlier name go last: rename.go keeps   *)
(* them while the container could not be removed.                           *)
THEOREM RenameStaysReachable ==
  ASSUME DistinctNames, LegacyAlone
  PROVE  Spec => StaysReachable
<1>1. Inv /\ [Next]_vars =>
        [\A p \in Procs, i \in Ids :
           run[p].alone /\ ssh[i] # None /\ ssh'[i] = None => ctr[i] = None]_vars
  <2> SUFFICES ASSUME Inv, [Next]_vars, NEW p \in Procs, NEW i \in Ids,
                      run[p].alone, ssh[i] # None, ssh'[i] = None
               PROVE  ctr[i] = None
    OBVIOUS
  <2>1. PICK q \in Procs : RemoveBlock(q) /\ run[q].ref = i
    BY BlockGoesLast
  <2>2. q = p
    BY <2>1, IdleFacts DEF Inv, Knows, Calm, RemoveBlock
  <2> QED
    BY <2>1, <2>2 DEF Inv, Knows, Gone, RemoveBlock
<1> QED
  BY <1>1, RenameInv, PTL DEF Spec, StaysReachable

(* A workspace that another config brought up is never retired by an `up`   *)
(* that runs alone and could list the state directories: renamedFrom, where *)
(* configs share a folder but no name.                                      *)
THEOREM RenameKeepsOthers ==
  ASSUME DistinctNames, LegacyAlone
  PROVE  Spec => OthersKept
<1>1. Inv /\ [Next]_vars =>
        [\A p \in Procs, i \in Ids :
           run[p].alone /\ ssh[i] # None /\ ssh'[i] = None =>
             ssh[i] = run[p].config \/ (run[p].blind /\ ssh[i] \in Compose)]_vars
  <2> SUFFICES ASSUME Inv, [Next]_vars, NEW p \in Procs, NEW i \in Ids,
                      run[p].alone, ssh[i] # None, ssh'[i] = None
               PROVE  ssh[i] = run[p].config \/ (run[p].blind /\ ssh[i] \in Compose)
    OBVIOUS
  <2>1. PICK q \in Procs : RemoveBlock(q) /\ run[q].ref = i
    BY BlockGoesLast
  <2>2. q = p
    BY <2>1, IdleFacts DEF Inv, Knows, Calm, RemoveBlock
  <2> QED
    BY <2>1, <2>2 DEF Inv, Knows, Mine, MayRetire, ToRetire, Retiring, RemoveBlock
<1> QED
  BY <1>1, RenameInv, PTL DEF Spec, OthersKept
=============================================================================
