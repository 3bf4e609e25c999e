-------------------------- MODULE WorkspaceProofs --------------------------
(***************************************************************************)
(* What holds of a workspace of either kind for every number of processes, *)
(* create hooks, configurations, crashes, failures and container exits.    *)
(* First Lifecycle, the single container: the types, and then the truth of *)
(* the markers and of the cached probe.  Then Workspace: what a compose    *)
(* project shares with a single container is a step of Lifecycle; the rest *)
(* is shown to preserve the invariant.  Then the commands for other        *)
(* services; what one `up` after the other leaves behind, and how often    *)
(* they repeat a create hook; the bring-ups that run side by side, one of  *)
(* which wins; and that an `up` after the last fault does not fail.        *)
(***************************************************************************)
EXTENDS Workspace, FiniteSetTheorems, TLAPS

SharedOK ==
  /\ conf \in Configs
  /\ ctr \in {NoCtr} \cup Containers
  /\ ctr # NoCtr => ctr.id < nextId /\ ctr.secrets < nextKey
  /\ nextId \in Nat \ {Unset, ByName}
  /\ dir \in BOOLEAN
  /\ st \in States
  /\ keys \in Nat /\ nextKey \in Nat /\ keys < nextKey
  /\ ssh \in BOOLEAN

PrivateOK ==
  /\ pc \in [Procs -> Pcs]
  /\ cmd \in [Procs -> [kind : Kinds, flags : SUBSET Flags]]
  /\ my \in [Procs -> Configs]
  /\ cid \in [Procs -> Nat]
  /\ copy \in [Procs -> States]
  /\ env \in [Procs -> Probes]

BudgetOK == budget \in [Events -> Nat]

LEMMA TypeParts ==
  /\ TypeOK <=> SharedOK /\ PrivateOK /\ BudgetOK
  /\ TypeOK' <=> SharedOK' /\ PrivateOK' /\ BudgetOK'
BY DEF TypeOK, SharedOK, PrivateOK, BudgetOK

LEMMA ZeroStateType == ZeroState \in States
BY DEF ZeroState, States, Probes, Unset

LEMMA InitType == Init => TypeOK
<1> SUFFICES ASSUME Init PROVE TypeOK
  OBVIOUS
<1>1. NoCommand \in [kind : Kinds, flags : SUBSET Flags]
  BY DEF NoCommand, Kinds, Flags
<1>2. "idle" \in Pcs /\ Unset \in Nat /\ NoProbe \in Probes
  BY DEF Pcs, Unset, Probes
<1>3. SharedOK
  <2>1. conf \in Configs /\ ctr = NoCtr /\ dir \in BOOLEAN /\ st \in States /\ ssh \in BOOLEAN
    BY ZeroStateType DEF Init
  <2>2. nextId \in Nat \ {Unset, ByName}
    BY DEF Init, FirstId, Unset, ByName
  <2>3. keys \in Nat /\ nextKey \in Nat /\ keys < nextKey
    BY DEF Init
  <2> QED
    BY <2>1, <2>2, <2>3 DEF SharedOK
<1>4. PrivateOK
  BY <1>1, <1>2, ZeroStateType DEF Init, PrivateOK
<1>5. BudgetOK
  BY LifecycleAssumption DEF Init, BudgetOK
<1> QED
  BY <1>3, <1>4, <1>5, TypeParts

LEMMA SpendType ==
  ASSUME BudgetOK, NEW e \in Events, Spend(e)
  PROVE  BudgetOK'
BY DEF BudgetOK, Spend

LEMMA QuitType ==
  ASSUME PrivateOK, NEW p \in Procs, Quit(p)
  PROVE  PrivateOK'
<1>1. NoCommand \in [kind : Kinds, flags : SUBSET Flags]
  BY DEF NoCommand, Kinds, Flags
<1>2. "idle" \in Pcs /\ Unset \in Nat /\ NoProbe \in Probes
  BY DEF Pcs, Unset, Probes
<1> QED
  BY <1>1, <1>2, ZeroStateType DEF PrivateOK, Quit, Goto

(* A step that only moves p on.                                             *)
LEMMA GotoType ==
  ASSUME PrivateOK, NEW p \in Procs, NEW label \in Pcs, Goto(p, label),
         UNCHANGED memory
  PROVE  PrivateOK'
BY DEF PrivateOK, Goto, memory

LEMMA FailType ==
  ASSUME TypeOK, NEW p \in Procs, Fail(p)
  PROVE  TypeOK'
<1>1. SharedOK' /\ BudgetOK'
  BY TypeParts DEF Fail, SharedOK, BudgetOK, shared, host
<1>2. PrivateOK'
  BY TypeParts, QuitType DEF Fail
<1> QED
  BY <1>1, <1>2, TypeParts

(* The shapes of the steps: p only moves on, or changes the container, or a  *)
(* file, as well.                                                           *)
LEMMA MoveType ==
  ASSUME TypeOK, NEW p \in Procs, NEW label \in Pcs, Goto(p, label),
         UNCHANGED <<shared, memory, budget>>
  PROVE  TypeOK'
<1>1. SharedOK' /\ BudgetOK'
  BY TypeParts DEF SharedOK, BudgetOK, shared, host
<1> QED
  BY <1>1, TypeParts, GotoType

LEMMA ContainerType ==
  ASSUME TypeOK, NEW p \in Procs, NEW label \in Pcs, Goto(p, label),
         UNCHANGED <<conf, nextId, host, memory, budget>>,
         \/ ctr' = NoCtr
         \/ ctr' \in Containers /\ ctr'.id < nextId /\ ctr'.secrets < nextKey
  PROVE  TypeOK'
<1>1. SharedOK' /\ BudgetOK'
  BY TypeParts DEF SharedOK, BudgetOK, host
<1> QED
  BY <1>1, TypeParts, GotoType

(* The steps of the bring-up.                                               *)
LEMMA UpStepType ==
  ASSUME TypeOK, NEW p \in Procs, UpStep(p)
  PROVE  TypeOK'
<1> SUFFICES ASSUME ~Fail(p) PROVE TypeOK'
  BY FailType
<1>1. CASE Find(p)
  BY <1>1, MoveType DEF Find, Decide, Pcs
<1>2. CASE StartContainer(p)
  <2>1. ctr' \in Containers /\ ctr'.id < nextId /\ ctr'.secrets < nextKey
    BY <1>2, TypeParts DEF StartContainer, SharedOK, Containers, Present
  <2> QED
    BY <1>2, <2>1, ContainerType DEF StartContainer, Pcs
<1>3. CASE RemoveContainer(p)
  BY <1>3, ContainerType DEF RemoveContainer, Pcs
<1>4. CASE CreateContainer(p)
  <2>1. PrivateOK'
    BY <1>4, TypeParts, GotoType DEF CreateContainer, Pcs
  <2>2. FreshContainer(p) \in Containers
    <3>1. nextId \in Nat \ {Unset, ByName} /\ NoVersion \in Versions \cup {NoVersion}
      BY TypeParts DEF SharedOK
    <3>2. [h \in HookNames |-> 0] \in [HookNames -> 0..MaxRuns] /\ NoProbe \in Probes
      BY LifecycleAssumption DEF Probes
    <3> QED
      BY <3>1, <3>2 DEF FreshContainer, Containers
  <2>3. FreshContainer(p).id = nextId /\ FreshContainer(p).secrets = 0
    BY DEF FreshContainer
  <2>4. nextId' \in Nat \ {Unset, ByName} /\ nextId < nextId' /\ 0 < nextKey
    BY <1>4, TypeParts DEF CreateContainer, SharedOK, Unset, ByName
  <2>5. SharedOK' /\ BudgetOK'
    BY <1>4, <2>2, <2>3, <2>4, TypeParts DEF CreateContainer, SharedOK, BudgetOK, host
  <2> QED
    BY <2>1, <2>5, TypeParts
<1>5. CASE PersistLoad(p)
  <2>1. SharedOK' /\ BudgetOK'
    BY <1>5, TypeParts DEF PersistLoad, SharedOK, BudgetOK
  <2>2. PrivateOK'
    BY <1>5, TypeParts DEF PersistLoad, SharedOK, PrivateOK, Goto, Pcs
  <2> QED
    BY <2>1, <2>2, TypeParts
<1>6. CASE PersistSave(p)
  <2>1. st' \in States
    BY <1>6, TypeParts DEF PersistSave, Save, SharedOK, PrivateOK
  <2>2. SharedOK' /\ PrivateOK'
    BY <1>6, <2>1, TypeParts, GotoType DEF PersistSave, SharedOK, Pcs
  <2>3. BudgetOK'
    BY <1>6, TypeParts, SpendType DEF PersistSave, BudgetOK, Events
  <2> QED
    BY <2>2, <2>3, TypeParts
<1>7. CASE Resolve(p)
  <2>1. SharedOK'
    BY <1>7, TypeParts DEF Resolve, SharedOK, shared, host
  <2>2. ByName \in Nat /\ (Present => ctr.id \in Nat)
    BY TypeParts DEF SharedOK, ByName, Containers, Present
  <2>3. cid' \in [Procs -> Nat]
    BY <1>7, <2>2, TypeParts DEF Resolve, PrivateOK
  <2>4. PrivateOK'
    BY <1>7, <2>3, TypeParts DEF Resolve, PrivateOK, Goto, Pcs
  <2>5. BudgetOK'
    BY <1>7, TypeParts, SpendType DEF Resolve, BudgetOK, Events
  <2> QED
    BY <2>1, <2>4, <2>5, TypeParts
<1> QED
  BY <1>1, <1>2, <1>3, <1>4, <1>5, <1>6, <1>7 DEF UpStep

----------------------------------------------------------------------------
(* The steps of the hooks and of the probe.  A hook is marked only after it *)
(* was found unmarked, and it is the first such.                            *)
Pending == \A p \in Procs : pc[p] = "mark" => Unmarked(p) # {}

NatLess == OpToRel(<, Nat)

LEMMA FirstIsMember ==
  ASSUME NEW S \in SUBSET Nat, S # {}
  PROVE  First(S) \in S
<1>1. IsWellFoundedOn(NatLess, Nat)
  BY NatLessThanWellFounded DEF NatLess
<1>2. PICK i \in S : \A j \in S : ~ (<<j, i>> \in NatLess)
  BY <1>1, WFMin
<1>3. \A j \in S : i <= j
  <2>1. \A j \in Nat : j < i => <<j, i>> \in NatLess
    BY DEF NatLess, OpToRel
  <2>2. \A j \in S : ~ (j < i)
    BY <1>2, <2>1
  <2>3. i \in Nat /\ \A j \in S : j \in Nat
    OBVIOUS
  <2> QED
    BY <2>2, <2>3
<1> QED
  BY <1>2, <1>3 DEF First

LEMMA NextHookIsUnmarked ==
  ASSUME NEW p \in Procs, Unmarked(p) # {}
  PROVE  /\ NextHook(p) \in my[p].hooks \ copy[p].hooks
         /\ NextHook(p) \in HookNames
<1>1. DOMAIN CreateHooks \subseteq Nat
  BY LifecycleAssumption
<1>2. First(Unmarked(p)) \in Unmarked(p)
  BY <1>1, FirstIsMember DEF Unmarked
<1> QED
  BY <1>2 DEF NextHook, Unmarked, HookNames

LEMMA HookStepType ==
  ASSUME TypeOK, Pending, NEW p \in Procs, HookStep(p)
  PROVE  TypeOK'
<1> SUFFICES ASSUME ~Fail(p) PROVE TypeOK'
  BY FailType
<1>1. CASE LoadHooks(p)
  <2>1. HooksLoaded(p) \in States
    BY TypeParts DEF HooksLoaded, SharedOK, PrivateOK, States, Probes
  <2>2. SharedOK' /\ BudgetOK'
    BY <1>1, TypeParts DEF LoadHooks, SharedOK, BudgetOK
  <2>3. PrivateOK'
    BY <1>1, <2>1, TypeParts DEF LoadHooks, PrivateOK, Goto, Pcs
  <2> QED
    BY <2>2, <2>3, TypeParts
<1>2. CASE RunHook(p)
  <2>1. CASE Unmarked(p) = {}
    BY <1>2, <2>1, MoveType DEF RunHook, Pcs
  <2>2. CASE Unmarked(p) # {}
    <3>1. ctr \in Containers /\ ctr.id < nextId /\ ctr.secrets < nextKey
      BY <1>2, <2>2, TypeParts DEF RunHook, Running, Present, SharedOK
    <3> DEFINE more == IF ctr.ran[NextHook(p)] < MaxRuns
                       THEN ctr.ran[NextHook(p)] + 1 ELSE ctr.ran[NextHook(p)]
    <3>2. ctr.ran \in [HookNames -> 0..MaxRuns]
      BY <3>1 DEF Containers
    <3>3. ctr.ran[NextHook(p)] \in 0..MaxRuns
      BY <2>2, <3>2, NextHookIsUnmarked
    <3>4. more \in 0..MaxRuns
      BY <3>3, LifecycleAssumption
    <3>5. [ctr.ran EXCEPT ![NextHook(p)] = more] \in [HookNames -> 0..MaxRuns]
      BY <3>2, <3>4
    <3>6. ctr' = [ctr EXCEPT !.ran = [ctr.ran EXCEPT ![NextHook(p)] = more]]
      BY <1>2, <2>2 DEF RunHook
    <3>7. ctr' \in Containers /\ ctr'.id = ctr.id /\ ctr'.secrets = ctr.secrets
      BY <3>1, <3>5, <3>6 DEF Containers
    <3> QED
      BY <1>2, <2>2, <3>1, <3>7, ContainerType DEF RunHook, Pcs
  <2> QED
    BY <2>1, <2>2
<1>3. CASE MarkHook(p)
  <2>1. Marked(p) \in States
    <3>1. Unmarked(p) # {}
      BY <1>3 DEF MarkHook, Pending
    <3>2. copy[p] \in States /\ NextHook(p) \in HookNames
      BY <3>1, TypeParts, NextHookIsUnmarked DEF PrivateOK
    <3> QED
      BY <3>2 DEF Marked, States
  <2>2. SharedOK'
    BY <1>3, <2>1, TypeParts DEF MarkHook, Save, SharedOK
  <2>3. PrivateOK'
    BY <1>3, <2>1, TypeParts DEF MarkHook, PrivateOK, Goto, Pcs
  <2>4. BudgetOK'
    BY <1>3, TypeParts, SpendType DEF MarkHook, BudgetOK, Events
  <2> QED
    BY <2>2, <2>3, <2>4, TypeParts
<1>4. CASE PostStart(p)
  <2>1. ctr' \in Containers /\ ctr'.id < nextId /\ ctr'.secrets < nextKey
    BY <1>4, TypeParts DEF PostStart, SharedOK, Containers, Running, Present
  <2> QED
    BY <1>4, <2>1, ContainerType DEF PostStart, Pcs
<1>5. CASE SaveHooks(p)
  <2>1. PrivateOK'
    BY <1>5, TypeParts, GotoType DEF SaveHooks, Pcs
  <2>2. st' \in States
    BY <1>5, TypeParts DEF SaveHooks, PrivateOK
  <2>3. SharedOK' /\ BudgetOK'
    BY <1>5, <2>2, TypeParts DEF SaveHooks, SharedOK, BudgetOK
  <2> QED
    BY <2>1, <2>3, TypeParts
<1>6. CASE LoadProbe(p)
  <2>1. SharedOK'
    BY <1>6, TypeParts DEF LoadProbe, SharedOK
  <2>2. BudgetOK'
    BY <1>6, TypeParts, SpendType DEF LoadProbe, BudgetOK, Events
  <2>3. st \in States /\ st.probe \in Probes /\ NoProbe \in Probes
    BY TypeParts DEF SharedOK, States, Probes
  <2>4. PrivateOK'
    <3>1. /\ copy' \in [Procs -> States] /\ env' \in [Procs -> Probes]
          /\ UNCHANGED <<cmd, my, cid>>
      BY <1>6, <2>3, TypeParts DEF LoadProbe, PrivateOK
    <3>2. pc' \in [Procs -> Pcs]
      BY <1>6, TypeParts DEF LoadProbe, PrivateOK, Goto, Pcs
    <3> QED
      BY <3>1, <3>2, TypeParts DEF PrivateOK
  <2> QED
    BY <2>1, <2>2, <2>4, TypeParts
<1>7. CASE RunProbe(p)
  <2>1. SharedOK'
    BY <1>7, TypeParts DEF RunProbe, SharedOK, shared, host
  <2>2. copy[p] \in States /\ cid[p] \in Nat /\ my[p].version \in Versions
    BY TypeParts DEF PrivateOK, Versions
  <2>3. PICK seen \in Probes :
          /\ env' = [env EXCEPT ![p] = seen]
          /\ copy' = [copy EXCEPT ![p] = [@ EXCEPT !.probe = seen,
                                                  !.version = my[p].version,
                                                  !.cid = cid[p]]]
    BY <1>7 DEF RunProbe
  <2>4. [copy[p] EXCEPT !.probe = seen, !.version = my[p].version, !.cid = cid[p]]
          \in States
    BY <2>2 DEF States
  <2>5. env' \in [Procs -> Probes] /\ copy' \in [Procs -> States]
    BY <2>3, <2>4, TypeParts DEF PrivateOK
  <2>6. PrivateOK'
    BY <1>7, <2>5, TypeParts DEF RunProbe, PrivateOK, Goto, Pcs
  <2>7. BudgetOK'
    BY <1>7, TypeParts, SpendType DEF RunProbe, BudgetOK, Events
  <2> QED
    BY <2>1, <2>6, <2>7, TypeParts
<1>8. CASE SaveProbe(p)
  <2>1. st' \in States
    BY <1>8, TypeParts DEF SaveProbe, Save, SharedOK, PrivateOK
  <2>2. SharedOK' /\ PrivateOK'
    BY <1>8, <2>1, TypeParts, GotoType DEF SaveProbe, SharedOK, Pcs
  <2>3. BudgetOK'
    BY <1>8, TypeParts, SpendType DEF SaveProbe, BudgetOK, Events
  <2> QED
    BY <2>2, <2>3, TypeParts
<1> QED
  BY <1>1, <1>2, <1>3, <1>4, <1>5, <1>6, <1>7, <1>8 DEF HookStep

----------------------------------------------------------------------------
(* The steps of provision, of the other commands, and what is no step of a  *)
(* command.                                                                 *)
LEMMA ProvisionStepType ==
  ASSUME TypeOK, NEW p \in Procs, ProvisionStep(p)
  PROVE  TypeOK'
<1> SUFFICES ASSUME ~Fail(p) PROVE TypeOK'
  BY FailType
<1>1. CASE EnsureKeys(p)
  <2>1. PrivateOK'
    BY <1>1, TypeParts, GotoType DEF EnsureKeys, Pcs
  <2>2. nextKey' \in Nat /\ nextKey <= nextKey' /\ keys' \in Nat /\ keys' < nextKey'
    BY <1>1, TypeParts DEF EnsureKeys, SharedOK
  <2>3. ctr # NoCtr => ctr.secrets \in Nat
    BY TypeParts DEF SharedOK, Containers
  <2>4. ctr' # NoCtr => ctr'.id < nextId' /\ ctr'.secrets < nextKey'
    BY <1>1, <2>2, <2>3, TypeParts DEF EnsureKeys, SharedOK
  <2>5. SharedOK' /\ BudgetOK'
    BY <1>1, <2>2, <2>4, TypeParts DEF EnsureKeys, SharedOK, BudgetOK
  <2> QED
    BY <2>1, <2>5, TypeParts
<1>2. CASE PrepareAgent(p)
  BY <1>2, MoveType DEF PrepareAgent, Pcs
<1>3. CASE CopyAgent(p)
  <2>1. ctr \in Containers /\ ctr.id < nextId /\ ctr.secrets < nextKey
    BY <1>3, TypeParts DEF CopyAgent, SharedOK, Present
  <2>2. my[p].version \in Versions
    BY TypeParts DEF PrivateOK, Versions
  <2>3. ctr' \in Containers /\ ctr'.id = ctr.id /\ ctr'.secrets = ctr.secrets
    BY <1>3, <2>1, <2>2 DEF CopyAgent, Containers
  <2> QED
    BY <1>3, <2>1, <2>3, ContainerType DEF CopyAgent, Pcs
<1>4. CASE WriteSecrets(p)
  <2>1. ctr \in Containers /\ ctr.id < nextId /\ keys \in Nat /\ keys < nextKey
    BY <1>4, TypeParts DEF WriteSecrets, SharedOK, Running, Present
  <2>2. env[p] \in Probes
    BY TypeParts DEF PrivateOK
  <2>3. ctr' \in Containers /\ ctr'.id = ctr.id /\ ctr'.secrets = keys
    BY <1>4, <2>1, <2>2 DEF WriteSecrets, Containers
  <2> QED
    BY <1>4, <2>1, <2>3, ContainerType DEF WriteSecrets, Pcs
<1>5. CASE WriteSSHConfig(p)
  <2>1. PrivateOK'
    BY <1>5, TypeParts, GotoType DEF WriteSSHConfig, Pcs
  <2> QED
    BY <1>5, <2>1, TypeParts DEF WriteSSHConfig, SharedOK, BudgetOK
<1> QED
  BY <1>1, <1>2, <1>3, <1>4, <1>5 DEF ProvisionStep

LEMMA OtherStepType ==
  ASSUME TypeOK, NEW p \in Procs, OtherStep(p)
  PROVE  TypeOK'
<1> SUFFICES ASSUME ~Fail(p) PROVE TypeOK'
  BY FailType
<1>1. CASE Attach(p) \/ Reattach(p) \/ Serve(p)
  BY <1>1, MoveType DEF Attach, Reattach, Serve, Pcs
<1>2. CASE StopFind(p) \/ RestartFind(p) \/ DownFind(p)
  BY <1>2, MoveType DEF StopFind, RestartFind, DownFind, Removed, Pcs
<1>3. CASE Stop(p) \/ Restart(p)
  <2>1. ctr' \in Containers /\ ctr'.id < nextId /\ ctr'.secrets < nextKey
    BY <1>3, TypeParts DEF Stop, Restart, SharedOK, Containers, Present
  <2> QED
    BY <1>3, <2>1, ContainerType DEF Stop, Restart, Pcs
<1>4. CASE DownRemove(p)
  BY <1>4, ContainerType DEF DownRemove, Removed, Pcs
<1>5. CASE PurgeState(p)
  <2>1. PrivateOK'
    BY <1>5, TypeParts, GotoType DEF PurgeState, Pcs
  <2>2. BudgetOK'
    BY <1>5, TypeParts, SpendType DEF PurgeState, BudgetOK, Events
  <2>3. st' \in States /\ dir' \in BOOLEAN
    BY <1>5, TypeParts, ZeroStateType DEF PurgeState, SharedOK
  <2>4. keys' \in Nat /\ keys' < nextKey'
    BY <1>5, TypeParts DEF PurgeState, SharedOK
  <2> QED
    BY <1>5, <2>1, <2>2, <2>3, <2>4, TypeParts DEF PurgeState, SharedOK
<1>6. CASE PurgeSSHConfig(p)
  <2>1. PrivateOK'
    BY <1>6, TypeParts, GotoType DEF PurgeSSHConfig, Pcs
  <2> QED
    BY <1>6, <2>1, TypeParts DEF PurgeSSHConfig, SharedOK, BudgetOK
<1>7. CASE RotateKeys(p)
  <2>1. PrivateOK'
    BY <1>7, TypeParts, GotoType DEF RotateKeys, Pcs
  <2>2. nextKey' \in Nat /\ nextKey <= nextKey' /\ keys' \in Nat /\ keys' < nextKey'
    BY <1>7, TypeParts DEF RotateKeys, SharedOK
  <2>3. ctr # NoCtr => ctr.secrets \in Nat
    BY TypeParts DEF SharedOK, Containers
  <2>4. ctr' # NoCtr => ctr'.id < nextId' /\ ctr'.secrets < nextKey'
    BY <1>7, <2>2, <2>3, TypeParts DEF RotateKeys, SharedOK
  <2>5. SharedOK' /\ BudgetOK'
    BY <1>7, <2>2, <2>4, TypeParts DEF RotateKeys, SharedOK, BudgetOK
  <2> QED
    BY <2>1, <2>5, TypeParts
<1>8. CASE Return(p)
  BY <1>8, FailType DEF Return
<1> QED
  BY <1>1, <1>2, <1>3, <1>4, <1>5, <1>6, <1>7, <1>8 DEF OtherStep

LEMMA BeginType ==
  ASSUME TypeOK, NEW p \in Procs, NEW c \in Commands, Begin(p, c)
  PROVE  TypeOK'
<1>1. SharedOK' /\ conf \in Configs
  BY TypeParts DEF Begin, SharedOK, shared, host
<1>2. c \in [kind : Kinds, flags : SUBSET Flags]
  BY LifecycleAssumption
<1>3. c.kind \in Kinds
  BY <1>2
<1>4. Entry(c) \in Pcs
  BY <1>3 DEF Entry, Kinds, Pcs
<1>5. PrivateOK'
  BY <1>1, <1>2, <1>4, TypeParts DEF Begin, PrivateOK, Goto
<1> QED
  BY <1>1, <1>5, TypeParts, SpendType DEF Begin, Events

LEMMA OutsideStepType ==
  ASSUME TypeOK, (\E p \in Procs : Abort(p)) \/ Edit \/ Exit
  PROVE  TypeOK'
<1>1. ASSUME NEW p \in Procs, Abort(p)
      PROVE  TypeOK'
  <2>1. SharedOK'
    BY <1>1, TypeParts DEF Abort, SharedOK, shared, host
  <2> QED
    BY <1>1, <2>1, TypeParts, QuitType, SpendType DEF Abort, Events
<1>2. CASE Edit
  <2>1. PrivateOK'
    BY <1>2, TypeParts DEF Edit, PrivateOK, private, memory
  <2>2. SharedOK'
    BY <1>2, TypeParts DEF Edit, SharedOK, host
  <2> QED
    BY <1>2, <2>1, <2>2, TypeParts, SpendType DEF Edit, Events
<1>3. CASE Exit
  <2>1. PrivateOK'
    BY <1>3, TypeParts DEF Exit, PrivateOK, private, memory
  <2>2. SharedOK'
    BY <1>3, TypeParts DEF Exit, SharedOK, host, Running, Present, Containers
  <2> QED
    BY <1>3, <2>1, <2>2, TypeParts, SpendType DEF Exit, Events
<1> QED
  BY <1>1, <1>2, <1>3

----------------------------------------------------------------------------
(* The processes do not touch each other's memory.                          *)
Untouched(q) ==
  /\ pc'[q] = pc[q] /\ cmd'[q] = cmd[q] /\ my'[q] = my[q]
  /\ cid'[q] = cid[q] /\ copy'[q] = copy[q]

LEMMA QuitIsPrivate ==
  ASSUME PrivateOK, NEW p \in Procs, Quit(p), NEW q \in Procs \ {p}
  PROVE  Untouched(q)
BY DEF PrivateOK, Quit, Goto, Untouched

LEMMA StepIsPrivate ==
  ASSUME TypeOK, NEW p \in Procs, Step(p), NEW q \in Procs \ {p}
  PROVE  Untouched(q)
<1> SUFFICES ASSUME ~Fail(p) PROVE Untouched(q)
  BY TypeParts, QuitIsPrivate DEF Fail
<1> USE TypeParts DEF PrivateOK, Goto, Untouched
<1>1. CASE UpStep(p)
  BY <1>1 DEF UpStep, Find, Decide, StartContainer, RemoveContainer, CreateContainer,
              PersistLoad, PersistSave, Resolve, memory
<1>2. CASE LoadHooks(p) \/ RunHook(p) \/ MarkHook(p) \/ PostStart(p)
  BY <1>2 DEF LoadHooks, RunHook, MarkHook, PostStart, memory
<1>3. CASE SaveHooks(p) \/ LoadProbe(p) \/ RunProbe(p) \/ SaveProbe(p)
  BY <1>3 DEF SaveHooks, LoadProbe, RunProbe, SaveProbe, memory
<1>4. CASE ProvisionStep(p)
  BY <1>4 DEF ProvisionStep, EnsureKeys, PrepareAgent, CopyAgent, WriteSecrets,
              WriteSSHConfig, memory
<1>5. CASE OtherStep(p)
  BY <1>5 DEF OtherStep, Attach, Reattach, Serve, StopFind, Stop, RestartFind, Restart,
              DownFind, DownRemove, PurgeState, PurgeSSHConfig, RotateKeys, Return,
              memory
<1> QED
  BY <1>1, <1>2, <1>3, <1>4, <1>5 DEF Step, HookStep

(* Only RunHook goes on to mark a hook.                                     *)
LEMMA MarkFollowsRun ==
  ASSUME TypeOK, NEW p \in Procs, Step(p), pc'[p] = "mark"
  PROVE  /\ RunHook(p) /\ Unmarked(p) # {} /\ ~Fail(p)
         /\ my'[p] = my[p] /\ copy'[p] = copy[p] /\ cid'[p] = cid[p]
<1>1. ~Fail(p)
  BY TypeParts DEF Fail, Quit, Goto, PrivateOK
<1> USE TypeParts DEF PrivateOK, Goto
<1>2. ~UpStep(p)
  BY <1>1 DEF UpStep, Find, Decide, StartContainer, RemoveContainer, CreateContainer,
              PersistLoad, PersistSave, Resolve
<1>3. ~ProvisionStep(p)
  BY <1>1 DEF ProvisionStep, EnsureKeys, PrepareAgent, CopyAgent, WriteSecrets,
              WriteSSHConfig
<1>4. ~OtherStep(p)
  BY <1>1 DEF OtherStep, Attach, Reattach, Serve, StopFind, Stop, RestartFind, Restart,
              DownFind, DownRemove, PurgeState, PurgeSSHConfig, RotateKeys, Return,
              Removed
<1>5. RunHook(p)
  BY <1>1, <1>2, <1>3, <1>4 DEF Step, HookStep, LoadHooks, MarkHook, PostStart,
              SaveHooks, LoadProbe, RunProbe, SaveProbe
<1> QED
  BY <1>1, <1>5 DEF RunHook, memory

LEMMA UnmarkedIsPrivate ==
  ASSUME NEW p \in Procs, my'[p] = my[p], copy'[p] = copy[p]
  PROVE  Unmarked(p)' = Unmarked(p) /\ NextHook(p)' = NextHook(p)
BY DEF Unmarked, NextHook

LEMMA PendingStep ==
  ASSUME TypeOK, Pending, [Next]_vars
  PROVE  Pending'
<1> SUFFICES ASSUME NEW q \in Procs, pc'[q] = "mark" PROVE Unmarked(q)' # {}
  BY DEF Pending
<1>1. CASE Untouched(q)
  BY <1>1, UnmarkedIsPrivate DEF Untouched, Pending
<1>2. ASSUME NEW p \in Procs, Step(p)
      PROVE  Unmarked(q)' # {}
  <2>1. CASE q = p
    BY <1>2, <2>1, MarkFollowsRun, UnmarkedIsPrivate
  <2>2. CASE q # p
    BY <1>1, <1>2, <2>2, StepIsPrivate
  <2> QED
    BY <2>1, <2>2
<1>3. ASSUME NEW p \in Procs, Abort(p)
      PROVE  Unmarked(q)' # {}
  BY <1>1, <1>3, TypeParts, QuitIsPrivate DEF Abort, Quit, Goto, PrivateOK
<1>4. ASSUME NEW p \in Procs, NEW c \in Commands, Begin(p, c)
      PROVE  Unmarked(q)' # {}
  <2>1. Entry(c) # "mark"
    <3>1. c.kind \in Kinds
      BY LifecycleAssumption
    <3> QED
      BY <3>1 DEF Entry, Kinds
  <2>2. q # p
    BY <1>4, <2>1, TypeParts DEF Begin, Goto, PrivateOK
  <2>3. Untouched(q)
    BY <1>4, <2>2, TypeParts DEF Begin, Goto, PrivateOK, Untouched
  <2> QED
    BY <1>1, <2>3
<1>5. CASE Edit \/ Exit \/ UNCHANGED vars
  BY <1>1, <1>5 DEF Edit, Exit, vars, private, memory, Untouched
<1> QED
  BY <1>2, <1>3, <1>4, <1>5 DEF Next

LEMMA TypeStep ==
  ASSUME TypeOK, Pending, [Next]_vars
  PROVE  TypeOK'
<1>1. ASSUME NEW p \in Procs, Step(p)
      PROVE  TypeOK'
  BY <1>1, UpStepType, HookStepType, ProvisionStepType, OtherStepType DEF Step
<1>2. CASE UNCHANGED vars
  BY <1>2 DEF TypeOK, vars, shared, host, private, memory
<1> QED
  BY <1>1, <1>2, BeginType, OutsideStepType DEF Next

(* The types of the state, the container's identity, which no later one     *)
(* shares, and the generations of the keys, which no later ones share.      *)
THEOREM TypesHold == Spec => [](TypeOK /\ Pending)
<1>1. Init => TypeOK /\ Pending
  BY InitType DEF Init, Pending
<1>2. TypeOK /\ Pending /\ [Next]_vars => TypeOK' /\ Pending'
  BY TypeStep, PendingStep
<1> QED
  BY <1>1, <1>2, PTL DEF Spec

(* TypeOK, which the run WorkspaceFaults checks on a small instance.         *)
THEOREM TypeInvariance == Spec => []TypeOK
BY TypesHold, PTL

----------------------------------------------------------------------------
(* The truth of the markers and of the cached probe.  Two things are        *)
(* assumed of the user: nobody passes --skip-hooks (the run SkipRecreate     *)
(* shows what happens otherwise), and the configured create hooks stay the   *)
(* same (other edits and devc upgrades are allowed).                         *)
NoSkip == \A c \in Commands : "skip" \notin c.flags

FixedHooks == \A c, d \in Configs : c.hooks = d.hooks

Configured == (CHOOSE c \in Configs : TRUE).hooks

(* A State that is, or will be written to, state.json is right about the    *)
(* present container, if it is about it at all.  That it is never about a   *)
(* container yet to come makes this inductive.                              *)
Truthful(s) ==
  /\ s.hooks \subseteq Configured
  /\ s.cid < nextId
  /\ Present /\ s.cid = ctr.id => s.hooks \subseteq Ran
  /\ Present /\ s.cid = ctr.id /\ s.probe # NoProbe => Configured \subseteq s.probe

(* What p knows of the container it works for, if it is still there.        *)
Mine(p) == Present /\ cid[p] = ctr.id

Honest(p) ==
  /\ ~Has(p, "skip")
  /\ cid[p] < nextId
  /\ Truthful(copy[p])
  /\ pc[p] \in {"run", "mark", "poststart", "final"} => copy[p].cid = cid[p]
  /\ pc[p] = "mark" /\ Mine(p) => NextHook(p) \in Ran
  /\ pc[p] \in {"poststart", "final", "probe", "probing"} /\ Mine(p)
       => Configured \subseteq Ran

Truth ==
  /\ Present => Ran \subseteq Configured
  /\ Truthful(st)
  /\ \A p \in Procs : Honest(p)

Inv == TypeOK /\ Pending /\ Truth

LEMMA ConfiguredIsCommon ==
  ASSUME FixedHooks, NEW c \in Configs
  PROVE  c.hooks = Configured /\ Configured \subseteq HookNames
BY LifecycleAssumption DEF FixedHooks, Configured

LEMMA InitTruth ==
  ASSUME NoSkip, FixedHooks, Init
  PROVE  Truth
<1>1. ctr = NoCtr /\ nextId = 2 /\ st = ZeroState
  BY DEF Init, FirstId
<1>2. ZeroState.hooks = {} /\ ZeroState.cid = 0 /\ ZeroState.probe = NoProbe
  BY DEF ZeroState, Unset
<1>3. Truthful(ZeroState)
  BY <1>1, <1>2 DEF Truthful, Present
<1>4. ASSUME NEW p \in Procs
      PROVE  Honest(p)
  <2>1. pc[p] = "idle" /\ cid[p] = 0 /\ copy[p] = ZeroState /\ cmd[p] = NoCommand
    BY DEF Init, Unset
  <2> QED
    BY <1>1, <1>3, <2>1 DEF Honest, Has, NoCommand
<1> QED
  BY <1>1, <1>3, <1>4 DEF Truth, Present

(* What any step does to the container: it stays and only more hooks have   *)
(* run in it, it goes away, or a new one appears that nobody has heard of.  *)
Ages ==
  /\ nextId <= nextId'
  /\ \/ ~Present'
     \/ Present /\ Present' /\ ctr'.id = ctr.id /\ Ran \subseteq Ran'
     \/ Present' /\ ctr'.id = nextId /\ Ran' = {}

LEMMA TruthfulAges ==
  ASSUME TypeOK, TypeOK', Ages, NEW s \in States, Truthful(s)
  PROVE  /\ s.hooks \subseteq Configured
         /\ s.cid < nextId'
         /\ Present' /\ s.cid = ctr'.id => s.hooks \subseteq Ran'
         /\ Present' /\ s.cid = ctr'.id /\ s.probe # NoProbe => Configured \subseteq s.probe
<1>1. s.cid \in Nat /\ nextId \in Nat /\ nextId' \in Nat
  BY DEF States, TypeOK
<1>2. s.cid < nextId' /\ s.cid # nextId
  BY <1>1 DEF Truthful, Ages
<1> QED
  BY <1>2 DEF Truthful, Ages

LEMMA HonestAges ==
  ASSUME TypeOK, TypeOK', Ages, NEW q \in Procs, Honest(q), Untouched(q)
  PROVE  Honest(q)'
<1>1. Truthful(copy[q])'
  <2>1. copy[q] \in States /\ copy'[q] = copy[q]
    BY DEF TypeOK, Untouched
  <2> QED
    BY <2>1, TruthfulAges DEF Honest, Truthful
<1>2. cid'[q] < nextId' /\ cid[q] # nextId
  <2>1. cid[q] \in Nat /\ nextId \in Nat /\ nextId' \in Nat
    BY DEF TypeOK
  <2> QED
    BY <2>1 DEF Honest, Untouched, Ages
<1>3. NextHook(q)' = NextHook(q)
  BY UnmarkedIsPrivate DEF Untouched
<1>4. Mine(q)' => Mine(q) /\ Ran \subseteq Ran'
  BY <1>2 DEF Mine, Ages, Untouched
<1> QED
  BY <1>1, <1>2, <1>3, <1>4 DEF Honest, Untouched, Has

SameRuns ==
  /\ nextId' = nextId
  /\ \/ ctr' = ctr
     \/ ctr' = NoCtr
     \/ Present /\ Present' /\ ctr'.id = ctr.id /\ ctr'.ran = ctr.ran

LEMMA ContainerStep ==
  ASSUME TypeOK, TypeOK', NEW p \in Procs, Step(p)
  PROVE  SameRuns \/ (CreateContainer(p) /\ ~Fail(p)) \/ (RunHook(p) /\ Unmarked(p) # {} /\ ~Fail(p))
<1> SUFFICES ASSUME ~Fail(p), ~CreateContainer(p), ~(RunHook(p) /\ Unmarked(p) # {})
             PROVE  SameRuns
  BY DEF Fail, shared, SameRuns
<1> USE DEF SameRuns
<1>1. Present => ctr \in Containers /\ NoCtr # ctr
  BY DEF TypeOK, Present
<1>2. CASE UpStep(p)
  <2>1. CASE StartContainer(p)
    BY <1>1, <2>1 DEF StartContainer, Containers, Present, TypeOK
  <2> QED
    BY <1>2, <2>1 DEF UpStep, Find, Decide, RemoveContainer, PersistLoad, PersistSave, Resolve,
                      shared
<1>3. CASE HookStep(p)
  <2>1. CASE PostStart(p)
    BY <1>1, <2>1 DEF PostStart, Containers, Present, Running, TypeOK
  <2> QED
    BY <1>3, <2>1 DEF HookStep, LoadHooks, RunHook, MarkHook, SaveHooks, LoadProbe,
                      RunProbe, SaveProbe, shared
<1>4. CASE ProvisionStep(p)
  <2>1. CASE CopyAgent(p) \/ WriteSecrets(p)
    BY <1>1, <2>1 DEF CopyAgent, WriteSecrets, Containers, Present, Running, TypeOK
  <2> QED
    BY <1>4, <2>1 DEF ProvisionStep, EnsureKeys, PrepareAgent, WriteSSHConfig, shared
<1>5. CASE OtherStep(p)
  <2>1. CASE Stop(p) \/ Restart(p)
    BY <1>1, <2>1 DEF Stop, Restart, Containers, Present, TypeOK
  <2> QED
    BY <1>5, <2>1 DEF OtherStep, Attach, Reattach, Serve, StopFind, RestartFind,
                      DownFind, DownRemove, PurgeState, PurgeSSHConfig, RotateKeys,
                      Return, shared
<1> QED
  BY <1>2, <1>3, <1>4, <1>5 DEF Step

LEMMA SameRunsAges ==
  ASSUME TypeOK, SameRuns
  PROVE  Ages /\ (Present' => Present /\ Ran' = Ran)
<1>1. nextId \in Nat
  BY DEF TypeOK
<1>2. CASE ctr' = ctr
  BY <1>1, <1>2 DEF SameRuns, Ages, Present, Ran
<1>3. CASE ctr' = NoCtr
  BY <1>1, <1>3 DEF SameRuns, Ages, Present
<1>4. CASE Present /\ Present' /\ ctr'.id = ctr.id /\ ctr'.ran = ctr.ran
  BY <1>1, <1>4 DEF SameRuns, Ages, Ran
<1> QED
  BY <1>2, <1>3, <1>4 DEF SameRuns

LEMMA SameRunsAge ==
  ASSUME TypeOK, SameRuns, Truth
  PROVE  Ages /\ (Present' => Ran' \subseteq Configured)
BY SameRunsAges DEF Truth

(* A hook that runs has run afterwards.                                     *)
LEMMA RunHookRan ==
  ASSUME TypeOK, NEW p \in Procs, RunHook(p), Unmarked(p) # {}, ~Fail(p)
  PROVE  /\ Present /\ Present' /\ ctr'.id = ctr.id /\ nextId' = nextId
         /\ Ran' = Ran \cup {NextHook(p)}
         /\ ctr.ran \in [HookNames -> 0..MaxRuns]
         /\ ctr'.ran = [ctr.ran EXCEPT ![NextHook(p)] = IF @ < MaxRuns THEN @ + 1 ELSE @]
<1>1. ctr \in Containers /\ NoCtr # ctr
  BY DEF RunHook, Running, Present, TypeOK
<1> DEFINE h == NextHook(p)
<1>2. h \in HookNames
  BY NextHookIsUnmarked
<1> DEFINE more == IF ctr.ran[h] < MaxRuns THEN ctr.ran[h] + 1 ELSE ctr.ran[h]
<1>4. ctr.ran \in [HookNames -> 0..MaxRuns]
  BY <1>1 DEF Containers
<1>5. ctr.ran[h] \in 0..MaxRuns /\ MaxRuns \in Nat /\ MaxRuns # 0
  BY <1>2, <1>4, LifecycleAssumption
<1>6. more > 0
  BY <1>5
<1>7. ctr' = [ctr EXCEPT !.ran = [ctr.ran EXCEPT ![h] = more]]
  BY DEF RunHook
<1>8. ctr'.id = ctr.id /\ ctr'.ran = [ctr.ran EXCEPT ![h] = more]
  BY <1>1, <1>7 DEF Containers
<1>9. Ran' = Ran \cup {h}
  <2>1. \A g \in HookNames : ctr'.ran[g] = IF g = h THEN more ELSE ctr.ran[g]
    BY <1>2, <1>4, <1>8
  <2> QED
    BY <1>2, <1>6, <2>1 DEF Ran
<1>10. Present'
  <2>1. ctr' \in Containers
    <3>1. more \in 0..MaxRuns
      BY <1>5
    <3>2. [ctr.ran EXCEPT ![h] = more] \in [HookNames -> 0..MaxRuns]
      BY <1>4, <3>1
    <3> QED
      BY <1>1, <1>7, <3>2 DEF Containers
  <2> QED
    BY <2>1, NoCtrAssumption DEF Present
<1> QED
  BY <1>1, <1>4, <1>8, <1>9, <1>10 DEF RunHook, Present

LEMMA RunHookRuns ==
  ASSUME TypeOK, FixedHooks, NEW p \in Procs, RunHook(p), Unmarked(p) # {}, ~Fail(p)
  PROVE  /\ Present /\ Present' /\ ctr'.id = ctr.id /\ nextId' = nextId
         /\ Ran' = Ran \cup {NextHook(p)}
         /\ NextHook(p) \in Configured
<1>1. NextHook(p) \in my[p].hooks /\ my[p] \in Configs
  BY NextHookIsUnmarked DEF TypeOK
<1> QED
  BY <1>1, RunHookRan, ConfiguredIsCommon

LEMMA CreateStartsOver ==
  ASSUME TypeOK, NEW p \in Procs, CreateContainer(p), ~Fail(p)
  PROVE  Ages /\ Ran' = {}
<1>1. ctr' = FreshContainer(p) /\ nextId' = nextId + 1 /\ nextId \in Nat
  BY DEF CreateContainer, TypeOK
<1>2. ctr'.id = nextId /\ ctr'.ran = [h \in HookNames |-> 0]
  BY <1>1 DEF FreshContainer
<1>3. Ran' = {}
  BY <1>2 DEF Ran
<1>4. nextId <= nextId'
  BY <1>1
<1> QED
  BY <1>2, <1>3, <1>4 DEF Ages

LEMMA StepAges ==
  ASSUME TypeOK, TypeOK', FixedHooks, Truth, NEW p \in Procs, Step(p)
  PROVE  Ages /\ (Present' => Ran' \subseteq Configured)
<1>1. CASE SameRuns
  BY <1>1, SameRunsAge
<1>2. CASE CreateContainer(p) /\ ~Fail(p)
  BY <1>2, CreateStartsOver
<1>3. CASE RunHook(p) /\ Unmarked(p) # {} /\ ~Fail(p)
  <2>1. nextId \in Nat
    BY DEF TypeOK
  <2> QED
    BY <1>3, <2>1, RunHookRuns DEF Ages, Truth
<1> QED
  BY <1>1, <1>2, <1>3, ContainerStep

(* What p itself knows after its step.                                      *)
LEMMA QuitIsHonest ==
  ASSUME TypeOK, TypeOK', NEW p \in Procs, Quit(p), ~Has(p, "skip")
  PROVE  Honest(p)'
<1>1. pc'[p] = "idle" /\ cid'[p] = 0 /\ copy'[p] = ZeroState /\ cmd'[p] = NoCommand
  BY DEF Quit, Goto, TypeOK, Unset
<1>2. nextId' \in Nat /\ nextId' # 0 /\ (Present' => ctr'.id # 0)
  BY DEF TypeOK, Present, Containers, Unset
<1>3. 0 < nextId'
  BY <1>2
<1>4. Truthful(copy[p])'
  BY <1>1, <1>2, <1>3 DEF Truthful, ZeroState, Unset
<1> QED
  BY <1>1, <1>3, <1>4 DEF Honest, Has, NoCommand

(* Most steps leave p with what it knew, at a place that promises nothing.  *)
Promising == {"run", "mark", "poststart", "final", "probe", "probing"}

LEMMA KeepsHonest ==
  ASSUME TypeOK, TypeOK', Ages, NEW p \in Procs, Honest(p),
         cid'[p] = cid[p], copy'[p] = copy[p], cmd'[p] = cmd[p],
         pc'[p] \notin Promising
  PROVE  Honest(p)'
<1>1. Truthful(copy[p])'
  <2>1. copy[p] \in States
    BY DEF TypeOK
  <2> QED
    BY <2>1, TruthfulAges DEF Honest, Truthful
<1>2. cid'[p] < nextId'
  <2>1. cid[p] \in Nat /\ nextId \in Nat /\ nextId' \in Nat
    BY DEF TypeOK
  <2> QED
    BY <2>1 DEF Honest, Ages
<1> QED
  BY <1>1, <1>2 DEF Honest, Promising, Has

LEMMA BringUpIsHonest ==
  ASSUME TypeOK, TypeOK', Ages, Truth, NEW p \in Procs, UpStep(p), ~Fail(p)
  PROVE  Honest(p)'
<1> USE DEF Truth
<1>1. CASE PersistLoad(p)
  <2>1. copy'[p] = st /\ pc'[p] = "persist_save" /\ cid'[p] = cid[p] /\ cmd' = cmd
    BY <1>1 DEF PersistLoad, Goto, TypeOK
  <2>2. Truthful(copy[p])'
    BY <2>1, TruthfulAges DEF Truthful, TypeOK
  <2>3. cid'[p] < nextId'
    BY <1>1 DEF PersistLoad, Honest
  <2> QED
    BY <2>1, <2>2, <2>3 DEF Honest, Has
<1>2. CASE Resolve(p)
  <2>1. copy' = copy /\ ctr' = ctr /\ nextId' = nextId /\ cmd' = cmd
    BY <1>2 DEF Resolve, shared
  <2>2. pc'[p] = "hooks"
    BY <1>2 DEF Resolve, Goto, TypeOK, Honest
  <2>3. cid'[p] < nextId
    <3>1. cid'[p] = ByName \/ (Present /\ cid'[p] = ctr.id)
      BY <1>2 DEF Resolve, TypeOK
    <3>2. ByName < nextId
      BY DEF TypeOK, Unset, ByName
    <3> QED
      BY <3>1, <3>2 DEF TypeOK, Present
  <2>4. Truthful(copy[p])'
    BY <2>1 DEF Honest, Truthful, Present, Ran
  <2> QED
    BY <2>1, <2>2, <2>3, <2>4 DEF Honest, Has
<1>3. CASE ~PersistLoad(p) /\ ~Resolve(p)
  <2>1. cid' = cid /\ copy' = copy /\ cmd' = cmd /\ pc'[p] \notin Promising
    BY <1>3 DEF UpStep, Find, Decide, StartContainer, RemoveContainer, CreateContainer,
                PersistSave, memory, Goto, TypeOK, Promising
  <2> QED
    BY <2>1, KeepsHonest
<1> QED
  BY <1>1, <1>2, <1>3

LEMMA HooksAreHonest ==
  ASSUME TypeOK, TypeOK', Pending, FixedHooks, Truth, Ages,
         NEW p \in Procs, HookStep(p), ~Fail(p)
  PROVE  Honest(p)'
<1> USE DEF Truth
<1>1. CASE LoadHooks(p)
  <2>1. copy'[p] = HooksLoaded(p) /\ pc'[p] = "run"
        /\ cid'[p] = cid[p] /\ cmd' = cmd /\ ctr' = ctr /\ nextId' = nextId
    BY <1>1 DEF LoadHooks, Goto, TypeOK
  <2>2. HooksLoaded(p).cid = cid[p]
    BY DEF HooksLoaded
  <2>3. CASE st.cid = cid[p]
    <3>1. HooksLoaded(p).hooks \subseteq st.hooks /\ HooksLoaded(p).probe = st.probe
      BY <2>3 DEF HooksLoaded
    <3>2. Truthful(copy[p])'
      BY <2>1, <2>2, <2>3, <3>1 DEF Truthful, Present, Ran
    <3> QED
      BY <2>1, <2>2, <3>2 DEF Honest, Has
  <2>4. CASE st.cid # cid[p]
    <3>1. HooksLoaded(p).hooks = {} /\ HooksLoaded(p).probe = NoProbe
      BY <2>4 DEF HooksLoaded
    <3>2. Truthful(copy[p])'
      BY <2>1, <2>2, <3>1 DEF Truthful, Present, Ran, Honest
    <3> QED
      BY <2>1, <2>2, <3>2 DEF Honest, Has
  <2> QED
    BY <2>3, <2>4
<1>2. CASE RunHook(p)
  <2>1. cid' = cid /\ copy' = copy /\ cmd' = cmd /\ my' = my /\ nextId' = nextId
        /\ copy[p].cid = cid[p]
    BY <1>2 DEF RunHook, memory, shared, Honest
  <2>2. Truthful(copy[p])'
    <3>1. copy[p] \in States
      BY DEF TypeOK
    <3> QED
      BY <2>1, <3>1, TruthfulAges DEF Honest, Truthful
  <2>3. CASE Unmarked(p) = {}
    <3>1. pc'[p] = "poststart" /\ ctr' = ctr
      BY <1>2, <2>3 DEF RunHook, Goto, TypeOK, shared
    <3>2. Configured \subseteq copy[p].hooks
      <4>1. my[p].hooks = Configured /\ Configured \subseteq HookNames
        BY ConfiguredIsCommon DEF TypeOK
      <4> QED
        BY <2>3, <4>1 DEF Unmarked, HookNames
    <3>3. Mine(p) => Configured \subseteq Ran
      BY <2>1, <3>2 DEF Mine, Honest, Truthful
    <3> QED
      BY <2>1, <2>2, <3>1, <3>3 DEF Honest, Has, Mine, Present, Ran
  <2>4. CASE Unmarked(p) # {}
    <3>1. pc'[p] = "mark"
      BY <1>2, <2>4 DEF RunHook, Goto, TypeOK
    <3>2. Ran' = Ran \cup {NextHook(p)}
      BY <1>2, <2>4, RunHookRuns
    <3>3. NextHook(p)' = NextHook(p)
      BY <2>1, UnmarkedIsPrivate
    <3> QED
      BY <2>1, <2>2, <3>1, <3>2, <3>3 DEF Honest, Has
  <2> QED
    BY <2>3, <2>4
<1>3. CASE MarkHook(p)
  <2>1. copy'[p] = Marked(p) /\ pc'[p] = "run" /\ Unmarked(p) # {}
        /\ cid' = cid /\ cmd' = cmd /\ ctr' = ctr /\ nextId' = nextId
    BY <1>3 DEF MarkHook, Goto, TypeOK, Pending
  <2>2. Marked(p).hooks = copy[p].hooks \cup {NextHook(p)}
        /\ Marked(p).cid = copy[p].cid /\ Marked(p).probe = copy[p].probe
    BY DEF Marked, TypeOK, States
  <2>3. NextHook(p) \in Configured
    BY <2>1, NextHookIsUnmarked, ConfiguredIsCommon DEF TypeOK
  <2>4. copy[p].cid = cid[p] /\ (Mine(p) => NextHook(p) \in Ran)
    BY <1>3 DEF MarkHook, Honest
  <2>5. Truthful(copy[p])'
    BY <2>1, <2>2, <2>3, <2>4 DEF Truthful, Honest, Mine, Present, Ran
  <2> QED
    BY <2>1, <2>2, <2>4, <2>5 DEF Honest, Has
<1>4. CASE PostStart(p)
  <2>1. cid' = cid /\ copy' = copy /\ cmd' = cmd /\ nextId' = nextId
        /\ pc[p] = "poststart" /\ pc'[p] = "final"
    BY <1>4 DEF PostStart, memory, Goto, TypeOK
  <2>2. Truthful(copy[p])'
    <3>1. copy[p] \in States
      BY DEF TypeOK
    <3> QED
      BY <2>1, <3>1, TruthfulAges DEF Honest, Truthful
  <2>3. Mine(p)' => Mine(p) /\ Ran \subseteq Ran'
    <3>1. cid[p] < nextId /\ nextId \in Nat /\ cid[p] \in Nat
      BY DEF Honest, TypeOK
    <3>2. cid[p] # nextId
      BY <3>1
    <3> QED
      BY <2>1, <3>2 DEF Ages, Mine
  <2> QED
    BY <2>1, <2>2, <2>3 DEF Honest, Has
<1>5. CASE SaveHooks(p)
  <2>1. cid' = cid /\ copy' = copy /\ cmd' = cmd /\ nextId' = nextId /\ ctr' = ctr
        /\ pc[p] = "final" /\ pc'[p] = "probe"
    BY <1>5 DEF SaveHooks, memory, Goto, TypeOK
  <2> QED
    BY <2>1 DEF Honest, Has, Truthful, Mine, Present, Ran
<1>6. CASE LoadProbe(p)
  <2>1. copy'[p] \in {st, copy[p]} /\ cid' = cid /\ cmd' = cmd /\ nextId' = nextId
        /\ ctr' = ctr /\ pc[p] = "probe" /\ pc'[p] \in {"probing", "keys"}
    BY <1>6 DEF LoadProbe, Goto, TypeOK
  <2>2. Truthful(copy[p])'
    BY <2>1 DEF Honest, Truthful, Present, Ran
  <2> QED
    BY <2>1, <2>2 DEF Honest, Has, Mine, Present, Ran
<1>7. CASE RunProbe(p)
  <2>1. cid' = cid /\ cmd' = cmd /\ nextId' = nextId /\ ctr' = ctr
        /\ pc[p] = "probing" /\ pc'[p] = "probe_save"
    BY <1>7 DEF RunProbe, shared, Goto, TypeOK
  <2>2. PICK seen \in Probes :
          /\ seen = Seen \/ seen = NoProbe
          /\ copy' = [copy EXCEPT ![p] = [@ EXCEPT !.probe = seen,
                                                  !.version = my[p].version,
                                                  !.cid = cid[p]]]
    BY <1>7 DEF RunProbe
  <2>3. copy'[p].hooks = copy[p].hooks /\ copy'[p].cid = cid[p] /\ copy'[p].probe = seen
    BY <2>2 DEF TypeOK, States
  <2>4. seen # NoProbe => seen = Ran
    BY <2>2 DEF Seen, Ran
  <2>5. Mine(p) => Configured \subseteq Ran
    BY <2>1 DEF Honest
  <2>6. Truthful(copy[p])'
    BY <2>1, <2>3, <2>4, <2>5 DEF Truthful, Honest, Mine, Present, Ran
  <2> QED
    BY <2>1, <2>6 DEF Honest, Has
<1>8. CASE SaveProbe(p)
  <2>1. cid' = cid /\ copy' = copy /\ cmd' = cmd /\ pc'[p] \notin Promising
    BY <1>8 DEF SaveProbe, memory, Goto, TypeOK, Promising
  <2> QED
    BY <2>1, KeepsHonest
<1> QED
  BY <1>1, <1>2, <1>3, <1>4, <1>5, <1>6, <1>7, <1>8 DEF HookStep

LEMMA OthersKeepHonest ==
  ASSUME TypeOK, TypeOK', Ages, Truth, NEW p \in Procs, ~Fail(p),
         ProvisionStep(p) \/ OtherStep(p)
  PROVE  Honest(p)'
<1>1. cid' = cid /\ copy' = copy /\ cmd' = cmd
  BY DEF ProvisionStep, EnsureKeys, PrepareAgent, CopyAgent, WriteSecrets,
         WriteSSHConfig, OtherStep, Attach, Reattach, Serve, StopFind, Stop,
         RestartFind, Restart, DownFind, DownRemove, PurgeState, PurgeSSHConfig,
         RotateKeys, Return, memory
<1>2. pc'[p] \notin Promising
  <2>1. CASE ProvisionStep(p)
    BY <2>1 DEF ProvisionStep, EnsureKeys, PrepareAgent, CopyAgent, WriteSecrets,
                WriteSSHConfig, Goto, TypeOK, Promising
  <2>2. CASE OtherStep(p)
    BY <2>2 DEF OtherStep, Attach, Reattach, Serve, StopFind, Stop, RestartFind,
                Restart, DownFind, DownRemove, PurgeState, PurgeSSHConfig, RotateKeys,
                Return, Removed, Goto, TypeOK, Promising
  <2> QED
    BY <2>1, <2>2
<1> QED
  BY <1>1, <1>2, KeepsHonest DEF Truth

LEMMA StepKeepsHonest ==
  ASSUME TypeOK, TypeOK', Pending, FixedHooks, Truth, NEW p \in Procs, Step(p),
         NEW q \in Procs
  PROVE  Honest(q)'
<1>1. Ages
  BY StepAges
<1>2. CASE q # p
  BY <1>1, <1>2, StepIsPrivate, HonestAges DEF Truth
<1>3. CASE q = p /\ Fail(p)
  BY <1>3, QuitIsHonest DEF Fail, Truth, Honest
<1>4. CASE q = p /\ ~Fail(p)
  BY <1>1, <1>4, BringUpIsHonest, HooksAreHonest, OthersKeepHonest DEF Step
<1> QED
  BY <1>2, <1>3, <1>4

(* What is written to state.json is what a process knows.                   *)
LEMMA StateStep ==
  ASSUME TypeOK, TypeOK', Pending, FixedHooks, Truth, NEW p \in Procs, Step(p)
  PROVE  Truthful(st)'
<1>1. Ages
  BY StepAges
<1>2. CASE st' = st
  BY <1>1, <1>2, TruthfulAges DEF Truth, Truthful, TypeOK
<1>3. CASE st' = copy'[p]
  BY <1>3, StepKeepsHonest DEF Honest, Truthful
<1>4. CASE st' = ZeroState
  <2>1. nextId' \in Nat /\ nextId' # 0 /\ (Present' => ctr'.id # 0)
    BY DEF TypeOK, Present, Containers, Unset
  <2>2. 0 < nextId'
    BY <2>1
  <2> QED
    BY <1>4, <2>1, <2>2 DEF Truthful, ZeroState, Unset
<1>5. CASE UpStep(p) \/ HookStep(p)
  <2>1. CASE PersistSave(p) \/ SaveHooks(p) \/ SaveProbe(p)
    BY <1>2, <1>3, <2>1 DEF PersistSave, SaveHooks, SaveProbe, Save, memory, Fail,
                            shared, host
  <2>2. CASE MarkHook(p)
    <3>1. copy'[p] = Marked(p)
      BY <2>2 DEF MarkHook, TypeOK
    <3> QED
      BY <1>2, <1>3, <2>2, <3>1 DEF MarkHook, Save
  <2> QED
    BY <1>2, <1>5, <2>1, <2>2
       DEF UpStep, Find, Decide, StartContainer, RemoveContainer, CreateContainer, PersistLoad,
           Resolve, HookStep, LoadHooks, RunHook, PostStart, LoadProbe, RunProbe, Fail,
           shared, host
<1>6. CASE ProvisionStep(p) \/ OtherStep(p)
  BY <1>2, <1>4, <1>6
     DEF ProvisionStep, EnsureKeys, PrepareAgent, CopyAgent, WriteSecrets,
         WriteSSHConfig, OtherStep, Attach, Reattach, Serve, StopFind, Stop,
         RestartFind, Restart, DownFind, DownRemove, PurgeState, PurgeSSHConfig,
         RotateKeys, Return, Fail, shared, host
<1> QED
  BY <1>5, <1>6 DEF Step

(* Exits, edits, new commands and crashes.                                  *)
LEMMA OutsideKeepsTruth ==
  ASSUME TypeOK, TypeOK', NoSkip, Truth,
         \/ \E p \in Procs : Abort(p) \/ \E c \in Commands : Begin(p, c)
         \/ Edit \/ Exit \/ UNCHANGED vars
  PROVE  Truth'
<1>1. SameRuns /\ st' = st
  <2>1. CASE Exit
    BY <2>1 DEF Exit, SameRuns, host, Running, Present, TypeOK, Containers
  <2>2. CASE Edit \/ UNCHANGED vars \/ \E p \in Procs : Abort(p)
    BY <2>2 DEF Edit, Abort, SameRuns, vars, shared, host
  <2>3. CASE \E p \in Procs : \E c \in Commands : Begin(p, c)
    BY <2>3 DEF Begin, SameRuns, shared, host
  <2> QED
    BY <2>1, <2>2, <2>3
<1>2. Ages /\ (Present' => Ran' \subseteq Configured)
  BY <1>1, SameRunsAge
<1>3. Truthful(st)'
  BY <1>1, <1>2, TruthfulAges DEF Truth, Truthful, TypeOK
<1>4. ASSUME NEW q \in Procs
      PROVE  Honest(q)'
  <2>1. CASE Untouched(q)
    BY <1>2, <2>1, HonestAges DEF Truth
  <2>2. CASE Edit \/ Exit \/ UNCHANGED vars
    BY <2>1, <2>2 DEF Edit, Exit, vars, private, memory, Untouched
  <2>3. ASSUME NEW p \in Procs, Abort(p)
        PROVE  Honest(q)'
    <3>1. CASE q = p
      BY <2>3, <3>1, QuitIsHonest DEF Abort, Truth, Honest
    <3> QED
      BY <2>1, <2>3, <3>1, TypeParts, QuitIsPrivate DEF Abort
  <2>4. ASSUME NEW p \in Procs, NEW c \in Commands, Begin(p, c)
        PROVE  Honest(q)'
    <3>1. CASE q = p
      <4>1. cmd'[p] = c /\ pc'[p] = Entry(c) /\ cid' = cid /\ copy' = copy
        BY <2>4 DEF Begin, Goto, TypeOK
      <4>2. pc'[p] \notin Promising
        <5>1. c.kind \in Kinds
          BY LifecycleAssumption
        <5> QED
          BY <4>1, <5>1 DEF Entry, Kinds, Promising
      <4>3. Truthful(copy[p])' /\ cid'[p] < nextId'
        BY <2>4, <4>1 DEF Begin, shared, Truth, Honest, Truthful, Present, Ran
      <4> QED
        BY <3>1, <4>1, <4>2, <4>3 DEF Honest, Has, NoSkip, Promising
    <3>2. CASE q # p
      BY <2>1, <2>4, <3>2 DEF Begin, Goto, TypeOK, Untouched
    <3> QED
      BY <3>1, <3>2
  <2> QED
    BY <2>2, <2>3, <2>4
<1> QED
  BY <1>2, <1>3, <1>4 DEF Truth

LEMMA InvStep ==
  ASSUME NoSkip, FixedHooks, Inv, [Next]_vars
  PROVE  Inv'
<1>1. TypeOK' /\ Pending'
  BY TypeStep, PendingStep DEF Inv
<1>2. ASSUME NEW p \in Procs, Step(p)
      PROVE  Truth'
  BY <1>1, <1>2, StepAges, StateStep, StepKeepsHonest DEF Truth, Inv
<1>3. Truth'
  BY <1>1, <1>2, OutsideKeepsTruth DEF Next, Inv
<1> QED
  BY <1>1, <1>3 DEF Inv

LEMMA InvHolds ==
  ASSUME NoSkip, FixedHooks
  PROVE  Spec => []Inv
<1>1. Init => Inv
  BY InitType, InitTruth DEF Inv, Init, Pending
<1>2. Inv /\ [Next]_vars => Inv'
  BY InvStep
<1> QED
  BY <1>1, <1>2, PTL DEF Spec

(* state.json never claims that a create hook has run in the present        *)
(* container when it has not, for any number of concurrent commands, and    *)
(* wherever they fail or are killed: no `up` wrongly leaves a hook out.     *)
THEOREM MarkersAreTruthful ==
  ASSUME NoSkip, FixedHooks
  PROVE  Spec => []MarkersTruthful
<1>1. Inv => MarkersTruthful
  BY DEF Inv, Truth, Truthful, MarkersTruthful
<1> QED
  BY <1>1, InvHolds, PTL

(* The environment cached for the present container was probed after every  *)
(* create hook that has run in it.                                          *)
THEOREM CachedProbeReflectsHooks ==
  ASSUME NoSkip, FixedHooks
  PROVE  Spec => []ProbeReflectsHooks
<1>1. Inv => ProbeReflectsHooks
  BY DEF Inv, Truth, Truthful, ProbeReflectsHooks
<1> QED
  BY <1>1, InvHolds, PTL

----------------------------------------------------------------------------
(* A workspace of either kind.                                              *)
(* The steps that Lifecycle does not have.                                  *)
ComposeOnly(p) ==
  \/ ComposeUp(p) \/ ComposeCreate(p) \/ NotCovered(p) \/ FindService(p)
  \/ PersistCompose(p) \/ PersistComposeSave(p) \/ ExecFails(p) \/ ProbeFails(p)
  \/ ComposeAttach(p) \/ ComposeStop(p) \/ ComposeRestart(p) \/ ComposeDown(p)
  \/ Reject(p) \/ AutoDown(p)

LEMMA WsSteps ==
  ASSUME [WsNext]_wsvars
  PROVE  [Next]_vars \/ \E p \in Procs : ComposeOnly(p)
<1>1. ASSUME NEW p \in Procs, WsStep(p)
      PROVE  Step(p) \/ ComposeOnly(p)
  BY <1>1 DEF WsStep, ComposeStep, PostUp, Step, UpStep, OtherStep, ComposeOnly
<1> QED
  BY <1>1 DEF WsNext, Next, wsvars

(* The types.                                                               *)
LEMMA ComposeOnlyType ==
  ASSUME TypeOK, NEW p \in Procs, ComposeOnly(p)
  PROVE  TypeOK'
<1> SUFFICES ASSUME ~Fail(p) PROVE TypeOK'
  BY FailType
<1>1. CASE ComposeUp(p)
  <2>1. CASE UNCHANGED budget
    BY <1>1, <2>1, MoveType DEF ComposeUp, Decision, Pcs
  <2>2. CASE Spend("edit") /\ Goto(p, "remove")
    <3>1. SharedOK' /\ PrivateOK'
      BY <1>1, <2>2, TypeParts, GotoType DEF ComposeUp, SharedOK, shared, host, Pcs
    <3> QED
      BY <2>2, <3>1, TypeParts, SpendType DEF Events
  <2> QED
    BY <1>1, <2>1, <2>2 DEF ComposeUp
<1>2. CASE ComposeCreate(p)
  <2>1. PrivateOK'
    BY <1>2, TypeParts, GotoType DEF ComposeCreate, Pcs
  <2> DEFINE fresh == [FreshContainer(p) EXCEPT !.running = FALSE]
  <2>2. fresh \in Containers /\ fresh.id = nextId /\ fresh.secrets = 0
    <3>1. nextId \in Nat \ {Unset, ByName} /\ NoVersion \in Versions \cup {NoVersion}
      BY TypeParts DEF SharedOK
    <3>2. [h \in HookNames |-> 0] \in [HookNames -> 0..MaxRuns] /\ NoProbe \in Probes
      BY LifecycleAssumption DEF Probes
    <3> QED
      BY <3>1, <3>2 DEF FreshContainer, Containers
  <2>3. ctr' = fresh /\ nextId' = nextId + 1
    BY <1>2 DEF ComposeCreate
  <2>4. nextId' \in Nat \ {Unset, ByName} /\ nextId < nextId' /\ 0 < nextKey
    BY <2>3, TypeParts DEF SharedOK, Unset, ByName
  <2>5. SharedOK' /\ BudgetOK'
    BY <1>2, <2>2, <2>3, <2>4, TypeParts DEF ComposeCreate, SharedOK, BudgetOK, host
  <2> QED
    BY <2>1, <2>5, TypeParts
<1>3. CASE NotCovered(p) \/ AutoDown(p)
  BY <1>3, MoveType DEF NotCovered, AutoDown, Pcs
<1>4. CASE FindService(p) \/ ComposeAttach(p)
  <2>1. CASE UNCHANGED cid
    BY <1>4, <2>1, MoveType DEF FindService, ComposeAttach, Pcs, memory, Found
  <2>2. CASE Present /\ cid' = [cid EXCEPT ![p] = ctr.id]
             /\ Goto(p, pc'[p]) /\ pc'[p] \in {"persist_load", "serve"}
             /\ UNCHANGED <<shared, cmd, my, copy, env, budget>>
    <3>1. ctr.id \in Nat
      BY <2>2, TypeParts DEF SharedOK, Containers, Present
    <3>2. PrivateOK'
      BY <2>2, <3>1, TypeParts DEF PrivateOK, Goto, Pcs
    <3>3. SharedOK' /\ BudgetOK'
      BY <2>2, TypeParts DEF SharedOK, BudgetOK, shared, host
    <3> QED
      BY <3>2, <3>3, TypeParts
  <2> QED
    BY <1>4, <2>1, <2>2, TypeParts
       DEF FindService, ComposeAttach, Found, memory, Goto, PrivateOK
<1>5. CASE PersistCompose(p)
  <2>1. SharedOK' /\ BudgetOK'
    BY <1>5, TypeParts DEF PersistCompose, SharedOK, BudgetOK
  <2>2. PrivateOK'
    BY <1>5, TypeParts DEF PersistCompose, SharedOK, PrivateOK, Goto, Pcs
  <2> QED
    BY <2>1, <2>2, TypeParts
<1>6. CASE PersistComposeSave(p)
  <2>1. st' \in States
    BY <1>6, TypeParts DEF PersistComposeSave, Save, SharedOK, PrivateOK
  <2>2. SharedOK' /\ PrivateOK'
    BY <1>6, <2>1, TypeParts, GotoType DEF PersistComposeSave, SharedOK, Pcs
  <2>3. BudgetOK'
    BY <1>6, TypeParts, SpendType DEF PersistComposeSave, BudgetOK, Events
  <2> QED
    BY <2>2, <2>3, TypeParts
<1>7. CASE ProbeFails(p)
  <2>1. SharedOK' /\ BudgetOK'
    BY <1>7, TypeParts DEF ProbeFails, SharedOK, BudgetOK, shared, host
  <2>2. copy[p] \in States /\ cid[p] \in Nat /\ my[p].version \in Versions /\ NoProbe \in Probes
    BY TypeParts DEF PrivateOK, Versions, Probes
  <2>3. [copy[p] EXCEPT !.probe = NoProbe, !.version = my[p].version, !.cid = cid[p]]
          \in States
    BY <2>2 DEF States
  <2>4. env' \in [Procs -> Probes] /\ copy' \in [Procs -> States]
    BY <1>7, <2>2, <2>3, TypeParts DEF ProbeFails, PrivateOK
  <2>5. PrivateOK'
    BY <1>7, <2>4, TypeParts DEF ProbeFails, PrivateOK, Goto, Pcs
  <2> QED
    BY <2>1, <2>5, TypeParts
<1>8. CASE ComposeStop(p) \/ ComposeRestart(p) \/ ComposeDown(p)
  <2>1. ctr' = NoCtr \/ (ctr' \in Containers /\ ctr'.id < nextId /\ ctr'.secrets < nextKey)
    BY <1>8, TypeParts
       DEF ComposeStop, ComposeRestart, ComposeDown, SharedOK, Containers, Present
  <2>2. CASE ComposeStop(p) \/ ComposeRestart(p)
    BY <2>1, <2>2, ContainerType DEF ComposeStop, ComposeRestart, Pcs
  <2>3. CASE ComposeDown(p)
    BY <2>1, <2>3, ContainerType DEF ComposeDown, Removed, Pcs
  <2> QED
    BY <1>8, <2>2, <2>3
<1> QED
  BY <1>1, <1>2, <1>3, <1>4, <1>5, <1>6, <1>7, <1>8 DEF ComposeOnly, ExecFails, Reject

LEMMA ComposeOnlyIsPrivate ==
  ASSUME TypeOK, NEW p \in Procs, ComposeOnly(p)
  PROVE  /\ \A q \in Procs \ {p} : Untouched(q)
         /\ pc'[p] # "mark"
<1> SUFFICES ASSUME ~Fail(p) PROVE /\ \A q \in Procs \ {p} : Untouched(q)
                                   /\ pc'[p] # "mark"
  BY TypeParts, QuitIsPrivate DEF Fail, Quit, Goto, PrivateOK
<1> USE TypeParts DEF PrivateOK, Goto, Untouched
<1>1. CASE ComposeUp(p) \/ ComposeCreate(p) \/ NotCovered(p) \/ FindService(p)
  BY <1>1 DEF ComposeUp, Decision, ComposeCreate, NotCovered, FindService, memory
<1>2. CASE PersistCompose(p) \/ PersistComposeSave(p) \/ ProbeFails(p) \/ ComposeAttach(p)
  BY <1>2 DEF PersistCompose, PersistComposeSave, ProbeFails, ComposeAttach, memory
<1>3. CASE ComposeStop(p) \/ ComposeRestart(p) \/ ComposeDown(p) \/ AutoDown(p)
  BY <1>3 DEF ComposeStop, ComposeRestart, ComposeDown, Removed, AutoDown, memory
<1> QED
  BY <1>1, <1>2, <1>3 DEF ComposeOnly, ExecFails, Reject

----------------------------------------------------------------------------
(* The container: it stays, stops, starts, goes away, or is a new one.       *)
LEMMA ComposeContainer ==
  ASSUME TypeOK, NEW p \in Procs, ComposeOnly(p)
  PROVE  SameRuns \/ (ComposeCreate(p) /\ ~Fail(p))
<1>1. Fail(p) => SameRuns
  BY DEF Fail, SameRuns, shared
<1> SUFFICES ASSUME ~Fail(p), ~ComposeCreate(p) PROVE SameRuns
  BY <1>1
<1>2. Present => ctr \in Containers /\ NoCtr # ctr
  BY DEF TypeOK, Present
<1>3. CASE ComposeStop(p) \/ ComposeRestart(p)
  <2>1. nextId' = nextId /\ (ctr' # ctr => Present)
    BY <1>3 DEF ComposeStop, ComposeRestart
  <2>2. Present => ctr'.id = ctr.id /\ ctr'.ran = ctr.ran
    BY <1>2, <1>3 DEF ComposeStop, ComposeRestart, Containers
  <2>3. ctr' = NoCtr \/ Present'
    BY DEF Present
  <2> QED
    BY <2>1, <2>2, <2>3 DEF SameRuns
<1>4. CASE ComposeDown(p)
  BY <1>4 DEF ComposeDown, SameRuns
<1>5. CASE ~(ComposeStop(p) \/ ComposeRestart(p) \/ ComposeDown(p))
  <2>1. ctr' = ctr /\ nextId' = nextId
    BY <1>5
       DEF ComposeOnly, ComposeUp, NotCovered, FindService, PersistCompose,
           PersistComposeSave, ExecFails, ProbeFails, ComposeAttach, Reject, AutoDown, shared
  <2> QED
    BY <2>1 DEF SameRuns
<1> QED
  BY <1>3, <1>4, <1>5

LEMMA ComposeStartsOver ==
  ASSUME TypeOK, NEW p \in Procs, ComposeCreate(p), ~Fail(p)
  PROVE  Ages /\ Ran' = {}
<1>1. ctr' = [FreshContainer(p) EXCEPT !.running = FALSE] /\ nextId' = nextId + 1
      /\ nextId \in Nat
  BY DEF ComposeCreate, TypeOK
<1>2. ctr'.id = nextId /\ ctr'.ran = [h \in HookNames |-> 0]
  BY <1>1 DEF FreshContainer
<1>3. Ran' = {}
  BY <1>2 DEF Ran
<1>4. nextId <= nextId'
  BY <1>1
<1> QED
  BY <1>2, <1>3, <1>4 DEF Ages

LEMMA ComposeOnlyAges ==
  ASSUME TypeOK, TypeOK', Truth, NEW p \in Procs, ComposeOnly(p)
  PROVE  Ages /\ (Present' => Ran' \subseteq Configured)
BY ComposeContainer, ComposeStartsOver, SameRunsAge

(* What p itself knows after its step.                                      *)
LEMMA ComposeOnlyIsHonest ==
  ASSUME TypeOK, TypeOK', Ages, Truth, NEW p \in Procs, ComposeOnly(p)
  PROVE  Honest(p)'
<1> USE DEF Truth
<1>1. CASE Fail(p)
  BY <1>1, QuitIsHonest DEF Fail, Honest
<1>2. CASE cid' = cid /\ copy' = copy /\ cmd' = cmd /\ pc'[p] \notin Promising
  BY <1>2, KeepsHonest
<1>3. CASE FindService(p) \/ ComposeAttach(p)
  <2>1. CASE Present /\ cid'[p] = ctr.id /\ copy' = copy /\ cmd' = cmd /\ shared' = shared
             /\ pc'[p] \in {"persist_load", "serve"}
    <3>1. ctr' = ctr /\ nextId' = nextId /\ cid'[p] < nextId'
      BY <2>1 DEF shared, TypeOK, Present
    <3>2. Truthful(copy[p])'
      BY <2>1, <3>1 DEF Honest, Truthful, Present, Ran
    <3> QED
      BY <2>1, <3>1, <3>2 DEF Honest, Has
  <2> QED
    BY <1>1, <1>2, <1>3, <2>1
       DEF FindService, ComposeAttach, Found, memory, Goto, TypeOK, Promising
<1>4. CASE PersistCompose(p)
  <2>1. copy'[p] = st /\ pc'[p] = "persist_save" /\ cid'[p] = cid[p] /\ cmd' = cmd
    BY <1>4 DEF PersistCompose, Goto, TypeOK
  <2>2. Truthful(copy[p])'
    BY <2>1, TruthfulAges DEF Truthful, TypeOK
  <2>3. cid'[p] < nextId'
    BY <1>4 DEF PersistCompose, Honest
  <2> QED
    BY <2>1, <2>2, <2>3 DEF Honest, Has
<1>5. CASE ProbeFails(p)
  <2>1. cid' = cid /\ cmd' = cmd /\ nextId' = nextId /\ ctr' = ctr
        /\ pc'[p] = "probe_save"
    BY <1>5 DEF ProbeFails, shared, Goto, TypeOK
  <2>2. copy'[p].hooks = copy[p].hooks /\ copy'[p].cid = cid[p] /\ copy'[p].probe = NoProbe
    BY <1>5 DEF ProbeFails, TypeOK, States
  <2>3. Truthful(copy[p])'
    BY <1>5, <2>1, <2>2 DEF ProbeFails, Gone, Truthful, Honest, Present, Ran
  <2> QED
    BY <2>1, <2>3 DEF Honest, Has
<1>6. CASE PersistComposeSave(p)
  <2>1. pc'[p] = "hooks"
    BY <1>6 DEF PersistComposeSave, Goto, TypeOK, Honest
  <2> QED
    BY <1>2, <1>6, <2>1 DEF PersistComposeSave, memory, Promising
<1>7. CASE ComposeUp(p) \/ ComposeCreate(p) \/ NotCovered(p)
  BY <1>1, <1>2, <1>7 DEF ComposeUp, Decision, ComposeCreate, NotCovered, memory, Goto,
                          TypeOK, Promising
<1>8. CASE ComposeStop(p) \/ ComposeRestart(p) \/ ComposeDown(p) \/ AutoDown(p)
  BY <1>1, <1>2, <1>8 DEF ComposeStop, ComposeRestart, ComposeDown, Removed, AutoDown,
                          memory, Goto, TypeOK, Promising
<1> QED
  BY <1>1, <1>3, <1>4, <1>5, <1>6, <1>7, <1>8 DEF ComposeOnly, ExecFails, Reject

(* Only persistCompose writes state.json, and it writes what it has loaded.  *)
LEMMA ComposeOnlyState ==
  ASSUME NEW p \in Procs, ComposeOnly(p)
  PROVE  st' = st \/ st' = copy[p]
BY DEF ComposeOnly, ComposeUp, ComposeCreate, NotCovered, FindService, PersistCompose,
       PersistComposeSave, ExecFails, ProbeFails, ComposeAttach, ComposeStop,
       ComposeRestart, ComposeDown, Reject, AutoDown, Fail, Save, shared, host

LEMMA ComposeOnlyInv ==
  ASSUME Inv, NEW p \in Procs, ComposeOnly(p)
  PROVE  Inv'
<1>1. TypeOK' /\ (\A q \in Procs \ {p} : Untouched(q)) /\ pc'[p] # "mark"
  BY ComposeOnlyType, ComposeOnlyIsPrivate DEF Inv
<1>2. Ages /\ (Present' => Ran' \subseteq Configured)
  BY <1>1, ComposeOnlyAges DEF Inv
<1>3. Pending'
  BY <1>1, UnmarkedIsPrivate DEF Inv, Pending, Untouched
<1>4. Truthful(st)'
  <2>1. copy[p] \in States /\ st \in States /\ Truthful(st) /\ Truthful(copy[p])
    BY DEF Inv, TypeOK, Truth, Honest
  <2> QED
    BY <1>1, <1>2, <2>1, ComposeOnlyState, TruthfulAges DEF Inv, Truthful
<1>5. ASSUME NEW q \in Procs
      PROVE  Honest(q)'
  BY <1>1, <1>2, ComposeOnlyIsHonest, HonestAges DEF Inv, Truth
<1> QED
  BY <1>1, <1>2, <1>3, <1>4, <1>5 DEF Inv, Truth

----------------------------------------------------------------------------
(* The types, and the identity of containers and keys that they carry, for   *)
(* workspaces of either kind.                                               *)
THEOREM WorkspaceTypes == WsSpec => []TypeOK
<1>1. WsInit => TypeOK /\ Pending
  BY InitType DEF WsInit, Init, Pending
<1>2. TypeOK /\ Pending /\ [WsNext]_wsvars => TypeOK' /\ Pending'
  <2> SUFFICES ASSUME TypeOK, Pending, [WsNext]_wsvars PROVE TypeOK' /\ Pending'
    OBVIOUS
  <2>1. ASSUME NEW p \in Procs, ComposeOnly(p)
        PROVE  TypeOK' /\ Pending'
    BY <2>1, ComposeOnlyType, ComposeOnlyIsPrivate, UnmarkedIsPrivate DEF Pending, Untouched
  <2> QED
    BY <2>1, WsSteps, TypeStep, PendingStep
<1> QED
  BY <1>1, <1>2, PTL DEF WsSpec

LEMMA WsInvHolds ==
  ASSUME NoSkip, FixedHooks
  PROVE  WsSpec => []Inv
<1>1. WsInit => Inv
  BY InitType, InitTruth DEF WsInit, Inv, Init, Pending
<1>2. Inv /\ [WsNext]_wsvars => Inv'
  BY WsSteps, InvStep, ComposeOnlyInv
<1> QED
  BY <1>1, <1>2, PTL DEF WsSpec

(* Whatever the kind of the workspace, and however commands interleave, fail *)
(* or die: state.json never claims a create hook for the present container  *)
(* that has not run in it, so no `up` wrongly leaves a hook out.            *)
THEOREM WorkspaceMarkersTruthful ==
  ASSUME NoSkip, FixedHooks
  PROVE  WsSpec => []MarkersTruthful
<1>1. Inv => MarkersTruthful
  BY DEF Inv, Truth, Truthful, MarkersTruthful
<1> QED
  BY <1>1, WsInvHolds, PTL

(* Likewise the environment cached for the present container was probed      *)
(* after every create hook that has run in it.                              *)
THEOREM WorkspaceProbeReflectsHooks ==
  ASSUME NoSkip, FixedHooks
  PROVE  WsSpec => []ProbeReflectsHooks
<1>1. Inv => ProbeReflectsHooks
  BY DEF Inv, Truth, Truthful, ProbeReflectsHooks
<1> QED
  BY <1>1, WsInvHolds, PTL

----------------------------------------------------------------------------
(* Commands for other services.  Only these four take services at all.      *)
TakesServices ==
  \A c \in Commands :
    "others" \in c.flags => c.kind \in {"up", "stop", "restart", "down"}

(* Such a command gets nowhere but here, and past its first check only for  *)
(* a compose project.                                                       *)
LimitedAt(p) ==
  Limited(p) /\ ~project.pulls =>
    /\ cmd[p].kind \notin {"ssh", "keys"}
    /\ \/ pc[p] \in {"find", "stop", "restart", "down"}
       \/ pc[p] \in {"persist", "ok"} /\ project.compose

StaysLimited == \A p \in Procs : LimitedAt(p)

LEMMA IdleDoesNothing ==
  ASSUME NEW p \in Procs, WsStep(p)
  PROVE  pc[p] # "idle"
BY DEF WsStep, ComposeStep, Step, UpStep, HookStep, ProvisionStep, OtherStep, PostUp,
       Find, StartContainer, RemoveContainer, CreateContainer, PersistLoad, PersistSave,
       Resolve, LoadHooks, RunHook, MarkHook, PostStart, SaveHooks, LoadProbe, RunProbe,
       SaveProbe, EnsureKeys, PrepareAgent, CopyAgent, WriteSecrets, WriteSSHConfig,
       Attach, Reattach, Serve, StopFind, Stop, RestartFind, Restart, DownFind,
       DownRemove, PurgeState, PurgeSSHConfig, RotateKeys, Return,
       ComposeUp, ComposeCreate, NotCovered, FindService, PersistCompose,
       PersistComposeSave, ExecFails, Executes, ProbeFails, ComposeAttach, ComposeStop,
       ComposeRestart, ComposeDown, Reject, AutoDown

LEMMA StepKeepsCommand ==
  ASSUME TypeOK, NEW p \in Procs, WsStep(p)
  PROVE  cmd' = cmd \/ pc'[p] = "idle"
<1>1. CASE Fail(p)
  BY <1>1, TypeParts DEF Fail, Quit, Goto, PrivateOK
<1>2. CASE ComposeOnly(p) /\ ~Fail(p)
  BY <1>2 DEF ComposeOnly, ComposeUp, ComposeCreate, NotCovered, FindService,
         PersistCompose, PersistComposeSave, ExecFails, ProbeFails, ComposeAttach,
         ComposeStop, ComposeRestart, ComposeDown, Reject, AutoDown, memory
<1>3. CASE Step(p) /\ ~Fail(p)
  BY <1>3 DEF Step, UpStep, HookStep, ProvisionStep, OtherStep,
         Find, StartContainer, RemoveContainer, CreateContainer, PersistLoad, PersistSave,
         Resolve, LoadHooks, RunHook, MarkHook, PostStart, SaveHooks, LoadProbe, RunProbe,
         SaveProbe, EnsureKeys, PrepareAgent, CopyAgent, WriteSecrets, WriteSSHConfig,
         Attach, Reattach, Serve, StopFind, Stop, RestartFind, Restart, DownFind,
         DownRemove, PurgeState, PurgeSSHConfig, RotateKeys, Return, memory
<1> QED
  BY <1>1, <1>2, <1>3 DEF WsStep, ComposeStep, PostUp, Step, UpStep, OtherStep, ComposeOnly

LEMMA LimitedSteps ==
  ASSUME TypeOK, NEW p \in Procs, WsStep(p), LimitedAt(p), Limited(p), ~project.pulls,
         UNCHANGED project
  PROVE  UNCHANGED <<ctr, host>> /\ LimitedAt(p)'
<1>1. CASE Fail(p)
  BY <1>1, TypeParts DEF Fail, Quit, Goto, PrivateOK, shared, LimitedAt, Limited
<1>2. Rejected(p) => Fail(p)
  BY DEF WsStep, Reject
<1>3. CASE ~Fail(p)
  <2>1. project.compose /\ Named(p) /\ ~Covers(p) /\ ~Has(p, "purge")
    BY <1>2, <1>3 DEF Rejected, Named, Limited, Covers, Targeted
  <2>2. AutoDown(p) \/ ComposeStep(p)
    BY <1>3, <2>1 DEF WsStep, Reject
  <2>3. pc[p] \in {"find", "stop", "restart", "down", "persist", "ok"}
        /\ cmd[p].kind # "ssh" /\ cmd[p].kind # "keys"
    BY DEF LimitedAt
  <2>4. AutoDown(p) \/ ComposeUp(p) \/ NotCovered(p) \/ ComposeStop(p) \/ ComposeRestart(p)
        \/ ComposeDown(p)
    BY <1>3, <2>1, <2>2, <2>3
       DEF ComposeStep, StartContainer, RemoveContainer, ComposeCreate, FindService,
           PersistCompose, PersistComposeSave, PostUp, ExecFails, Executes, ProbeFails,
           HookStep, LoadHooks, RunHook, MarkHook, PostStart, SaveHooks, LoadProbe,
           RunProbe, SaveProbe, ProvisionStep, EnsureKeys, PrepareAgent, CopyAgent,
           WriteSecrets, WriteSSHConfig, Serve, ComposeAttach, PurgeState,
           PurgeSSHConfig, RotateKeys, Return
  <2>5. UNCHANGED <<ctr, host, cmd>>
        /\ pc' = [pc EXCEPT ![p] = pc'[p]] /\ pc'[p] \in {"persist", "ok", "stop"}
    BY <1>3, <2>1, <2>3, <2>4, TypeParts
       DEF AutoDown, ComposeUp, Decision, NotCovered, ComposeStop, ComposeRestart,
           ComposeDown, Removed, Named, Targeted, Limited, Goto, PrivateOK, shared, memory
  <2> QED
    BY <2>1, <2>3, <2>5, TypeParts DEF LimitedAt, Limited, Has, PrivateOK
<1> QED
  BY <1>1, <1>3

(* "Naming services only changes which containers the verb touches": while  *)
(* the only commands that run are for other services, none of which needs   *)
(* the workspace's, no step of theirs touches the workspace's container,    *)
(* state.json, the keys or the ssh config.                                  *)
THEOREM LimitedCommandsKeepWorkspace ==
  ASSUME TakesServices
  PROVE  WsSpec => LimitedKeepsWorkspace
<1> DEFINE I == TypeOK /\ Pending /\ StaysLimited
<1>1. WsInit => I
  BY InitType DEF WsInit, Init, Pending, StaysLimited, LimitedAt, Limited
<1>2. I /\ [WsNext]_wsvars => TypeOK' /\ Pending'
  <2> SUFFICES ASSUME I, [WsNext]_wsvars PROVE TypeOK' /\ Pending'
    OBVIOUS
  <2>1. ASSUME NEW p \in Procs, ComposeOnly(p)
        PROVE  TypeOK' /\ Pending'
    BY <2>1, ComposeOnlyType, ComposeOnlyIsPrivate, UnmarkedIsPrivate DEF Pending, Untouched
  <2> QED
    BY <2>1, WsSteps, TypeStep, PendingStep
<1>3. I /\ [WsNext]_wsvars => StaysLimited'
  <2> SUFFICES ASSUME I, [WsNext]_wsvars, NEW q \in Procs PROVE LimitedAt(q)'
    BY DEF StaysLimited
  <2>1. project' = project
    BY DEF WsNext, wsvars
  <2>2. CASE pc'[q] = pc[q] /\ cmd'[q] = cmd[q]
    BY <2>1, <2>2 DEF StaysLimited, LimitedAt, Limited, Has
  <2>3. ASSUME NEW p \in Procs, WsStep(p)
        PROVE  LimitedAt(q)'
    <3>1. CASE q # p
      <4>1. Untouched(q)
        BY <2>3, <3>1, StepIsPrivate, ComposeOnlyIsPrivate
           DEF WsStep, ComposeStep, PostUp, Step, UpStep, OtherStep, ComposeOnly
      <4> QED
        BY <2>2, <4>1 DEF Untouched
    <3>2. CASE q = p
      <4>1. CASE Limited(p) /\ ~project.pulls
        BY <2>1, <2>3, <3>2, <4>1, LimitedSteps DEF StaysLimited
      <4>2. CASE project.pulls
        BY <2>1, <3>2, <4>2 DEF LimitedAt
      <4>3. CASE ~Limited(p)
        <5>1. cmd'[p] = cmd[p] \/ pc'[p] = "idle"
          BY <2>3, StepKeepsCommand
        <5>2. pc[p] # "idle"
          BY <2>3, IdleDoesNothing
        <5> QED
          BY <3>2, <4>3, <5>1, <5>2 DEF LimitedAt, Limited, Has
      <4> QED
        BY <4>1, <4>2, <4>3
    <3> QED
      BY <3>1, <3>2
  <2>4. ASSUME NEW p \in Procs, Abort(p)
        PROVE  LimitedAt(q)'
    BY <2>2, <2>4, TypeParts DEF Abort, Quit, Goto, PrivateOK, LimitedAt, Limited
  <2>5. ASSUME NEW p \in Procs, NEW c \in Commands, Begin(p, c)
        PROVE  LimitedAt(q)'
    <3>1. CASE q = p
      <4>1. cmd'[p] = c /\ pc'[p] = Entry(c)
        BY <2>5, TypeParts DEF Begin, Goto, PrivateOK
      <4>2. "others" \in c.flags => c.kind \in {"up", "stop", "restart", "down"}
        BY DEF TakesServices
      <4> QED
        BY <3>1, <4>1, <4>2 DEF LimitedAt, Limited, Has, Entry
    <3> QED
      BY <2>2, <2>5, <3>1, TypeParts DEF Begin, Goto, PrivateOK
  <2> QED
    BY <2>2, <2>3, <2>4, <2>5 DEF WsNext, Edit, Exit, private, memory, wsvars, vars
<1>4. I /\ [WsNext]_wsvars
        => [(\A p \in Procs : pc[p] # "idle" => Limited(p)) /\ ~project.pulls /\ ~Exit
              => UNCHANGED <<ctr, host>>]_wsvars
  <2> SUFFICES ASSUME I, WsNext, \A p \in Procs : pc[p] # "idle" => Limited(p),
                      ~project.pulls, ~Exit
               PROVE  UNCHANGED <<ctr, host>>
    OBVIOUS
  <2>1. ASSUME NEW p \in Procs, WsStep(p)
        PROVE  UNCHANGED <<ctr, host>>
    <3>1. Limited(p) /\ LimitedAt(p)
      BY <2>1, IdleDoesNothing DEF StaysLimited
    <3> QED
      BY <2>1, <3>1, LimitedSteps DEF WsNext
  <2> QED
    BY <2>1 DEF WsNext, Abort, Begin, Edit, shared
<1>5. I /\ [WsNext]_wsvars => I'
  BY <1>2, <1>3
<1> QED
  BY <1>1, <1>4, <1>5, PTL DEF WsSpec, LimitedKeepsWorkspace

----------------------------------------------------------------------------
(* One devc after the other, each of which may fail or be killed anywhere:  *)
(* what a bring-up has done by the time it gets to a call.                  *)
OneAtATime == \A p, q \in Procs : p = q

Elsewhere == {"attach", "reattach", "serve", "stop", "stopping", "restart",
              "restarting", "down", "removing", "purge", "purge_ssh", "rotate"}
Marking == {"run", "mark", "poststart", "final"}
Providing == {"keys", "prepare", "copy", "secrets", "sshconf"}
Recorded == {"probe", "probing", "probe_save"} \cup Providing

(* p goes by an id, or by a name that no earlier `up` went by.              *)
Sure(p) == cid[p] = ByName => Used("failure") <= 1

(* The container is there when its identity is resolved.                    *)
Looking(p) ==
  /\ pc[p] \in {"persist", "persist_save", "resolve"} /\ ~project.compose => Present
  /\ pc[p] \in {"persist_load", "persist_save"} /\ project.compose
       => Present /\ cid[p] = ctr.id
  /\ pc[p] = "persist_save" => copy[p] = st
  /\ pc[p] \in {"hooks"} \cup Marking \cup Recorded
       => Present /\ cid[p] \in {ctr.id, ByName}

(* The markers p works with are of this container, and true of it.          *)
Hooking(p) ==
  /\ pc[p] = "hooks" /\ cid[p] = ByName /\ Sure(p) => st.cid # ByName
  /\ pc[p] \in Marking => copy[p].cid = cid[p]
  /\ pc[p] \in Marking /\ Sure(p) => copy[p].hooks \subseteq Ran
  /\ pc[p] = "mark" => NextHook(p) \in Ran
  /\ pc[p] \in {"poststart", "final"} => my[p].hooks \subseteq copy[p].hooks

(* The hooks are done and recorded, and the container gets what it needs.   *)
Provided(p) ==
  /\ pc[p] \in Recorded => st.cid = cid[p] /\ my[p].hooks \subseteq st.hooks
  /\ pc[p] \in Recorded /\ Sure(p) => my[p].hooks \subseteq Ran
  /\ pc[p] \in {"probing", "probe_save"} => copy[p].hooks = st.hooks /\ copy[p].cid = cid[p]
  /\ pc[p] \in {"secrets", "sshconf"} => ctr.agent = my[p].version
  /\ pc[p] = "sshconf" => ctr.secrets = keys /\ ctr.env = env[p]
  /\ pc[p] = "ok" /\ cmd[p].kind = "up" /\ Covers(p) /\ Sure(p) => Complete(p)

Stage(p) ==
  /\ ~Has(p, "skip")
  /\ pc[p] \in Elsewhere => cmd[p].kind # "up"
  /\ Looking(p) /\ Hooking(p) /\ Provided(p)

(* As long as no call has failed, nothing is filed under the name, and with *)
(* compose nothing ever is.                                                 *)
NameUnused ==
  /\ Used("failure") >= 0
  /\ project.compose \/ Used("failure") = 0 =>
       st.cid # ByName /\ \A p \in Procs : copy[p].cid # ByName /\ cid[p] # ByName

MarksTrue ==
  /\ st.cid < nextId
  /\ Present /\ st.cid = ctr.id => st.hooks \subseteq Ran

LoneInv == TypeOK /\ Pending /\ NameUnused /\ MarksTrue /\ \A p \in Procs : Stage(p)

(* What a step costs.                                                       *)
LEMMA WsStepBudget ==
  ASSUME NEW p \in Procs, WsStep(p)
  PROVE  budget' = budget \/ Spend("failure") \/ Spend("edit")
<1>1. CASE Fail(p)
  BY <1>1 DEF Fail
<1>2. CASE ComposeOnly(p) /\ ~Fail(p)
  BY <1>2 DEF ComposeOnly, ComposeUp, ComposeCreate, NotCovered, FindService,
         PersistCompose, PersistComposeSave, ExecFails, ProbeFails, ComposeAttach,
         ComposeStop, ComposeRestart, ComposeDown, Reject, AutoDown
<1>3. CASE Step(p) /\ ~Fail(p)
  BY <1>3 DEF Step, UpStep, HookStep, ProvisionStep, OtherStep,
         Find, StartContainer, RemoveContainer, CreateContainer, PersistLoad, PersistSave,
         Resolve, LoadHooks, RunHook, MarkHook, PostStart, SaveHooks, LoadProbe, RunProbe,
         SaveProbe, EnsureKeys, PrepareAgent, CopyAgent, WriteSecrets, WriteSSHConfig,
         Attach, Reattach, Serve, StopFind, Stop, RestartFind, Restart, DownFind,
         DownRemove, PurgeState, PurgeSSHConfig, RotateKeys, Return
<1> QED
  BY <1>1, <1>2, <1>3 DEF WsStep, ComposeStep, PostUp, Step, UpStep, OtherStep, ComposeOnly

LEMMA EventsAreSpent ==
  ASSUME TypeOK, [WsNext]_wsvars, NEW e \in Events
  PROVE  Used(e) \in Int /\ Used(e)' \in Int /\ Used(e) <= Used(e)'
<1>1. Budget[e] \in Nat /\ budget[e] \in Nat /\ budget \in [Events -> Nat]
  BY LifecycleAssumption DEF TypeOK
<1>2. budget' = budget \/ \E x \in Events : Spend(x)
  <2>1. CASE \E p \in Procs : WsStep(p)
    BY <2>1, WsStepBudget DEF Events
  <2> QED
    BY <2>1 DEF WsNext, wsvars, vars, Abort, Begin, Edit, Exit, Events
<1>3. CASE budget' = budget
  BY <1>1, <1>3 DEF Used
<1>4. ASSUME NEW x \in Events, Spend(x)
      PROVE  Used(e) \in Int /\ Used(e)' \in Int /\ Used(e) <= Used(e)'
  <2>1. budget'[e] = budget[e] \/ budget'[e] = budget[e] - 1
    BY <1>1, <1>4 DEF Spend
  <2> QED
    BY <1>1, <2>1 DEF Used
<1> QED
  BY <1>2, <1>3, <1>4

LEMMA UsedGrows ==
  ASSUME TypeOK, [WsNext]_wsvars
  PROVE  Used("failure") \in Int /\ Used("failure")' \in Int
         /\ Used("failure") <= Used("failure")'
BY EventsAreSpent DEF Events

LEMMA EventIsUsed ==
  ASSUME TypeOK, NEW e \in Events, Spend(e)
  PROVE  Used(e)' = Used(e) + 1
<1>1. Budget[e] \in Nat /\ budget[e] \in Nat /\ budget'[e] = budget[e] - 1
  BY LifecycleAssumption DEF TypeOK, Spend
<1> QED
  BY <1>1 DEF Used

LEMMA FailureIsUsed ==
  ASSUME TypeOK, Spend("failure")
  PROVE  Used("failure")' = Used("failure") + 1
BY EventIsUsed DEF Events

(* The container that ages under a step of the workspace.                   *)
LEMMA WsAges ==
  ASSUME TypeOK, TypeOK', [WsNext]_wsvars
  PROVE  Ages
<1>1. ASSUME NEW p \in Procs, Step(p)
      PROVE  Ages
  <2>1. CASE SameRuns
    BY <2>1, SameRunsAges
  <2>2. CASE CreateContainer(p) /\ ~Fail(p)
    BY <2>2, CreateStartsOver
  <2>3. CASE RunHook(p) /\ Unmarked(p) # {} /\ ~Fail(p)
    <3>1. /\ Present /\ Present' /\ ctr'.id = ctr.id /\ nextId' = nextId
          /\ Ran' = Ran \cup {NextHook(p)}
      BY <2>3, RunHookRan
    <3>2. nextId \in Nat
      BY DEF TypeOK
    <3> QED
      BY <3>1, <3>2 DEF Ages
  <2> QED
    BY <1>1, <2>1, <2>2, <2>3, ContainerStep
<1>2. ASSUME NEW p \in Procs, ComposeOnly(p)
      PROVE  Ages
  BY <1>2, ComposeContainer, ComposeStartsOver, SameRunsAges
<1>3. CASE \/ \E p \in Procs : Abort(p) \/ \E c \in Commands : Begin(p, c)
           \/ Edit \/ Exit \/ UNCHANGED vars
  <2>1. SameRuns
    BY <1>3 DEF Exit, Edit, Abort, Begin, SameRuns, vars, shared, host, Running, Present,
                TypeOK, Containers
  <2> QED
    BY <2>1, SameRunsAges
<1> QED
  BY <1>1, <1>2, <1>3, WsSteps DEF Next

(* The invariant holds after a step of the only process when it holds of    *)
(* what the step changes.                                                   *)
LEMMA LoneStep ==
  ASSUME OneAtATime, LoneInv, TypeOK', Pending', [WsNext]_wsvars, NEW p \in Procs, Stage(p)',
         st'.cid = ByName => st.cid = ByName \/ copy[p].cid = ByName \/ cid[p] = ByName,
         copy'[p].cid = ByName => st.cid = ByName \/ copy[p].cid = ByName \/ cid[p] = ByName,
         cid'[p] = ByName => cid[p] = ByName \/ (~project.compose /\ Used("failure")' >= 1),
         st' = st \/ MarksTrue'
  PROVE  LoneInv'
<1>1. \A q \in Procs : q = p
  BY DEF OneAtATime
<1>2. project' = project
  BY DEF WsNext, wsvars
<1>3. NameUnused'
  BY <1>1, <1>2, UsedGrows DEF LoneInv, NameUnused
<1>4. MarksTrue'
  <2>1. st.cid \in Nat /\ nextId \in Nat /\ nextId' \in Nat
    BY DEF LoneInv, TypeOK, States
  <2> QED
    BY <2>1, WsAges DEF LoneInv, MarksTrue, Ages
<1> QED
  BY <1>1, <1>3, <1>4 DEF LoneInv

(* A call with no promise: only the command line counts.                    *)
Promised == {"persist", "persist_load", "persist_save", "resolve", "hooks", "ok"}
              \cup Marking \cup Recorded

LEMMA StageElsewhere ==
  ASSUME NEW p \in Procs, ~Has(p, "skip"), cmd'[p] = cmd[p],
         pc'[p] \notin Promised \/ (pc'[p] = "ok" /\ cmd[p].kind # "up"),
         pc'[p] \in Elsewhere => cmd[p].kind # "up"
  PROVE  Stage(p)'
BY DEF Stage, Looking, Hooking, Provided, Promised, Has, Marking, Recorded, Providing

LEMMA StageQuit ==
  ASSUME TypeOK, NEW p \in Procs, Quit(p)
  PROVE  Stage(p)'
<1>1. pc'[p] = "idle" /\ cmd'[p] = NoCommand
  BY DEF Quit, Goto, TypeOK
<1> QED
  BY <1>1 DEF Stage, Looking, Hooking, Provided, Elsewhere, Has, NoCommand, Marking,
              Recorded, Providing

(* A step of the only process.                                              *)
StepOf(p) == OneAtATime /\ LoneInv /\ TypeOK' /\ Pending' /\ WsNext

LEMMA LoneFails ==
  ASSUME NEW p \in Procs, StepOf(p), Fail(p)
  PROVE  LoneInv'
<1>1. Stage(p)' /\ st' = st
  BY StageQuit DEF StepOf, LoneInv, Fail, shared, host
<1>2. copy'[p].cid # ByName /\ cid'[p] # ByName
  BY DEF Fail, Quit, StepOf, LoneInv, TypeOK, ZeroState, Unset, ByName
<1> QED
  BY <1>1, <1>2, LoneStep DEF StepOf

(* Steps that only lead to another call, or touch the container alone.      *)
LEMMA LoneMoves ==
  ASSUME NEW p \in Procs, StepOf(p), Stage(p)', st' = st, UNCHANGED <<copy, cid>>
  PROVE  LoneInv'
BY LoneStep DEF StepOf

LEMMA StagePersist ==
  ASSUME NEW p \in Procs, ~Has(p, "skip"), cmd'[p] = cmd[p], pc'[p] = "persist",
         project'.compose \/ Present'
  PROVE  Stage(p)'
BY DEF Stage, Looking, Hooking, Provided, Has, Marking, Recorded, Providing, Elsewhere

LEMMA LoneFinds ==
  ASSUME NEW p \in Procs, StepOf(p), ~Fail(p),
         \/ ~project.compose /\ (Find(p) \/ CreateContainer(p))
         \/ StartContainer(p) \/ RemoveContainer(p)
         \/ project.compose /\ (ComposeUp(p) \/ ComposeCreate(p))
  PROVE  LoneInv'
<1>1. /\ UNCHANGED <<st, cmd, copy, cid, project>> /\ ~Has(p, "skip")
      /\ pc'[p] \in {"create", "remove", "start", "persist"}
  BY DEF StepOf, LoneInv, Stage, WsNext, Find, Decide, CreateContainer, StartContainer,
         RemoveContainer, ComposeUp, Decision, ComposeCreate, memory, shared, host, TypeOK, Goto
<1>2. pc'[p] = "persist" => project.compose \/ Present'
  <2>1. CASE Find(p)
    BY <2>1 DEF Find, Decide, Goto, StepOf, LoneInv, TypeOK, Present, shared
  <2>2. CASE CreateContainer(p)
    <3>1. nextId \in Nat \ {Unset, ByName} /\ ctr'.id = nextId
      BY <2>2 DEF CreateContainer, FreshContainer, StepOf, LoneInv, TypeOK
    <3>2. ctr' = FreshContainer(p) /\ FreshContainer(p) \in Containers
      <4>1. [h \in HookNames |-> 0] \in [HookNames -> 0..MaxRuns] /\ NoProbe \in Probes
        BY LifecycleAssumption DEF Probes
      <4> QED
        BY <2>2, <3>1, <4>1 DEF CreateContainer, FreshContainer, Containers
    <3> QED
      BY <3>2, NoCtrAssumption DEF Present
  <2>3. CASE StartContainer(p)
    <3>1. ctr \in Containers /\ ctr' \in Containers
      BY <2>3 DEF StartContainer, Present, StepOf, LoneInv, TypeOK, Containers
    <3> QED
      BY <3>1, NoCtrAssumption DEF Present
  <2>4. CASE RemoveContainer(p)
    BY <2>4 DEF RemoveContainer, Goto, StepOf, LoneInv, TypeOK
  <2> QED
    BY <2>1, <2>2, <2>3, <2>4
<1>3. Stage(p)'
  <2>1. CASE pc'[p] = "persist"
    BY <1>1, <1>2, <2>1, StagePersist
  <2>2. CASE pc'[p] # "persist"
    BY <1>1, <2>2, StageElsewhere DEF Promised, Marking, Recorded, Providing, Elsewhere
  <2> QED
    BY <2>1, <2>2
<1> QED
  BY <1>1, <1>3, LoneMoves

(* The other commands, and a bring-up of other services.                    *)
LEMMA LoneElsewhere ==
  ASSUME NEW p \in Procs, StepOf(p), ~Fail(p),
         \/ OtherStep(p) \/ ComposeAttach(p) \/ ComposeStop(p) \/ ComposeRestart(p)
         \/ ComposeDown(p) \/ AutoDown(p)
  PROVE  LoneInv'
<1> USE DEF StepOf, LoneInv
<1>1. /\ cmd' = cmd /\ copy' = copy /\ pc[p] \in Elsewhere /\ pc'[p] \in Elsewhere \cup {"ok", "find"}
      /\ ~Has(p, "skip") /\ cmd[p].kind # "up"
  <2>1. Return(p) => Fail(p)
    BY DEF Return
  <2>2. /\ cmd' = cmd /\ copy' = copy /\ pc[p] \in Elsewhere
        /\ pc'[p] \in Elsewhere \cup {"ok", "find"}
    BY <2>1 DEF OtherStep, Attach, Reattach, Serve, StopFind, Stop, RestartFind, Restart,
           DownFind, DownRemove, PurgeState, PurgeSSHConfig, RotateKeys, Removed,
           ComposeAttach, ComposeStop, ComposeRestart, ComposeDown, AutoDown,
           memory, Goto, TypeOK, Elsewhere
  <2> QED
    BY <2>2 DEF Stage
<1>2. Stage(p)'
  BY <1>1, StageElsewhere DEF Promised, Elsewhere, Marking, Recorded, Providing
<1>3. cid' = cid \/ (cid'[p] = ctr.id /\ Present)
  BY <1>1 DEF OtherStep, Attach, Reattach, Serve, StopFind, Stop, RestartFind, Restart,
         DownFind, DownRemove, PurgeState, PurgeSSHConfig, RotateKeys, Return, Fail,
         ComposeAttach, ComposeStop, ComposeRestart, ComposeDown, AutoDown, Found,
         memory, TypeOK
<1>4. cid'[p] = ByName => cid[p] = ByName
  BY <1>3 DEF TypeOK, Present, Containers
<1>5. st' = st \/ (PurgeState(p) /\ st' = ZeroState /\ nextId' = nextId)
  BY DEF OtherStep, Attach, Reattach, Serve, StopFind, Stop, RestartFind, Restart,
         DownFind, DownRemove, PurgeState, PurgeSSHConfig, RotateKeys, Return, Fail,
         ComposeAttach, ComposeStop, ComposeRestart, ComposeDown, AutoDown,
         shared, host
<1>6. ASSUME st' = ZeroState, nextId' = nextId
      PROVE  MarksTrue' /\ st'.cid # ByName
  <2>1. st'.cid = 0 /\ nextId' \in Nat /\ nextId' # 0 /\ (Present' => ctr'.id # 0)
    BY <1>6 DEF ZeroState, TypeOK, Unset, Present, Containers
  <2> QED
    BY <2>1 DEF MarksTrue, ByName
<1> QED
  BY <1>1, <1>2, <1>4, <1>5, <1>6, LoneStep

(* The identity of the container is resolved, and what was loaded is saved.  *)
LEMMA LonePersists ==
  ASSUME NEW p \in Procs, StepOf(p), ~project.compose,
         PersistLoad(p) \/ PersistSave(p) \/ Resolve(p)
  PROVE  LoneInv'
<1> USE DEF StepOf, LoneInv
<1>1. /\ UNCHANGED <<ctr, nextId, cmd, my, project>> /\ ~Has(p, "skip") /\ Looking(p)
      /\ pc[p] \in {"persist", "persist_save", "resolve"}
  BY DEF WsNext, PersistLoad, PersistSave, Resolve, shared, host, memory, Stage
<1>2. Present /\ Present'
  BY <1>1 DEF Looking, Present
<1>3. CASE PersistLoad(p)
  <2>1. st' = st /\ copy'[p] = st /\ cid' = cid /\ pc'[p] = "persist_save"
    BY <1>3 DEF PersistLoad, Goto, TypeOK
  <2>2. Stage(p)'
    BY <1>1, <1>2, <2>1
       DEF Stage, Looking, Hooking, Provided, Has, Marking, Recorded, Providing, Elsewhere
  <2> QED
    BY <2>1, <2>2, LoneStep
<1>4. CASE PersistSave(p)
  <2>1. st' = st /\ copy' = copy /\ cid' = cid /\ pc'[p] = "resolve"
    BY <1>1, <1>4 DEF PersistSave, Save, memory, Goto, TypeOK, Looking
  <2>2. Stage(p)'
    BY <1>1, <1>2, <2>1
       DEF Stage, Looking, Hooking, Provided, Has, Marking, Recorded, Providing, Elsewhere
  <2> QED
    BY <2>1, <2>2, LoneMoves
<1>5. CASE Resolve(p)
  <2>1. st' = st /\ copy' = copy /\ pc'[p] = "hooks" /\ cid'[p] \in {ctr.id, ByName}
    BY <1>1, <1>2, <1>5 DEF Resolve, shared, host, Goto, TypeOK
  <2>2. cid'[p] = ByName => Used("failure")' = Used("failure") + 1
    <3>1. ctr.id # ByName
      BY <1>2 DEF TypeOK, Present, Containers
    <3> QED
      BY <1>2, <1>5, <3>1, FailureIsUsed DEF Resolve, TypeOK
  <2>3. Used("failure") \in Int
    BY UsedGrows
  <2>4. cid'[p] = ByName => Used("failure")' >= 1 \/ st.cid # ByName
    BY <2>2, <2>3 DEF NameUnused
  <2>5. cid'[p] = ByName /\ Sure(p)' => st.cid # ByName
    <3> SUFFICES ASSUME cid'[p] = ByName, Used("failure")' <= 1 PROVE st.cid # ByName
      BY DEF Sure
    <3>1. Used("failure") = 0
      BY <2>2, <2>3 DEF NameUnused
    <3> QED
      BY <3>1 DEF NameUnused
  <2>6. Stage(p)'
    BY <1>1, <1>2, <2>1, <2>5
       DEF Stage, Looking, Hooking, Provided, Has, Marking, Recorded, Providing, Elsewhere
  <2>7. cid'[p] = ByName => cid[p] = ByName \/ (~project.compose /\ Used("failure")' >= 1)
    BY <2>2, <2>3 DEF NameUnused
  <2> QED
    BY <2>1, <2>6, <2>7, LoneStep
<1> QED
  BY <1>3, <1>4, <1>5

LEMMA LonePersistsCompose ==
  ASSUME NEW p \in Procs, StepOf(p), ~Fail(p), project.compose,
         NotCovered(p) \/ FindService(p) \/ PersistCompose(p) \/ PersistComposeSave(p)
  PROVE  LoneInv'
<1> USE DEF StepOf, LoneInv
<1>1. /\ UNCHANGED <<ctr, nextId, cmd, my, project>> /\ ~Has(p, "skip") /\ Looking(p)
  BY DEF WsNext, NotCovered, FindService, PersistCompose, PersistComposeSave, shared, host,
         memory, Stage
<1>2. Present => ctr.id # ByName
  BY DEF TypeOK, Present, Containers
<1>3. CASE NotCovered(p)
  <2>1. /\ UNCHANGED <<st, copy, cid>> /\ ~Covers(p)'
        /\ pc'[p] = IF cmd[p].kind = "ssh" THEN "reattach" ELSE "ok"
    BY <1>1, <1>3 DEF NotCovered, shared, host, memory, Goto, TypeOK, Covers, Targeted, Named, Has
  <2>2. Stage(p)'
    BY <1>1, <2>1
       DEF Stage, Looking, Hooking, Provided, Has, Marking, Recorded, Providing, Elsewhere
  <2> QED
    BY <2>1, <2>2, LoneMoves
<1>4. CASE FindService(p)
  <2>1. /\ st' = st /\ copy' = copy /\ cid'[p] = ctr.id /\ pc'[p] = "persist_load"
        /\ Present /\ Present'
    BY <1>1, <1>4 DEF FindService, Found, shared, host, Goto, TypeOK, Present
  <2>2. Stage(p)'
    BY <1>1, <2>1
       DEF Stage, Looking, Hooking, Provided, Has, Marking, Recorded, Providing, Elsewhere
  <2> QED
    BY <1>2, <2>1, <2>2, LoneStep
<1>5. CASE PersistCompose(p)
  <2>1. /\ st' = st /\ copy'[p] = st /\ cid' = cid /\ pc'[p] = "persist_save"
        /\ Present /\ Present' /\ cid[p] = ctr.id
    BY <1>1, <1>5 DEF PersistCompose, Goto, TypeOK, Looking, Present
  <2>2. Stage(p)'
    BY <1>1, <2>1
       DEF Stage, Looking, Hooking, Provided, Has, Marking, Recorded, Providing, Elsewhere
  <2> QED
    BY <2>1, <2>2, LoneStep
<1>6. CASE PersistComposeSave(p)
  <2>1. /\ UNCHANGED <<st, copy, cid>> /\ pc'[p] = "hooks"
        /\ Present /\ Present' /\ cid[p] = ctr.id
    BY <1>1, <1>6 DEF PersistComposeSave, Save, memory, Goto, TypeOK, Looking, Present
  <2>2. Stage(p)'
    BY <1>1, <1>2, <2>1
       DEF Stage, Looking, Hooking, Provided, Has, Marking, Recorded, Providing, Elsewhere
  <2> QED
    BY <2>1, <2>2, LoneMoves
<1> QED
  BY <1>3, <1>4, <1>5, <1>6

(* The bring-up of a container that is there; its hooks, and the probe.      *)
LEMMA AtWork ==
  ASSUME NEW p \in Procs, StepOf(p), pc[p] \in {"hooks"} \cup Marking \cup Recorded
  PROVE  /\ Present /\ ctr \in Containers /\ ctr.id < nextId /\ ctr.id # ByName
         /\ ByName < nextId /\ cid[p] \in {ctr.id, ByName}
         /\ ~Has(p, "skip") /\ project' = project
         /\ cid'[p] = cid[p] /\ Sure(p)' => Sure(p)
<1>1. Present /\ cid[p] \in {ctr.id, ByName} /\ ~Has(p, "skip")
  BY DEF StepOf, LoneInv, Stage, Looking
<1>2. ctr \in Containers /\ ctr.id < nextId /\ ctr.id # ByName
  BY <1>1 DEF StepOf, LoneInv, TypeOK, Present, Containers
<1>3. ByName < nextId
  BY DEF StepOf, LoneInv, TypeOK, Unset, ByName
<1>4. cid'[p] = cid[p] /\ Sure(p)' => Sure(p)
  BY UsedGrows DEF StepOf, LoneInv, Sure
<1> QED
  BY <1>1, <1>2, <1>3, <1>4 DEF StepOf, WsNext

LEMMA LoneMarks ==
  ASSUME NEW p \in Procs, StepOf(p), ~Fail(p),
         LoadHooks(p) \/ RunHook(p) \/ MarkHook(p) \/ PostStart(p) \/ SaveHooks(p)
  PROVE  LoneInv'
<1> USE DEF StepOf, LoneInv
<1>1. pc[p] \in {"hooks"} \cup Marking
  BY DEF LoadHooks, RunHook, MarkHook, PostStart, SaveHooks, Marking
<1>2. Hooking(p) /\ cmd' = cmd /\ cid' = cid /\ my' = my
  BY DEF Stage, LoadHooks, RunHook, MarkHook, PostStart, SaveHooks, memory
<1>3. CASE LoadHooks(p)
  <2>1. /\ UNCHANGED <<ctr, nextId, st>> /\ copy'[p] = HooksLoaded(p) /\ pc'[p] = "run"
        /\ pc[p] = "hooks"
    BY <1>3 DEF LoadHooks, Goto, TypeOK
  <2>2. Present' /\ Ran' = Ran
    BY <1>1, <2>1, AtWork DEF Present, Ran
  <2>3. Sure(p) => HooksLoaded(p).hooks \subseteq Ran
    BY <1>1, <1>2, <2>1, AtWork DEF HooksLoaded, Hooking, MarksTrue
  <2>4. copy'[p].cid = cid[p]
    BY <2>1 DEF HooksLoaded
  <2>5. Stage(p)'
    BY <1>1, <1>2, <2>1, <2>2, <2>3, <2>4, AtWork
       DEF Stage, Looking, Hooking, Provided, Has, Marking, Recorded, Providing, Elsewhere
  <2> QED
    BY <1>2, <2>1, <2>4, <2>5, LoneStep
<1>4. CASE RunHook(p) /\ Unmarked(p) = {}
  <2>1. UNCHANGED <<ctr, nextId, st, copy>> /\ pc'[p] = "poststart" /\ pc[p] = "run"
    BY <1>4 DEF RunHook, Goto, TypeOK, shared, host, memory
  <2>2. Present' /\ Ran' = Ran
    BY <1>1, <2>1, AtWork DEF Present, Ran
  <2>3. my[p].hooks \subseteq copy[p].hooks
    <3>1. my[p].hooks \subseteq HookNames
      BY LifecycleAssumption DEF TypeOK
    <3> QED
      BY <1>4, <3>1 DEF Unmarked, HookNames
  <2>4. Stage(p)'
    BY <1>1, <1>2, <2>1, <2>2, <2>3, AtWork
       DEF Stage, Looking, Hooking, Provided, Has, Marking, Recorded, Providing, Elsewhere
  <2> QED
    BY <1>2, <2>1, <2>4, LoneMoves
<1>5. CASE RunHook(p) /\ Unmarked(p) # {}
  <2>1. UNCHANGED <<st, copy>> /\ pc'[p] = "mark" /\ pc[p] = "run"
    BY <1>5 DEF RunHook, Goto, TypeOK, host, memory
  <2>2. Present' /\ ctr'.id = ctr.id /\ Ran' = Ran \cup {NextHook(p)}
    BY <1>5, RunHookRan
  <2>3. NextHook(p)' = NextHook(p)
    BY <1>2, <2>1 DEF NextHook, Unmarked
  <2>4. Stage(p)'
    BY <1>1, <1>2, <2>1, <2>2, <2>3, AtWork
       DEF Stage, Looking, Hooking, Provided, Has, Marking, Recorded, Providing, Elsewhere
  <2> QED
    BY <1>2, <2>1, <2>4, LoneMoves
<1>6. CASE MarkHook(p)
  <2>1. /\ UNCHANGED <<ctr, nextId>> /\ copy'[p] = Marked(p) /\ pc'[p] = "run"
        /\ pc[p] = "mark" /\ st' \in {st, Marked(p)}
    BY <1>6 DEF MarkHook, Save, Goto, TypeOK
  <2>2. Present' /\ Ran' = Ran
    BY <1>1, <2>1, AtWork DEF Present, Ran
  <2>3. Marked(p).cid = cid[p] /\ (Sure(p) => Marked(p).hooks \subseteq Ran)
    <3>1. copy[p] \in States
      BY DEF TypeOK
    <3>2. Marked(p).cid = copy[p].cid /\ Marked(p).hooks = copy[p].hooks \cup {NextHook(p)}
      BY <3>1 DEF Marked, States
    <3> QED
      BY <1>2, <2>1, <3>2 DEF Hooking, Marking
  <2>4. Stage(p)'
    BY <1>1, <1>2, <2>1, <2>2, <2>3, AtWork
       DEF Stage, Looking, Hooking, Provided, Has, Marking, Recorded, Providing, Elsewhere
  <2>5. st' = st \/ MarksTrue'
    BY <1>1, <2>1, <2>2, <2>3, AtWork DEF MarksTrue, Sure
  <2> QED
    BY <1>2, <2>1, <2>3, <2>4, <2>5, LoneStep
<1>7. CASE PostStart(p)
  <2>1. /\ UNCHANGED <<st, copy>> /\ pc'[p] = "final" /\ pc[p] = "poststart"
        /\ ctr' = [ctr EXCEPT !.started = TRUE]
    BY <1>7 DEF PostStart, Goto, TypeOK, host, memory
  <2>2. ctr'.id = ctr.id /\ ctr'.ran = ctr.ran /\ ctr' \in Containers
    BY <1>1, <2>1, AtWork DEF Containers
  <2>3. Present' /\ Ran' = Ran
    BY <2>2, NoCtrAssumption DEF Present, Ran
  <2>4. Stage(p)'
    BY <1>1, <1>2, <2>1, <2>2, <2>3, AtWork
       DEF Stage, Looking, Hooking, Provided, Has, Marking, Recorded, Providing, Elsewhere
  <2> QED
    BY <1>2, <2>1, <2>4, LoneMoves
<1>8. CASE SaveHooks(p)
  <2>1. /\ UNCHANGED <<ctr, nextId, copy>> /\ pc'[p] = "probe" /\ pc[p] = "final"
        /\ st' = copy[p]
    BY <1>8 DEF SaveHooks, Goto, TypeOK, memory
  <2>2. Present' /\ Ran' = Ran
    BY <1>1, <2>1, AtWork DEF Present, Ran
  <2>3. /\ copy[p].cid = cid[p] /\ (Sure(p) => copy[p].hooks \subseteq Ran)
        /\ my[p].hooks \subseteq copy[p].hooks
    BY <1>2, <2>1 DEF Hooking, Marking
  <2>4. Stage(p)'
    BY <1>1, <1>2, <2>1, <2>2, <2>3, AtWork
       DEF Stage, Looking, Hooking, Provided, Has, Marking, Recorded, Providing, Elsewhere
  <2>5. MarksTrue'
    BY <1>1, <2>1, <2>2, <2>3, AtWork DEF MarksTrue, Sure
  <2> QED
    BY <1>2, <2>1, <2>3, <2>4, <2>5, LoneStep
<1> QED
  BY <1>3, <1>4, <1>5, <1>6, <1>7, <1>8

LEMMA LoneProbes ==
  ASSUME NEW p \in Procs, StepOf(p), ~Fail(p), LoadProbe(p) \/ RunProbe(p) \/ SaveProbe(p)
  PROVE  LoneInv'
<1> USE DEF StepOf, LoneInv
<1>1. /\ pc[p] \in Recorded /\ UNCHANGED <<ctr, nextId, cmd, my, cid>>
  BY DEF LoadProbe, RunProbe, SaveProbe, Recorded, shared, memory
<1>2. Present' /\ Ran' = Ran /\ Provided(p)
  BY <1>1, AtWork DEF Present, Ran, Stage
<1>3. CASE LoadProbe(p)
  <2>1. /\ st' = st /\ copy'[p] \in {st, copy[p]} /\ pc[p] = "probe"
        /\ \/ pc'[p] = "probing" /\ copy'[p] = st
           \/ pc'[p] = "keys"
    BY <1>3 DEF LoadProbe, Goto, TypeOK
  <2>2. Stage(p)'
    BY <1>1, <1>2, <2>1, AtWork
       DEF Stage, Looking, Hooking, Provided, Has, Marking, Recorded, Providing, Elsewhere
  <2> QED
    BY <1>1, <2>1, <2>2, LoneStep
<1>4. CASE RunProbe(p)
  <2>1. /\ st' = st /\ pc'[p] = "probe_save" /\ pc[p] = "probing"
        /\ copy'[p].hooks = copy[p].hooks /\ copy'[p].cid = cid[p]
    <3>1. PICK seen \in Probes :
            copy' = [copy EXCEPT ![p] = [@ EXCEPT !.probe = seen,
                                                  !.version = my[p].version,
                                                  !.cid = cid[p]]]
      BY <1>4 DEF RunProbe
    <3>2. copy[p] \in States
      BY DEF TypeOK
    <3> QED
      BY <1>4, <3>1, <3>2 DEF RunProbe, Goto, TypeOK, States, shared, host
  <2>2. Stage(p)'
    BY <1>1, <1>2, <2>1, AtWork
       DEF Stage, Looking, Hooking, Provided, Has, Marking, Recorded, Providing, Elsewhere
  <2> QED
    BY <1>1, <2>1, <2>2, LoneStep
<1>5. CASE SaveProbe(p)
  <2>1. copy' = copy /\ pc'[p] = "keys" /\ pc[p] = "probe_save" /\ st' \in {st, copy[p]}
    BY <1>5 DEF SaveProbe, Save, Goto, TypeOK, memory
  <2>2. copy[p].hooks = st.hooks /\ copy[p].cid = cid[p] /\ st.cid = cid[p]
    BY <1>2, <2>1 DEF Provided, Recorded
  <2>3. Stage(p)'
    BY <1>1, <1>2, <2>1, <2>2, AtWork
       DEF Stage, Looking, Hooking, Provided, Has, Marking, Recorded, Providing, Elsewhere
  <2>4. MarksTrue'
    BY <1>1, <1>2, <2>1, <2>2, AtWork DEF MarksTrue
  <2> QED
    BY <1>1, <2>1, <2>2, <2>3, <2>4, LoneStep
<1> QED
  BY <1>3, <1>4, <1>5

(* The keys, the agent and its credentials, the ssh config.                 *)
LEMMA LoneProvides ==
  ASSUME NEW p \in Procs, StepOf(p), ~Fail(p), ProvisionStep(p)
  PROVE  LoneInv'
<1> USE DEF StepOf, LoneInv
<1>1. /\ pc[p] \in Providing /\ UNCHANGED <<nextId, st, cmd, my, cid, copy, env>>
  BY DEF ProvisionStep, EnsureKeys, PrepareAgent, CopyAgent, WriteSecrets, WriteSSHConfig,
         Providing, shared, host, memory
<1>2. Present /\ ctr \in Containers /\ Provided(p) /\ pc[p] \in Recorded
  BY <1>1, AtWork DEF Stage, Recorded
<1>3. /\ ctr' \in Containers /\ ctr'.id = ctr.id /\ ctr'.ran = ctr.ran
      /\ pc[p] \in {"keys", "prepare", "sshconf"} => ctr' = ctr
  <2>1. keys \in Nat /\ my[p].version \in Versions /\ env[p] \in Probes
    BY DEF TypeOK, Versions
  <2> QED
    BY <1>2, <2>1 DEF ProvisionStep, EnsureKeys, PrepareAgent, CopyAgent, WriteSecrets,
                      WriteSSHConfig, Containers, shared
<1>4. Present' /\ Ran' = Ran
  BY <1>3, NoCtrAssumption DEF Present, Ran
<1>5. CASE EnsureKeys(p)
  <2>1. pc'[p] = "prepare"
    BY <1>5 DEF EnsureKeys, Goto, TypeOK
  <2> QED
    BY <1>1, <1>2, <1>3, <1>4, <2>1, AtWork, LoneMoves
       DEF Stage, Looking, Hooking, Provided, Has, Marking, Recorded, Providing, Elsewhere
<1>6. CASE PrepareAgent(p)
  <2>1. /\ pc[p] = "prepare" /\ ctr' = ctr
        /\ pc'[p] = IF ctr.agent = my[p].version THEN "secrets" ELSE "copy"
    BY <1>6 DEF PrepareAgent, Goto, TypeOK, shared
  <2> QED
    BY <1>1, <1>2, <1>3, <1>4, <2>1, AtWork, LoneMoves
       DEF Stage, Looking, Hooking, Provided, Has, Marking, Recorded, Providing, Elsewhere
<1>7. CASE CopyAgent(p)
  <2>1. pc[p] = "copy" /\ pc'[p] = "secrets" /\ ctr'.agent = my[p].version
    BY <1>2, <1>7 DEF CopyAgent, Goto, TypeOK, Containers
  <2> QED
    BY <1>1, <1>2, <1>3, <1>4, <2>1, AtWork, LoneMoves
       DEF Stage, Looking, Hooking, Provided, Has, Marking, Recorded, Providing, Elsewhere
<1>8. CASE WriteSecrets(p)
  <2>1. /\ pc[p] = "secrets" /\ pc'[p] = "sshconf" /\ keys' = keys
        /\ ctr'.agent = ctr.agent /\ ctr'.secrets = keys /\ ctr'.env = env[p]
    BY <1>2, <1>8 DEF WriteSecrets, Goto, TypeOK, Containers, host
  <2> QED
    BY <1>1, <1>2, <1>3, <1>4, <2>1, AtWork, LoneMoves
       DEF Stage, Looking, Hooking, Provided, Has, Marking, Recorded, Providing, Elsewhere
<1>9. CASE WriteSSHConfig(p)
  <2>1. /\ pc[p] = "sshconf" /\ keys' = keys /\ ctr' = ctr /\ ssh' = TRUE
        /\ pc'[p] = IF cmd[p].kind = "ssh" THEN "reattach" ELSE "ok"
    BY <1>9 DEF WriteSSHConfig, Goto, TypeOK
  <2>2. Sure(p) => Complete(p)'
    BY <1>1, <1>2, <1>4, <2>1 DEF Complete, Provided, Recorded, Providing
  <2>3. Stage(p)'
    BY <1>1, <1>2, <1>4, <2>1, <2>2, AtWork
       DEF Stage, Looking, Hooking, Provided, Has, Marking, Recorded, Providing, Elsewhere
  <2> QED
    BY <1>1, <2>3, LoneMoves
<1> QED
  BY <1>5, <1>6, <1>7, <1>8, <1>9 DEF ProvisionStep

LEMMA LoneWsStep ==
  ASSUME NEW p \in Procs, StepOf(p), WsStep(p)
  PROVE  LoneInv'
<1> SUFFICES ASSUME ~Fail(p) PROVE LoneInv'
  BY LoneFails
<1>1. ~ (project.compose /\ ProbeFails(p))
  <2> SUFFICES ASSUME project.compose, ProbeFails(p) PROVE FALSE
    OBVIOUS
  <2>1. pc[p] \in Recorded
    BY DEF ProbeFails, Recorded
  <2>2. Present /\ cid[p] = ctr.id
    BY <2>1, AtWork DEF StepOf, LoneInv, NameUnused
  <2> QED
    BY <2>2 DEF ProbeFails, Gone
<1>2. ~Reject(p) /\ ~ExecFails(p)
  BY DEF Reject, ExecFails
<1>3. CASE project.compose /\ ComposeStep(p)
  BY <1>1, <1>2, <1>3, LoneFinds, LonePersistsCompose, LoneMarks, LoneProbes, LoneProvides,
     LoneElsewhere DEF ComposeStep, PostUp, HookStep, OtherStep
<1>4. CASE ~project.compose /\ Step(p)
  BY <1>4, LoneFinds, LonePersists, LoneMarks, LoneProbes, LoneProvides, LoneElsewhere
     DEF Step, UpStep, HookStep
<1>5. CASE AutoDown(p)
  BY <1>5, LoneElsewhere
<1> QED
  BY <1>2, <1>3, <1>4, <1>5 DEF WsStep

LEMMA LoneBegins ==
  ASSUME NoSkip, NEW p \in Procs, StepOf(p), NEW c \in Commands, Begin(p, c)
  PROVE  LoneInv'
<1> USE DEF StepOf, LoneInv
<1>1. /\ UNCHANGED <<st, copy, cid>> /\ cmd'[p] = c /\ pc'[p] = Entry(c)
  BY DEF Begin, Goto, TypeOK, shared, host
<1>2. c.kind \in Kinds /\ "skip" \notin c.flags
  BY LifecycleAssumption DEF NoSkip
<1>3. pc'[p] \in {"find"} \cup Elsewhere /\ (pc'[p] \in Elsewhere => c.kind # "up")
  BY <1>1, <1>2 DEF Entry, Kinds, Elsewhere
<1>4. Stage(p)'
  BY <1>1, <1>2, <1>3 DEF Stage, Looking, Hooking, Provided, Has, Marking, Recorded,
                          Providing, Elsewhere
<1> QED
  BY <1>1, <1>4, LoneMoves

(* An edit, and an exit of the container, which stays where it is.          *)
LEMMA LoneOutside ==
  ASSUME NEW p \in Procs, StepOf(p), Edit \/ Exit
  PROVE  LoneInv'
<1> USE DEF StepOf, LoneInv
<1>1. UNCHANGED <<nextId, st, keys, ssh, pc, cmd, my, cid, copy, env, project>>
  BY DEF Edit, Exit, WsNext, host, private, memory
<1>2. /\ Present <=> Present'
      /\ ctr' = ctr \/ (Present /\ ctr' = [ctr EXCEPT !.running = FALSE])
  <2>1. CASE Exit
    <3>1. ctr \in Containers /\ ctr' \in Containers
      BY <2>1 DEF Exit, Running, Present, TypeOK, Containers
    <3> QED
      BY <2>1, <3>1, NoCtrAssumption DEF Exit, Running, Present
  <2> QED
    BY <2>1 DEF Edit, Present
<1>3. Present => /\ ctr'.id = ctr.id /\ ctr'.ran = ctr.ran /\ ctr'.agent = ctr.agent
                 /\ ctr'.secrets = ctr.secrets /\ ctr'.env = ctr.env
  BY <1>2 DEF TypeOK, Present, Containers
<1>4. Present => Ran' = Ran
  BY <1>3 DEF Ran
<1>5. Sure(p)' => Sure(p)
  BY <1>1, UsedGrows DEF Sure
<1>6. NextHook(p)' = NextHook(p) /\ Covers(p)' = Covers(p)
  BY <1>1 DEF NextHook, Unmarked, Covers, Targeted, Named, Has
<1>7. Looking(p)' /\ (pc[p] \in {"hooks"} \cup Marking \cup Recorded => Present)
  BY <1>1, <1>2, <1>3 DEF Stage, Looking
<1>8. Hooking(p)'
  BY <1>1, <1>4, <1>5, <1>6, <1>7 DEF Stage, Hooking, Marking
<1>9. Provided(p)'
  <2>1. Complete(p) => Complete(p)'
    BY <1>1, <1>2, <1>3, <1>4 DEF Complete
  <2> QED
    BY <1>1, <1>3, <1>4, <1>5, <1>6, <1>7, <2>1 DEF Stage, Provided, Recorded, Providing
<1>10. Stage(p)'
  BY <1>1, <1>7, <1>8, <1>9 DEF Stage, Has
<1> QED
  BY <1>1, <1>10, LoneMoves

LEMMA LoneNext ==
  ASSUME OneAtATime, NoSkip, LoneInv, [WsNext]_wsvars
  PROVE  LoneInv'
<1>1. TypeOK' /\ Pending'
  <2>1. ASSUME NEW p \in Procs, ComposeOnly(p)
        PROVE  TypeOK' /\ Pending'
    BY <2>1, ComposeOnlyType, ComposeOnlyIsPrivate, UnmarkedIsPrivate
       DEF LoneInv, Pending, Untouched
  <2> QED
    BY <2>1, WsSteps, TypeStep, PendingStep DEF LoneInv
<1>2. CASE UNCHANGED wsvars
  <2>1. \A p \in Procs : Stage(p)'
    BY <1>2 DEF LoneInv, Stage, Looking, Hooking, Provided, Complete, Sure, Used, Ran, Present,
                NextHook, Unmarked, Covers, Targeted, Named, Has, wsvars, vars, shared, host,
                private, memory
  <2>2. NameUnused' /\ MarksTrue'
    BY <1>2 DEF LoneInv, NameUnused, MarksTrue, Used, Ran, Present, wsvars, vars, shared, host,
                private, memory
  <2> QED
    BY <1>1, <2>1, <2>2 DEF LoneInv
<1>3. CASE WsNext
  <2>1. CASE Procs = {}
    <3>1. MarksTrue' /\ NameUnused'
      <4>1. Edit \/ Exit
        BY <1>3, <2>1 DEF WsNext
      <4>2. UNCHANGED <<st, nextId, project>>
        BY <1>3, <4>1 DEF Edit, Exit, WsNext, host
      <4>3. st.cid \in Nat /\ nextId \in Nat
        BY DEF LoneInv, TypeOK, States
      <4> QED
        BY <1>3, <2>1, <4>2, <4>3, WsAges, UsedGrows, <1>1
           DEF LoneInv, MarksTrue, NameUnused, Ages
    <3> QED
      BY <1>1, <2>1, <3>1 DEF LoneInv
  <2>2. CASE Procs # {}
    <3>1. \A p \in Procs : StepOf(p)
      BY <1>1, <1>3 DEF StepOf
    <3>2. ASSUME NEW p \in Procs, Abort(p)
          PROVE  LoneInv'
      <4>1. Stage(p)' /\ st' = st
        BY <3>2, StageQuit DEF LoneInv, Abort, shared, host
      <4>2. copy'[p].cid # ByName /\ cid'[p] # ByName
        BY <3>2 DEF Abort, Quit, LoneInv, TypeOK, ZeroState, Unset, ByName
      <4> QED
        BY <1>1, <4>1, <4>2, LoneStep
    <3> QED
      BY <1>3, <2>2, <3>1, <3>2, LoneWsStep, LoneBegins, LoneOutside DEF WsNext
  <2> QED
    BY <2>1, <2>2
<1> QED
  BY <1>2, <1>3

LEMMA LoneInit == WsInit => LoneInv
<1> SUFFICES ASSUME WsInit PROVE LoneInv
  OBVIOUS
<1>1. TypeOK /\ Pending
  BY InitType DEF WsInit, Init, Pending
<1>2. NameUnused /\ MarksTrue
  BY LifecycleAssumption DEF WsInit, Init, NameUnused, MarksTrue, Used, ZeroState, Unset,
     ByName, FirstId, Present, Events
<1>3. \A p \in Procs : Stage(p)
  BY DEF WsInit, Init, Stage, Looking, Hooking, Provided, Has, NoCommand, Marking, Recorded,
         Providing, Elsewhere
<1> QED
  BY <1>1, <1>2, <1>3 DEF LoneInv

(* Whatever commands came before, and wherever they failed or were killed: a *)
(* successful `up` that goes by the container's id leaves nothing half done; *)
(* so does one that goes by the name, the first time an inspection fails.   *)
THEOREM UpLeavesNothingHalfDone ==
  ASSUME OneAtATime, NoSkip
  PROVE  WsSpec => []UpIsComplete
<1>1. LoneInv => UpIsComplete
  <2> SUFFICES ASSUME LoneInv, NEW p \in Procs, pc[p] = "ok", cmd[p].kind = "up", Covers(p),
                      ~(cid[p] = ByName /\ Used("failure") > 1)
               PROVE  Complete(p)
    BY DEF UpIsComplete
  <2>1. Used("failure") \in Int
    BY LifecycleAssumption DEF LoneInv, TypeOK, Events, Used
  <2> QED
    BY <2>1 DEF LoneInv, Stage, Provided, Sure
<1> QED
  BY <1>1, LoneInit, LoneNext, PTL DEF WsSpec

----------------------------------------------------------------------------
(* How often create hooks are repeated: the runs and the faults counted.     *)
HookCount == Cardinality(HookNames)

(* What the faults so far excuse, and the runs there were.                  *)
Weight == IF project.compose THEN 1 ELSE 2 * HookCount
Allowed == Used("crash") + Weight * Used("failure")
Total == Cardinality(Repetitions) + Cardinality(Ran)

(* Counting hooks.                                                          *)
LEMMA HooksAreFinite ==
  /\ IsFiniteSet(HookNames)
  /\ \A S \in SUBSET HookNames : IsFiniteSet(S) /\ Cardinality(S) \in Nat
  /\ HookCount \in Nat
<1>1. Len(CreateHooks) \in Nat /\ DOMAIN CreateHooks = 1..Len(CreateHooks)
  BY LifecycleAssumption
<1>2. IsFiniteSet(1..Len(CreateHooks))
  BY <1>1, FS_Interval
<1>3. CreateHooks \in Surjection(1..Len(CreateHooks), HookNames)
  <2>1. CreateHooks \in [1..Len(CreateHooks) -> HookNames]
    BY <1>1, LifecycleAssumption DEF HookNames
  <2>2. \A h \in HookNames : \E i \in 1..Len(CreateHooks) : CreateHooks[i] = h
    BY <1>1 DEF HookNames
  <2> QED
    BY <2>1, <2>2 DEF Surjection
<1>4. IsFiniteSet(HookNames)
  BY <1>2, <1>3, FS_Surjection
<1> QED
  BY <1>4, FS_Subset, FS_CardinalityType DEF HookCount

LEMMA FewerHooks ==
  ASSUME NEW T \in SUBSET HookNames, NEW S \in SUBSET T
  PROVE  Cardinality(S) \in Nat /\ Cardinality(T) \in Nat
         /\ Cardinality(S) <= Cardinality(T) /\ Cardinality(T) <= HookCount
<1>1. S \in SUBSET HookNames
  OBVIOUS
<1> QED
  BY <1>1, HooksAreFinite, FS_Subset DEF HookCount

LEMMA OneHookMore ==
  ASSUME NEW S \in SUBSET HookNames, NEW h \in HookNames \ S
  PROVE  Cardinality(S \cup {h}) = Cardinality(S) + 1 /\ Cardinality(S) + 1 <= HookCount
<1>1. Cardinality(S \cup {h}) = Cardinality(S) + 1
  BY HooksAreFinite, FS_AddElement
<1>2. Cardinality(S \cup {h}) <= HookCount
  <2>1. S \cup {h} \in SUBSET HookNames
    OBVIOUS
  <2> QED
    BY <2>1, FewerHooks
<1> QED
  BY <1>1, <1>2

LEMMA RunsAreFinite ==
  ASSUME NEW R \in SUBSET (HookNames \X (2..MaxRuns))
  PROVE  IsFiniteSet(R) /\ Cardinality(R) \in Nat
<1>1. IsFiniteSet(2..MaxRuns)
  BY LifecycleAssumption, FS_Interval
<1>2. IsFiniteSet(HookNames \X (2..MaxRuns))
  BY <1>1, HooksAreFinite, FS_Product
<1> QED
  BY <1>2, FS_Subset, FS_CardinalityType

LEMMA TotalType ==
  /\ Ran \subseteq HookNames /\ Ran' \subseteq HookNames
  /\ Total \in Nat /\ Total' \in Nat
  /\ Cardinality(Ran) \in Nat /\ Cardinality(Ran') \in Nat
  /\ Cardinality(Ran) <= Total /\ Cardinality(Ran)' <= Total'
<1>1. Ran \in SUBSET HookNames /\ Ran' \in SUBSET HookNames
  BY DEF Ran
<1>2. /\ Repetitions \in SUBSET (HookNames \X (2..MaxRuns))
      /\ Repetitions' \in SUBSET (HookNames \X (2..MaxRuns))
  BY DEF Repetitions
<1>3. Cardinality(Ran) \in Nat /\ Cardinality(Ran') \in Nat
  BY <1>1, HooksAreFinite
<1>4. Cardinality(Repetitions) \in Nat /\ Cardinality(Repetitions') \in Nat
  BY <1>2, RunsAreFinite
<1> QED
  BY <1>1, <1>3, <1>4 DEF Total

(* A container that stays, and one that is new.                             *)
LEMMA TotalStays ==
  ASSUME SameRuns, Present'
  PROVE  Present /\ ctr'.id = ctr.id /\ Ran' = Ran /\ Total' = Total
<1>1. Present /\ ctr'.id = ctr.id /\ ctr'.ran = ctr.ran
  BY DEF SameRuns, Present
<1> QED
  BY <1>1 DEF Ran, Repetitions, Total

LEMMA TotalStartsOver ==
  ASSUME ctr'.ran = [h \in HookNames |-> 0]
  PROVE  Total' = 0
<1>1. Ran' = {} /\ Repetitions' = {}
  BY DEF Ran, Repetitions
<1> QED
  BY <1>1, FS_EmptySet DEF Total

(* A run of a hook counts for one at most.                                  *)
LEMMA TotalOfRun ==
  ASSUME TypeOK, NEW p \in Procs, RunHook(p), Unmarked(p) # {}, ~Fail(p)
  PROVE  Total' <= Total + 1
<1>1. PICK h \in HookNames :
        /\ Ran' = Ran \cup {h} /\ ctr.ran \in [HookNames -> 0..MaxRuns]
        /\ ctr'.ran = [ctr.ran EXCEPT ![h] = IF @ < MaxRuns THEN @ + 1 ELSE @]
  BY RunHookRan, NextHookIsUnmarked
<1>2. MaxRuns \in Nat /\ MaxRuns >= 2 /\ ctr.ran[h] \in 0..MaxRuns
  BY <1>1, LifecycleAssumption
<1>3. \A g \in HookNames : /\ ctr.ran[g] \in 0..MaxRuns
                           /\ g # h => ctr'.ran[g] = ctr.ran[g]
                           /\ ctr'.ran[h] \in Nat /\ ctr'.ran[h] <= ctr.ran[h] + 1
  BY <1>1, <1>2
<1>4. /\ Repetitions \in SUBSET (HookNames \X (2..MaxRuns))
      /\ Repetitions' \in SUBSET (HookNames \X (2..MaxRuns))
  BY DEF Repetitions
<1>5. IsFiniteSet(Repetitions) /\ Cardinality(Repetitions) \in Nat
      /\ Cardinality(Repetitions') \in Nat /\ Cardinality(Ran) \in Nat
  BY <1>4, RunsAreFinite, TotalType
<1>6. CASE h \in Ran
  <2>1. Ran' = Ran
    BY <1>1, <1>6
  <2> DEFINE r == <<h, ctr.ran[h] + 1>>
  <2>2. Repetitions' \subseteq Repetitions \cup {r}
    <3> SUFFICES ASSUME NEW g \in HookNames, NEW n \in 2..MaxRuns, ctr'.ran[g] >= n,
                        ~(ctr.ran[g] >= n)
                 PROVE  <<g, n>> = r
      BY DEF Repetitions
    <3>1. g = h
      BY <1>3
    <3>2. n = ctr.ran[h] + 1
      BY <1>2, <1>3, <3>1
    <3> QED
      BY <3>1, <3>2
  <2>3. /\ IsFiniteSet(Repetitions \cup {r})
        /\ \/ Cardinality(Repetitions \cup {r}) = Cardinality(Repetitions)
           \/ Cardinality(Repetitions \cup {r}) = Cardinality(Repetitions) + 1
    <3> HIDE DEF r
    <3> QED
      BY <1>5, FS_AddElement
  <2>4. Cardinality(Repetitions') <= Cardinality(Repetitions \cup {r})
    BY <2>2, <2>3, FS_Subset
  <2>5. Cardinality(Repetitions \cup {r}) \in Nat
    BY <2>3, FS_CardinalityType
  <2> QED
    BY <1>5, <2>1, <2>3, <2>4, <2>5 DEF Total
<1>7. CASE h \notin Ran
  <2>1. ctr.ran[h] = 0
    BY <1>2, <1>7 DEF Ran
  <2>2. Repetitions' \subseteq Repetitions
    <3> SUFFICES ASSUME NEW g \in HookNames, NEW n \in 2..MaxRuns, ctr'.ran[g] >= n
                 PROVE  ctr.ran[g] >= n
      BY DEF Repetitions
    <3> QED
      BY <1>1, <1>2, <1>3, <2>1
  <2>3. Cardinality(Repetitions') <= Cardinality(Repetitions)
    BY <1>5, <2>2, FS_Subset
  <2>4. Cardinality(Ran') = Cardinality(Ran) + 1
    BY <1>1, <1>7, TotalType, OneHookMore
  <2> QED
    BY <1>5, <2>3, <2>4 DEF Total
<1> QED
  BY <1>6, <1>7

(* What the faults excuse only grows.                                       *)
LEMMA WeightType ==
  Weight \in Nat /\ (HookNames # {} => Weight >= 1) /\ HookCount \in Nat
<1>1. HookCount \in Nat /\ (HookNames # {} => HookCount # 0)
  BY HooksAreFinite, FS_EmptySet DEF HookCount
<1> QED
  BY <1>1 DEF Weight

Spared == Used("crash") >= 0 /\ Used("failure") >= 0

LEMMA AllowedGrows ==
  ASSUME TypeOK, Spared, [WsNext]_wsvars
  PROVE  /\ Allowed \in Nat /\ Allowed' \in Nat /\ Allowed <= Allowed'
         /\ Spared'
         /\ Spend("crash") => Allowed' >= Allowed + 1
         /\ Spend("failure") => Allowed' >= Allowed + Weight
<1>1. /\ Used("crash") \in Int /\ Used("crash")' \in Int /\ Used("crash") <= Used("crash")'
      /\ Used("failure") \in Int /\ Used("failure")' \in Int
      /\ Used("failure") <= Used("failure")'
  BY EventsAreSpent DEF Events
<1>2. Weight \in Nat /\ Weight' = Weight
  <2>1. project' = project
    BY DEF WsNext, wsvars
  <2> QED
    BY <2>1, WeightType DEF Weight
<1>3. PICK w \in Nat, u \in Nat, v \in Nat :
        w = Weight /\ u = Used("failure") /\ v = Used("failure")'
  BY <1>1, <1>2 DEF Spared
<1>4. u <= v /\ (Spend("failure") => v = u + 1)
  BY <1>1, <1>3, EventIsUsed DEF Events
<1>5. w * u \in Nat /\ w * v \in Nat /\ w * u <= w * v /\ w * (u + 1) = w * u + w
  <2>1. w * (v - u) >= 0 /\ w * (v - u) = w * v - w * u
    BY <1>4
  <2> QED
    BY <2>1
<1>6. Allowed = Used("crash") + w * u /\ Allowed' = Used("crash")' + w * v
  BY <1>2, <1>3 DEF Allowed
<1>7. Spend("crash") => Used("crash")' = Used("crash") + 1
  BY EventIsUsed DEF Events
<1>8. Spared'
  BY <1>1 DEF Spared
<1>9. PICK a \in Nat, b \in Nat, x \in Nat, y \in Nat :
        a = Used("crash") /\ b = Used("crash")' /\ x = w * u /\ y = w * v
  BY <1>1, <1>5 DEF Spared
<1>10. Spend("failure") => y = x + w
  BY <1>4, <1>5, <1>9
<1> QED
  BY <1>1, <1>3, <1>5, <1>6, <1>7, <1>8, <1>9, <1>10

----------------------------------------------------------------------------
(* Where the container is, and whose markers p has in hand.                 *)
Working == {"hooks", "probe", "probing", "probe_save"} \cup Marking
Finding == {"persist_load", "persist_save", "resolve"}

There(p) ==
  /\ pc[p] = "persist" /\ ~project.compose => Present
  /\ pc[p] \in {"persist_load", "persist_save"} /\ project.compose => cid[p] = ctr.id
  /\ pc[p] \in Finding \cup Working => Present
  /\ pc[p] \in Working => cid[p] = ctr.id \/ (cid[p] = ByName /\ ~project.compose)
  /\ pc[p] = "purge" => ~Present

InHand(p) ==
  /\ pc[p] = "persist_save" => copy[p] = st
  /\ pc[p] \in Marking => dir /\ copy[p].cid = cid[p]
  /\ pc[p] \in Marking /\ st.cid = cid[p] => st.hooks \subseteq copy[p].hooks
  /\ pc[p] = "mark" => NextHook(p) \in Ran
  /\ pc[p] \in {"probing", "probe_save"} => copy[p].hooks = st.hooks
  /\ pc[p] = "probe_save" => copy[p].cid = cid[p]

(* A run is paid for by a marker or by a fault; the one that p has not       *)
(* marked yet is owed.  An up that goes by the name pays for all its runs    *)
(* with the failure that made it do so.                                     *)
Caught(p) == IF pc[p] = "mark" THEN 1 ELSE 0

Owed(p) ==
  /\ pc[p] \in Marking /\ cid[p] = ctr.id
       => Total <= Allowed + Cardinality(Ran \cap copy[p].hooks) + Caught(p)
  /\ pc[p] \in Working /\ cid[p] = ByName => Total <= Allowed
  /\ pc[p] = "hooks" /\ cid[p] = ByName => Total + HookCount <= Allowed
  /\ pc[p] \in Marking /\ cid[p] = ByName
       => Total + HookCount <= Allowed + Cardinality(copy[p].hooks) + Caught(p)

Filed == IF st.cid = ctr.id THEN Ran \cap st.hooks ELSE {}

Balanced ==
  Present => \/ Total <= Allowed + Cardinality(Filed)
             \/ /\ \E p \in Procs : pc[p] = "mark"
                /\ Total <= Allowed + Cardinality(Filed) + 1

Stands(p) == ~Has(p, "rerun") /\ There(p) /\ InHand(p) /\ Owed(p)

DebtInv == TypeOK /\ Pending /\ Spared /\ Balanced /\ \A p \in Procs : Stands(p)

LEMMA FiledType ==
  /\ Filed \in SUBSET Ran /\ Cardinality(Filed) \in Nat
  /\ Cardinality(Filed) <= Cardinality(Ran) /\ Cardinality(Filed) <= HookCount
<1>1. Filed \in SUBSET Ran /\ Ran \in SUBSET HookNames
  BY TotalType DEF Filed
<1> QED
  BY <1>1, FewerHooks

----------------------------------------------------------------------------
(* A step while one devc runs.                                              *)
Turn == OneAtATime /\ DebtInv /\ TypeOK' /\ Pending' /\ WsNext

LEMMA TurnGrows ==
  ASSUME Turn
  PROVE  /\ Allowed \in Nat /\ Allowed' \in Nat /\ Allowed <= Allowed'
         /\ Spend("crash") => Allowed' >= Allowed + 1
         /\ Spend("failure") => Allowed' >= Allowed + Weight
         /\ project' = project
BY AllowedGrows DEF Turn, DebtInv, WsNext

LEMMA DebtStep ==
  ASSUME Turn, NEW p \in Procs, Stands(p)', Balanced'
  PROVE  DebtInv'
<1>1. Spared'
  BY AllowedGrows DEF Turn, DebtInv
<1>2. \A q \in Procs : q = p
  BY DEF Turn, OneAtATime
<1> QED
  BY <1>1, <1>2 DEF Turn, DebtInv

(* What every step leaves alone that neither runs a hook nor writes.         *)
LEMMA BalanceKept ==
  ASSUME Turn, SameRuns, st' = st, \A p \in Procs : pc[p] # "mark"
  PROVE  Balanced'
<1> SUFFICES ASSUME Present' PROVE Total' <= Allowed' + Cardinality(Filed')
  BY DEF Balanced
<1>1. Present /\ ctr'.id = ctr.id /\ Ran' = Ran /\ Total' = Total
  BY TotalStays
<1>2. Filed' = Filed
  BY <1>1 DEF Filed
<1>3. Total <= Allowed + Cardinality(Filed)
  BY <1>1 DEF Turn, DebtInv, Balanced
<1> QED
  BY <1>1, <1>2, <1>3, TurnGrows, FiledType, TotalType

LEMMA StandsElsewhere ==
  ASSUME NEW p \in Procs, ~Has(p, "rerun"), cmd'[p] = cmd[p],
         pc'[p] \notin {"persist", "purge"} \cup Finding \cup Working
  PROVE  Stands(p)'
BY DEF Stands, There, InHand, Owed, Has, Finding, Working, Marking

LEMMA StandsQuit ==
  ASSUME TypeOK, NEW p \in Procs, Quit(p)
  PROVE  Stands(p)'
<1>1. pc'[p] = "idle" /\ cmd'[p] = NoCommand
  BY DEF Quit, Goto, TypeOK
<1> QED
  BY <1>1 DEF Stands, There, InHand, Owed, Has, NoCommand, Finding, Working, Marking

(* Only MarkHook follows the run of a hook.                                 *)
LEMMA MarksNext ==
  ASSUME TypeOK, NEW p \in Procs, WsStep(p), pc[p] = "mark"
  PROVE  MarkHook(p) /\ ~Fail(p)
<1>1. MarkHook(p)
  BY DEF WsStep, Reject, AutoDown, ComposeStep, ComposeUp, StartContainer, RemoveContainer,
         ComposeCreate, NotCovered, FindService, PersistCompose, PersistComposeSave, PostUp,
         ExecFails, Executes, ProbeFails, ComposeAttach, ComposeStop, ComposeRestart,
         ComposeDown, PurgeState, PurgeSSHConfig, RotateKeys, Return, Step, UpStep, HookStep,
         ProvisionStep, OtherStep, Find, CreateContainer, PersistLoad, PersistSave, Resolve,
         LoadHooks, RunHook, PostStart, SaveHooks, LoadProbe, RunProbe, SaveProbe, EnsureKeys,
         PrepareAgent, CopyAgent, WriteSecrets, WriteSSHConfig, Attach, Reattach, Serve,
         StopFind, Stop, RestartFind, Restart, DownFind, DownRemove
<1> QED
  BY <1>1 DEF MarkHook, Fail, Quit, Goto, TypeOK

(* A command that ends, and one that is killed: the hook it ran goes without *)
(* its marker.                                                              *)
LEMMA DebtOfFailure ==
  ASSUME Turn, NEW p \in Procs, WsStep(p), Fail(p)
  PROVE  DebtInv'
<1>1. \A q \in Procs : pc[q] # "mark"
  BY MarksNext DEF Turn, OneAtATime, DebtInv
<1>2. Balanced'
  BY <1>1, BalanceKept DEF Fail, SameRuns, shared, host
<1>3. Stands(p)'
  BY StandsQuit DEF Fail, Turn, DebtInv
<1> QED
  BY <1>2, <1>3, DebtStep

LEMMA DebtOfCrash ==
  ASSUME Turn, NEW p \in Procs, Abort(p)
  PROVE  DebtInv'
<1>1. Balanced'
  <2> SUFFICES ASSUME Present' PROVE Total' <= Allowed' + Cardinality(Filed')
    BY DEF Balanced
  <2>1. SameRuns /\ st' = st
    BY DEF Abort, SameRuns, shared, host
  <2>2. Present /\ ctr'.id = ctr.id /\ Ran' = Ran /\ Total' = Total
    BY <2>1, TotalStays
  <2>3. Filed' = Filed
    BY <2>1, <2>2 DEF Filed
  <2>4. Total <= Allowed + Cardinality(Filed) \/ Total <= Allowed + Cardinality(Filed) + 1
    BY <2>2 DEF Turn, DebtInv, Balanced
  <2>5. Allowed' >= Allowed + 1
    BY TurnGrows DEF Abort
  <2> QED
    BY <2>2, <2>3, <2>4, <2>5, TurnGrows, FiledType, TotalType
<1>2. Stands(p)'
  BY StandsQuit DEF Abort, Turn, DebtInv
<1> QED
  BY <1>1, <1>2, DebtStep

(* The container is found or made; a new one owes nothing.                  *)
LEMMA DebtOfFinding ==
  ASSUME Turn, NEW p \in Procs, ~Fail(p),
         \/ ~project.compose /\ (Find(p) \/ CreateContainer(p))
         \/ StartContainer(p) \/ RemoveContainer(p)
         \/ project.compose /\ (ComposeUp(p) \/ ComposeCreate(p))
  PROVE  DebtInv'
<1> USE DEF Turn, DebtInv
<1>1. /\ UNCHANGED <<st, cmd, copy, cid, project>> /\ ~Has(p, "rerun")
      /\ pc[p] \in {"find", "start", "remove", "create"}
      /\ pc'[p] \in {"create", "remove", "start", "persist"}
  BY DEF Stands, WsNext, Find, Decide, CreateContainer, StartContainer,
         RemoveContainer, ComposeUp, Decision, ComposeCreate, memory, shared, host, TypeOK, Goto
<1>2. \A q \in Procs : pc[q] # "mark"
  BY <1>1 DEF OneAtATime
<1>3. CASE CreateContainer(p) \/ ComposeCreate(p)
  <2>1. /\ ctr'.ran = [h \in HookNames |-> 0]
        /\ pc'[p] = "persist" => project.compose \/ Present'
    <3>1. CASE CreateContainer(p)
      <4>1. ctr' = FreshContainer(p) /\ FreshContainer(p).id # 0
        BY <3>1 DEF CreateContainer, FreshContainer, TypeOK, Unset
      <4>2. FreshContainer(p) \in Containers
        <5>1. [h \in HookNames |-> 0] \in [HookNames -> 0..MaxRuns] /\ NoProbe \in Probes
          BY LifecycleAssumption DEF Probes
        <5> QED
          BY <3>1, <5>1 DEF FreshContainer, Containers, TypeOK
      <4> QED
        BY <4>1, <4>2, NoCtrAssumption DEF FreshContainer, Present
    <3>2. CASE ComposeCreate(p)
      BY <3>2 DEF ComposeCreate, FreshContainer, Goto, TypeOK
    <3> QED
      BY <1>3, <3>1, <3>2
  <2>2. Total' = 0
    BY <2>1, TotalStartsOver
  <2>3. Filed' \in SUBSET HookNames
    BY TotalType DEF Filed
  <2>4. Balanced'
    BY <2>2, <2>3, TurnGrows, HooksAreFinite DEF Balanced
  <2>5. Stands(p)'
    BY <1>1, <2>1 DEF Stands, There, InHand, Owed, Has, Finding, Working, Marking
  <2> QED
    BY <2>4, <2>5, DebtStep
<1>4. CASE ~(CreateContainer(p) \/ ComposeCreate(p))
  <2>1. SameRuns
    <3>1. CASE ComposeUp(p)
      BY <3>1 DEF ComposeUp, SameRuns, shared
    <3>2. CASE ~ComposeUp(p)
      <4>1. ~ (RunHook(p) /\ Unmarked(p) # {})
        BY <1>1 DEF RunHook
      <4>2. Step(p)
        BY <1>4, <3>2 DEF Step, UpStep
      <4> QED
        BY <1>4, <4>1, <4>2, ContainerStep
    <3> QED
      BY <3>1, <3>2
  <2>2. Balanced'
    BY <1>1, <1>2, <2>1, BalanceKept
  <2>3. pc'[p] = "persist" => project.compose \/ Present'
    <3>1. CASE Find(p)
      BY <3>1 DEF Find, Decide, Goto, TypeOK, Present, shared
    <3>2. CASE StartContainer(p)
      <4>1. ctr \in Containers /\ ctr' \in Containers
        BY <3>2 DEF StartContainer, Present, TypeOK, Containers
      <4> QED
        BY <4>1, NoCtrAssumption DEF Present
    <3>3. CASE RemoveContainer(p)
      BY <3>3 DEF RemoveContainer, Goto, TypeOK
    <3> QED
      BY <1>4, <3>1, <3>2, <3>3
  <2>4. Stands(p)'
    BY <1>1, <2>3 DEF Stands, There, InHand, Owed, Has, Finding, Working, Marking
  <2> QED
    BY <2>2, <2>4, DebtStep
<1> QED
  BY <1>3, <1>4

(* The other commands: --purge forgets the markers of a container that is    *)
(* gone.                                                                    *)
LEMMA DebtElsewhere ==
  ASSUME Turn, NEW p \in Procs, ~Fail(p), ~Rejected(p),
         \/ OtherStep(p) \/ ComposeAttach(p) \/ ComposeStop(p) \/ ComposeRestart(p)
         \/ (project.compose /\ ComposeDown(p)) \/ AutoDown(p)
  PROVE  DebtInv'
<1> USE DEF Turn, DebtInv
<1>1. Return(p) => Fail(p)
  BY DEF Return
<1>2. /\ cmd' = cmd /\ pc[p] # "mark"
      /\ pc'[p] \notin {"persist"} \cup Finding \cup Working
  BY <1>1 DEF OtherStep, Attach, Reattach, Serve, StopFind, Stop, RestartFind, Restart,
         DownFind, DownRemove, PurgeState, PurgeSSHConfig, RotateKeys, Removed,
         ComposeAttach, ComposeStop, ComposeRestart, ComposeDown, AutoDown,
         memory, Goto, TypeOK, Finding, Working, Marking
<1>3. SameRuns
  <2>1. CASE OtherStep(p)
    <3>1. ~CreateContainer(p) /\ ~RunHook(p)
      BY <1>1, <2>1 DEF OtherStep, Attach, Reattach, Serve, StopFind, Stop, RestartFind, Restart,
           DownFind, DownRemove, PurgeState, PurgeSSHConfig, RotateKeys, CreateContainer, RunHook
    <3> QED
      BY <2>1, <3>1, ContainerStep DEF Step
  <2>2. CASE ~OtherStep(p)
    <3>1. ~ComposeCreate(p)
      BY <2>2 DEF ComposeAttach, ComposeStop, ComposeRestart, ComposeDown, AutoDown, ComposeCreate
    <3> QED
      BY <2>2, <3>1, ComposeContainer DEF ComposeOnly
  <2> QED
    BY <2>1, <2>2
<1>4. pc'[p] = "purge" => ~Present'
  <2> SUFFICES ASSUME pc'[p] = "purge" PROVE ~Present'
    OBVIOUS
  <2>1. CASE ComposeDown(p) /\ project.compose
    <3>1. Has(p, "purge")
      BY <2>1 DEF ComposeDown, Removed, Goto, TypeOK
    <3>2. Targeted(p, TRUE)
      BY <3>1 DEF Rejected, Targeted
    <3> QED
      BY <2>1, <3>2 DEF ComposeDown, Present
  <2>2. CASE ~(ComposeDown(p) /\ project.compose)
    BY <1>1, <2>2 DEF OtherStep, Attach, Reattach, Serve, StopFind, Stop, RestartFind, Restart,
         DownFind, DownRemove, PurgeState, PurgeSSHConfig, RotateKeys,
         ComposeAttach, ComposeStop, ComposeRestart, AutoDown,
         memory, shared, Goto, TypeOK, Present
  <2> QED
    BY <2>1, <2>2
<1>5. Stands(p)'
  BY <1>2, <1>4 DEF Stands, There, InHand, Owed, Has, Finding, Working, Marking
<1>6. Balanced'
  <2>1. CASE st' = st
    BY <1>2, <1>3, <2>1, BalanceKept DEF OneAtATime
  <2>2. CASE st' # st
    <3>1. PurgeState(p)
      BY <1>1, <2>2 DEF OtherStep, Attach, Reattach, Serve, StopFind, Stop, RestartFind, Restart,
           DownFind, DownRemove, PurgeSSHConfig, RotateKeys,
           ComposeAttach, ComposeStop, ComposeRestart, ComposeDown, AutoDown, shared, host
    <3>2. ~Present'
      BY <3>1 DEF PurgeState, Stands, There, Present
    <3> QED
      BY <3>2 DEF Balanced
  <2> QED
    BY <2>1, <2>2
<1> QED
  BY <1>5, <1>6, DebtStep

(* The keys, the agent, the ssh config.                                     *)
LEMMA DebtOfProvision ==
  ASSUME Turn, NEW p \in Procs, ~Fail(p), ProvisionStep(p)
  PROVE  DebtInv'
<1> USE DEF Turn, DebtInv
<1>1. /\ UNCHANGED <<st, cmd>> /\ pc[p] \in Providing
      /\ pc'[p] \notin {"persist", "purge"} \cup Finding \cup Working
  BY DEF ProvisionStep, EnsureKeys, PrepareAgent, CopyAgent, WriteSecrets, WriteSSHConfig,
         Providing, shared, host, memory, Goto, TypeOK, Finding, Working, Marking
<1>2. SameRuns
  <2>1. ~CreateContainer(p) /\ ~RunHook(p)
    BY <1>1 DEF CreateContainer, RunHook, Providing
  <2> QED
    BY <2>1, ContainerStep DEF Step
<1>3. Balanced'
  BY <1>1, <1>2, BalanceKept DEF OneAtATime, Providing
<1>4. Stands(p)'
  BY <1>1, StandsElsewhere DEF Stands
<1> QED
  BY <1>3, <1>4, DebtStep

(* The identity is resolved: by the name at the price of a failure, which   *)
(* pays for every hook of this up and, once this container's own markers     *)
(* are overwritten, of the next one.                                        *)
LEMMA DebtOfPersisting ==
  ASSUME Turn, NEW p \in Procs, ~project.compose,
         PersistLoad(p) \/ PersistSave(p) \/ Resolve(p)
  PROVE  DebtInv'
<1> USE DEF Turn, DebtInv
<1>1. /\ UNCHANGED <<ctr, nextId, cmd, project>> /\ There(p) /\ InHand(p) /\ ~Has(p, "rerun")
      /\ pc[p] \in {"persist", "persist_save", "resolve"}
  BY DEF WsNext, PersistLoad, PersistSave, Resolve, shared, host, memory, Stands
<1>2. /\ Present /\ Present' /\ SameRuns /\ ctr.id # ByName
      /\ Total' = Total
  <2>1. Present /\ Present' /\ SameRuns
    BY <1>1 DEF There, Finding, Present, SameRuns
  <2> QED
    BY <2>1, TotalStays DEF TypeOK, Present, Containers
<1>3. st' = st
  BY <1>1 DEF PersistLoad, PersistSave, Save, Resolve, shared, host, InHand
<1>4. Balanced'
  BY <1>1, <1>2, <1>3, BalanceKept DEF OneAtATime
<1>5. CASE PersistLoad(p)
  <2>1. copy'[p] = st /\ pc'[p] = "persist_save"
    BY <1>5 DEF PersistLoad, Goto, TypeOK
  <2>2. Stands(p)'
    BY <1>1, <1>2, <1>3, <2>1
       DEF Stands, There, InHand, Owed, Has, Finding, Working, Marking
  <2> QED
    BY <1>4, <2>2, DebtStep
<1>6. CASE PersistSave(p)
  <2>1. pc'[p] = "resolve"
    BY <1>6 DEF PersistSave, Goto, TypeOK
  <2>2. Stands(p)'
    BY <1>1, <1>2, <2>1 DEF Stands, There, InHand, Owed, Has, Finding, Working, Marking
  <2> QED
    BY <1>4, <2>2, DebtStep
<1>7. CASE Resolve(p)
  <2>1. pc'[p] \in {"hooks", "probe"} /\ cid'[p] \in {ctr.id, ByName}
    BY <1>7 DEF Resolve, Goto, TypeOK
  <2>2. cid'[p] = ByName => Total + HookCount <= Allowed'
    <3> SUFFICES ASSUME cid'[p] = ByName PROVE Total + HookCount <= Allowed'
      OBVIOUS
    <3>1. Spend("failure")
      BY <1>2, <1>7 DEF Resolve, TypeOK
    <3>2. Weight = 2 * HookCount /\ HookCount \in Nat
      BY HooksAreFinite DEF Weight
    <3>3. Total <= Allowed + Cardinality(Filed)
      BY <1>1, <1>2 DEF Balanced, OneAtATime
    <3> QED
      BY <3>1, <3>2, <3>3, TurnGrows, FiledType, TotalType
  <2>3. cid'[p] = ByName => Total <= Allowed'
    BY <2>2, HooksAreFinite, TotalType, TurnGrows
  <2>4. There(p)' /\ InHand(p)'
    BY <1>1, <1>2, <2>1 DEF There, InHand, Finding, Working, Marking
  <2>5. Owed(p)'
    BY <1>2, <2>1, <2>2, <2>3, HooksAreFinite DEF Owed, Marking, HookCount
  <2> QED
    BY <1>1, <1>4, <2>4, <2>5, DebtStep DEF Stands, Has
<1> QED
  BY <1>5, <1>6, <1>7

LEMMA DebtOfPersistingCompose ==
  ASSUME Turn, NEW p \in Procs, ~Fail(p), project.compose,
         NotCovered(p) \/ FindService(p) \/ PersistCompose(p) \/ PersistComposeSave(p)
  PROVE  DebtInv'
<1> USE DEF Turn, DebtInv
<1>1. /\ UNCHANGED <<ctr, nextId, cmd, project>> /\ There(p) /\ InHand(p) /\ ~Has(p, "rerun")
      /\ pc[p] \in {"persist", "persist_load", "persist_save"}
  BY DEF WsNext, NotCovered, FindService, PersistCompose, PersistComposeSave, shared, host,
         memory, Stands
<1>2. SameRuns /\ (Present => Present')
  BY <1>1 DEF SameRuns, Present
<1>3. st' = st
  BY <1>1 DEF NotCovered, FindService, PersistCompose, PersistComposeSave, Save, shared, host,
              InHand
<1>4. Balanced'
  BY <1>1, <1>2, <1>3, BalanceKept DEF OneAtATime
<1>5. CASE NotCovered(p)
  <2>1. pc'[p] \in {"reattach", "ok"}
    BY <1>5 DEF NotCovered, Goto, TypeOK
  <2>2. Stands(p)'
    BY <1>1, <2>1, StandsElsewhere DEF Finding, Working, Marking
  <2> QED
    BY <1>4, <2>2, DebtStep
<1>6. CASE FindService(p)
  <2>1. cid'[p] = ctr.id /\ pc'[p] = "persist_load" /\ Present
    BY <1>6 DEF FindService, Found, Goto, TypeOK
  <2>2. Stands(p)'
    BY <1>1, <1>2, <2>1 DEF Stands, There, InHand, Owed, Has, Finding, Working, Marking
  <2> QED
    BY <1>4, <2>2, DebtStep
<1>7. CASE PersistCompose(p)
  <2>1. copy'[p] = st /\ cid' = cid /\ pc[p] = "persist_load" /\ pc'[p] = "persist_save"
    BY <1>7 DEF PersistCompose, Goto, TypeOK
  <2>2. Stands(p)'
    BY <1>1, <1>2, <1>3, <2>1
       DEF Stands, There, InHand, Owed, Has, Finding, Working, Marking
  <2> QED
    BY <1>4, <2>2, DebtStep
<1>8. CASE PersistComposeSave(p)
  <2>1. cid' = cid /\ pc[p] = "persist_save" /\ pc'[p] \in {"hooks", "probe"}
    BY <1>8 DEF PersistComposeSave, Goto, TypeOK, memory
  <2>2. cid[p] = ctr.id /\ Present /\ ctr.id # ByName
    BY <1>1, <2>1 DEF There, Finding, Present, TypeOK, Containers
  <2>3. Stands(p)'
    BY <1>1, <1>2, <2>1, <2>2 DEF Stands, There, InHand, Owed, Has, Finding, Working, Marking
  <2> QED
    BY <1>4, <2>3, DebtStep
<1> QED
  BY <1>5, <1>6, <1>7, <1>8

(* The container is there while its hooks run.                              *)
LEMMA AtHand ==
  ASSUME Turn, NEW p \in Procs, pc[p] \in Working
  PROVE  /\ Present /\ ctr \in Containers /\ ctr.id # ByName
         /\ cid[p] = ctr.id \/ (cid[p] = ByName /\ ~project.compose)
         /\ project' = project /\ ~Has(p, "rerun")
         /\ copy[p] \in States /\ st \in States
         /\ Ran \in SUBSET HookNames /\ copy[p].hooks \in SUBSET HookNames
         /\ Stands(p) /\ \A q \in Procs : q = p
<1>1. Present /\ Stands(p) /\ copy[p] \in States /\ st \in States /\ \A q \in Procs : q = p
  BY DEF Turn, DebtInv, Stands, There, TypeOK, OneAtATime
<1>2. ctr \in Containers /\ ctr.id # ByName
  BY <1>1 DEF Turn, DebtInv, TypeOK, Present, Containers
<1> QED
  BY <1>1, <1>2, TotalType DEF Turn, WsNext, Stands, There, States

(* What the counts are while p is between two hooks.                        *)
LEMMA OwedBetween ==
  ASSUME Turn, NEW p \in Procs, pc[p] \in Marking, pc[p] # "mark"
  PROVE  \E c \in Nat, o \in Nat :
           /\ c = Cardinality(copy[p].hooks) /\ o = Cardinality(Ran \cap copy[p].hooks)
           /\ cid[p] = ctr.id => Total <= Allowed + o
           /\ cid[p] = ByName => Total <= Allowed /\ Total + HookCount <= Allowed + c
<1>1. pc[p] \in Working /\ Owed(p) /\ Caught(p) = 0
  BY DEF Turn, DebtInv, Stands, Working, Caught
<1>2. Ran \cap copy[p].hooks \in SUBSET HookNames /\ copy[p].hooks \in SUBSET HookNames
  BY <1>1, AtHand
<1>3. PICK c \in Nat, o \in Nat : /\ c = Cardinality(copy[p].hooks)
                                  /\ o = Cardinality(Ran \cap copy[p].hooks)
  BY <1>2, HooksAreFinite
<1>4. /\ cid[p] = ctr.id => Total <= Allowed + o
      /\ cid[p] = ByName => Total <= Allowed /\ Total + HookCount <= Allowed + c
  BY <1>1, <1>3, TurnGrows, TotalType, HooksAreFinite DEF Owed
<1> QED
  BY <1>3, <1>4

LEMMA DebtOfLoading ==
  ASSUME Turn, NEW p \in Procs, LoadHooks(p)
  PROVE  DebtInv'
<1> USE DEF Turn, DebtInv
<1>1. /\ pc[p] = "hooks" /\ pc'[p] = "run" /\ dir' = TRUE /\ copy'[p] = HooksLoaded(p)
      /\ UNCHANGED <<ctr, nextId, st, cmd, cid, my>>
  BY DEF LoadHooks, Goto, TypeOK
<1>2. /\ Present' /\ SameRuns /\ Ran' = Ran /\ Total' = Total
      /\ Balanced' /\ Total <= Allowed + Cardinality(Filed)
  <2>1. SameRuns /\ Present /\ Present'
    BY <1>1, AtHand DEF SameRuns, Present, Working
  <2>2. \A q \in Procs : pc[q] # "mark"
    BY <1>1, AtHand DEF Working
  <2> QED
    BY <1>1, <2>1, <2>2, TotalStays, BalanceKept DEF Balanced
<1>3. There(p)' /\ InHand(p)' /\ ~Has(p, "rerun")'
  BY <1>1, <1>2, AtHand DEF There, InHand, HooksLoaded, Has, Finding, Working, Marking
<1>4. cid[p] = ctr.id => Total <= Allowed + Cardinality(Ran \cap HooksLoaded(p).hooks)
  <2> SUFFICES ASSUME cid[p] = ctr.id PROVE Filed = Ran \cap HooksLoaded(p).hooks
    BY <1>2
  <2> QED
    BY <1>1, AtHand DEF Working, Filed, HooksLoaded
<1>5. /\ HooksLoaded(p).hooks \in SUBSET HookNames
      /\ Ran \cap HooksLoaded(p).hooks \in SUBSET HookNames
  BY <1>1, AtHand DEF Working, HooksLoaded, States
<1>6. PICK c \in Nat, o \in Nat : /\ c = Cardinality(HooksLoaded(p).hooks)
                                  /\ o = Cardinality(Ran \cap HooksLoaded(p).hooks)
  BY <1>5, HooksAreFinite
<1>7. cid[p] = ctr.id => Total <= Allowed + o
  BY <1>4, <1>6
<1>8. cid[p] = ByName => Total <= Allowed /\ Total + HookCount <= Allowed
  BY <1>1, AtHand DEF Working, Stands, Owed
<1>9. Owed(p)'
  <2>1. pc'[p] = "run" /\ cid'[p] = cid[p] /\ ctr'.id = ctr.id /\ Total' = Total
        /\ Cardinality(copy'[p].hooks) = c /\ Cardinality(Ran' \cap copy'[p].hooks) = o
    BY <1>1, <1>2, <1>6
  <2> QED
    BY <1>7, <1>8, <2>1, TurnGrows, TotalType, HooksAreFinite DEF Owed, Caught, HookCount
<1> QED
  BY <1>2, <1>3, <1>9, DebtStep DEF Stands

LEMMA DebtOfRunning ==
  ASSUME Turn, NEW p \in Procs, RunHook(p), ~Fail(p)
  PROVE  DebtInv'
<1> USE DEF Turn, DebtInv
<1>1. pc[p] = "run" /\ UNCHANGED <<st, cmd, cid, my, copy, dir>> /\ pc[p] \in Working
  BY DEF RunHook, host, memory, shared, Working, Marking
<1>2. /\ \A q \in Procs : pc[q] # "mark"
      /\ Total <= Allowed + Cardinality(Filed)
  BY <1>1, AtHand DEF Balanced
<1>3. CASE Unmarked(p) = {}
  <2>1. pc'[p] = "poststart" /\ UNCHANGED <<ctr, nextId>>
    BY <1>3 DEF RunHook, shared, Goto, TypeOK
  <2>2. Present' /\ SameRuns /\ Ran' = Ran /\ Total' = Total
    BY <1>1, <2>1, AtHand, TotalStays DEF SameRuns, Present
  <2>3. Balanced'
    BY <1>1, <1>2, <2>2, BalanceKept
  <2>4. There(p)' /\ InHand(p)' /\ ~Has(p, "rerun")'
    BY <1>1, <2>1, <2>2, AtHand DEF Stands, There, InHand, Has, Finding, Working, Marking
  <2>5. Owed(p)'
    <3>1. PICK c \in Nat, o \in Nat :
            /\ c = Cardinality(copy[p].hooks) /\ o = Cardinality(Ran \cap copy[p].hooks)
            /\ cid[p] = ctr.id => Total <= Allowed + o
            /\ cid[p] = ByName => Total <= Allowed /\ Total + HookCount <= Allowed + c
      BY <1>1, OwedBetween DEF Marking
    <3> QED
      BY <1>1, <2>1, <2>2, <3>1, TurnGrows, TotalType, HooksAreFinite
         DEF Owed, Caught, HookCount
  <2> QED
    BY <2>3, <2>4, <2>5, DebtStep DEF Stands
<1>4. CASE Unmarked(p) # {}
  <2>1. PICK h \in HookNames : h = NextHook(p) /\ h \notin copy[p].hooks
    BY <1>4, NextHookIsUnmarked
  <2>2. /\ pc'[p] = "mark" /\ Present' /\ ctr'.id = ctr.id /\ Ran' = Ran \cup {h}
        /\ NextHook(p)' = h /\ Total' <= Total + 1
    BY <1>1, <1>4, <2>1, RunHookRan, TotalOfRun, UnmarkedIsPrivate DEF RunHook, Goto, TypeOK
  <2>3. There(p)' /\ InHand(p)' /\ ~Has(p, "rerun")'
    BY <1>1, <2>2, AtHand DEF Stands, There, InHand, Has, Finding, Working, Marking
  <2>4. Balanced'
    <3>1. Filed \in SUBSET Filed' /\ Filed' \in SUBSET HookNames
      BY <1>1, <2>2, TotalType DEF Filed
    <3>2. Cardinality(Filed) <= Cardinality(Filed') /\ Cardinality(Filed') \in Nat
      BY <3>1, FewerHooks
    <3> QED
      BY <1>2, <2>2, <3>2, TurnGrows, TotalType, FiledType DEF Balanced
  <2>5. Owed(p)'
    <3>1. Ran' \cap copy[p].hooks = Ran \cap copy[p].hooks
      BY <2>1, <2>2
    <3>2. PICK c \in Nat, o \in Nat :
            /\ c = Cardinality(copy[p].hooks) /\ o = Cardinality(Ran \cap copy[p].hooks)
            /\ cid[p] = ctr.id => Total <= Allowed + o
            /\ cid[p] = ByName => Total <= Allowed /\ Total + HookCount <= Allowed + c
      BY <1>1, OwedBetween DEF Marking
    <3>3. c + 1 <= HookCount
      BY <1>1, <2>1, <3>2, AtHand, OneHookMore
    <3>4. /\ cid[p] = ctr.id => Total' <= Allowed' + o + 1
          /\ cid[p] = ByName => Total' <= Allowed' /\ Total' + HookCount <= Allowed' + c + 1
      BY <2>2, <3>2, <3>3, TurnGrows, TotalType, HooksAreFinite
    <3>5. /\ Cardinality(copy'[p].hooks) = c /\ Cardinality(Ran' \cap copy'[p].hooks) = o
          /\ HookCount' = HookCount
      BY <1>1, <3>1, <3>2 DEF HookCount
    <3> QED
      BY <1>1, <2>2, <3>4, <3>5 DEF Owed, Caught
  <2> QED
    BY <2>3, <2>4, <2>5, DebtStep DEF Stands
<1> QED
  BY <1>3, <1>4

LEMMA DebtOfMarking ==
  ASSUME Turn, NEW p \in Procs, MarkHook(p)
  PROVE  DebtInv'
<1> USE DEF Turn, DebtInv
<1>1. /\ pc[p] = "mark" /\ pc'[p] = "run" /\ pc[p] \in Working /\ copy'[p] = Marked(p)
      /\ UNCHANGED <<ctr, nextId, dir, cmd, cid, my>>
  BY DEF MarkHook, Goto, TypeOK, Working, Marking
<1>2. PICK h \in HookNames : h = NextHook(p) /\ h \notin copy[p].hooks /\ h \in Ran
  <2>1. Unmarked(p) # {} /\ NextHook(p) \in Ran
    BY <1>1, AtHand DEF Pending, Stands, InHand
  <2> QED
    BY <2>1, NextHookIsUnmarked
<1>3. /\ copy'[p].cid = cid[p] /\ copy'[p].hooks = copy[p].hooks \cup {h}
      /\ dir /\ (st.cid = cid[p] => st.hooks \subseteq copy[p].hooks)
  <2>1. Marked(p).cid = copy[p].cid /\ Marked(p).hooks = copy[p].hooks \cup {h}
    BY <1>1, <1>2, AtHand DEF Marked, States
  <2> QED
    BY <1>1, <2>1, AtHand DEF Stands, InHand, Marking
<1>4. Present' /\ SameRuns /\ Ran' = Ran /\ Total' = Total
  BY <1>1, AtHand, TotalStays DEF SameRuns, Present
<1>5. st' = copy'[p] \/ (st' = st /\ Spend("failure"))
  BY <1>1, <1>3 DEF MarkHook, Save
<1>6. PICK c \in Nat, o \in Nat :
        /\ c = Cardinality(copy[p].hooks) /\ o = Cardinality(Ran \cap copy[p].hooks)
  <2>1. Ran \cap copy[p].hooks \in SUBSET HookNames /\ copy[p].hooks \in SUBSET HookNames
    BY <1>1, AtHand
  <2> QED
    BY <2>1, HooksAreFinite
<1>7. /\ Cardinality(copy'[p].hooks) = c + 1
      /\ Cardinality(Ran' \cap copy'[p].hooks) = o + 1
  <2>1. Cardinality(copy[p].hooks \cup {h}) = c + 1
    BY <1>1, <1>2, <1>6, AtHand, OneHookMore
  <2>2. Cardinality((Ran \cap copy[p].hooks) \cup {h}) = o + 1
    BY <1>1, <1>2, <1>6, AtHand, OneHookMore
  <2>3. Ran' \cap copy'[p].hooks = (Ran \cap copy[p].hooks) \cup {h}
    BY <1>2, <1>3, <1>4
  <2> QED
    BY <1>3, <2>1, <2>2, <2>3
<1>8. /\ cid[p] = ctr.id => Total <= Allowed + o + 1
      /\ cid[p] = ByName => Total <= Allowed /\ Total + HookCount <= Allowed + c + 1
  <2>1. Owed(p) /\ Caught(p) = 1 /\ pc[p] \in Marking
    BY <1>1, AtHand DEF Stands, Caught, Marking
  <2> QED
    BY <1>1, <1>6, <2>1, TurnGrows, TotalType, HooksAreFinite DEF Owed
<1>9. There(p)' /\ InHand(p)' /\ ~Has(p, "rerun")'
  BY <1>1, <1>3, <1>4, <1>5, AtHand DEF There, InHand, Has, Finding, Working, Marking
<1>10. Owed(p)'
  <2>1. HookCount' = HookCount /\ HookCount \in Nat
    BY HooksAreFinite DEF HookCount
  <2> QED
    BY <1>1, <1>4, <1>7, <1>8, <2>1, TurnGrows, TotalType DEF Owed, Caught
<1>11. Balanced'
  <2> SUFFICES Total' <= Allowed' + Cardinality(Filed')
    BY DEF Balanced
  <2>1. Filed' \in SUBSET HookNames /\ Cardinality(Filed') \in Nat
    <3>1. Filed' \in SUBSET HookNames
      BY TotalType DEF Filed
    <3> QED
      BY <3>1, HooksAreFinite
  <2>2. CASE st' = copy'[p] /\ cid[p] = ctr.id
    <3>1. Filed' = Ran' \cap copy'[p].hooks
      BY <1>1, <1>3, <2>2 DEF Filed
    <3> QED
      BY <1>4, <1>7, <1>8, <2>2, <3>1, TurnGrows, TotalType
  <2>3. CASE st' = copy'[p] /\ cid[p] = ByName
    BY <1>4, <1>8, <2>1, <2>3, TurnGrows, TotalType
  <2>4. CASE st' = st /\ Spend("failure")
    <3>1. Filed' = Filed /\ Weight \in Nat /\ Weight >= 1
      BY <1>1, <1>2, <1>4, <2>4, WeightType DEF Filed
    <3>2. Total <= Allowed + Cardinality(Filed) \/ Total <= Allowed + Cardinality(Filed) + 1
      BY <1>1, AtHand DEF Balanced
    <3> QED
      BY <1>4, <2>4, <3>1, <3>2, TurnGrows, TotalType, FiledType
  <2> QED
    BY <1>1, <1>5, <2>2, <2>3, <2>4, AtHand
<1> QED
  BY <1>9, <1>10, <1>11, DebtStep DEF Stands

LEMMA DebtOfStarting ==
  ASSUME Turn, NEW p \in Procs, PostStart(p), ~Fail(p)
  PROVE  DebtInv'
<1> USE DEF Turn, DebtInv
<1>1. /\ pc[p] = "poststart" /\ pc'[p] = "final" /\ pc[p] \in Working
      /\ UNCHANGED <<nextId, st, dir, cmd, cid, my, copy>>
      /\ ctr' = [ctr EXCEPT !.started = TRUE]
  BY DEF PostStart, Goto, TypeOK, host, memory, Working, Marking
<1>2. Present' /\ SameRuns /\ Ran' = Ran /\ Total' = Total /\ ctr'.id = ctr.id
  <2>1. ctr'.id = ctr.id /\ ctr'.ran = ctr.ran /\ ctr' \in Containers
    BY <1>1, AtHand DEF Containers
  <2>2. Present /\ Present'
    BY <1>1, <2>1, AtHand, NoCtrAssumption DEF Present
  <2> QED
    BY <1>1, <2>1, <2>2, TotalStays DEF SameRuns
<1>3. Balanced'
  <2>1. \A q \in Procs : pc[q] # "mark"
    BY <1>1, AtHand
  <2> QED
    BY <1>1, <1>2, <2>1, BalanceKept
<1>4. There(p)' /\ InHand(p)' /\ ~Has(p, "rerun")'
  BY <1>1, <1>2, AtHand DEF Stands, There, InHand, Has, Finding, Working, Marking
<1>5. Owed(p)'
  <2>1. PICK c \in Nat, o \in Nat :
          /\ c = Cardinality(copy[p].hooks) /\ o = Cardinality(Ran \cap copy[p].hooks)
          /\ cid[p] = ctr.id => Total <= Allowed + o
          /\ cid[p] = ByName => Total <= Allowed /\ Total + HookCount <= Allowed + c
    BY <1>1, OwedBetween DEF Marking
  <2> QED
    BY <1>1, <1>2, <2>1, TurnGrows, TotalType, HooksAreFinite DEF Owed, Caught, HookCount
<1> QED
  BY <1>3, <1>4, <1>5, DebtStep DEF Stands

LEMMA DebtOfSaving ==
  ASSUME Turn, NEW p \in Procs, SaveHooks(p), ~Fail(p)
  PROVE  DebtInv'
<1> USE DEF Turn, DebtInv
<1>1. /\ pc[p] = "final" /\ pc'[p] = "probe" /\ pc[p] \in Working
      /\ UNCHANGED <<ctr, nextId, dir, cmd, cid, my, copy>> /\ st' = copy[p]
  BY DEF SaveHooks, Goto, TypeOK, memory, Working, Marking
<1>2. Present' /\ SameRuns /\ Ran' = Ran /\ Total' = Total
  BY <1>1, AtHand, TotalStays DEF SameRuns, Present
<1>3. PICK c \in Nat, o \in Nat :
        /\ c = Cardinality(copy[p].hooks) /\ o = Cardinality(Ran \cap copy[p].hooks)
        /\ cid[p] = ctr.id => Total <= Allowed + o
        /\ cid[p] = ByName => Total <= Allowed /\ Total + HookCount <= Allowed + c
  BY <1>1, OwedBetween DEF Marking
<1>4. copy[p].cid = cid[p]
  BY <1>1, AtHand DEF Stands, InHand, Marking
<1>5. Balanced'
  <2> SUFFICES Total' <= Allowed' + Cardinality(Filed')
    BY DEF Balanced
  <2>1. CASE cid[p] = ctr.id
    <3>1. Filed' = Ran \cap copy[p].hooks
      BY <1>1, <1>2, <1>4, <2>1 DEF Filed
    <3> QED
      BY <1>2, <1>3, <2>1, <3>1, TurnGrows, TotalType
  <2>2. CASE cid[p] = ByName
    <3>1. Filed' \in SUBSET HookNames
      BY TotalType DEF Filed
    <3>2. Cardinality(Filed') \in Nat
      BY <3>1, HooksAreFinite
    <3> QED
      BY <1>2, <1>3, <2>2, <3>2, TurnGrows, TotalType
  <2> QED
    BY <1>1, <2>1, <2>2, AtHand
<1>6. There(p)' /\ InHand(p)' /\ ~Has(p, "rerun")'
  BY <1>1, <1>2, AtHand DEF Stands, There, InHand, Has, Finding, Working, Marking
<1>7. Owed(p)'
  BY <1>1, <1>2, <1>3, TurnGrows, TotalType DEF Owed, Marking
<1> QED
  BY <1>5, <1>6, <1>7, DebtStep DEF Stands

LEMMA DebtOfProbing ==
  ASSUME Turn, NEW p \in Procs, LoadProbe(p) \/ RunProbe(p) \/ SaveProbe(p) \/ ProbeFails(p)
  PROVE  DebtInv'
<1> USE DEF Turn, DebtInv
<1>1. /\ pc[p] \in {"probe", "probing", "probe_save"} /\ pc[p] \in Working
      /\ UNCHANGED <<ctr, nextId, cmd, my, cid>>
  BY DEF LoadProbe, RunProbe, SaveProbe, ProbeFails, Working, shared, memory
<1>2. /\ Present' /\ SameRuns /\ Ran' = Ran /\ Total' = Total
      /\ \A q \in Procs : pc[q] # "mark"
      /\ Total <= Allowed + Cardinality(Filed)
      /\ cid[p] = ByName => Total <= Allowed
  <2>1. Present' /\ SameRuns /\ \A q \in Procs : pc[q] # "mark"
    BY <1>1, AtHand DEF SameRuns, Present
  <2>2. cid[p] = ByName => Total <= Allowed
    BY <1>1, AtHand DEF Stands, Owed
  <2>3. Total <= Allowed + Cardinality(Filed)
    BY <1>1, <2>1, AtHand DEF Balanced
  <2> QED
    BY <2>1, <2>2, <2>3, TotalStays
<1>3. ASSUME pc'[p] \in {"probing", "probe_save", "keys"}, InHand(p)'
      PROVE  Stands(p)'
  <2>1. There(p)' /\ ~Has(p, "rerun")'
    BY <1>1, <1>2, <1>3, AtHand DEF There, Has, Finding, Working, Marking
  <2>2. Owed(p)'
    BY <1>1, <1>2, <1>3, TurnGrows, TotalType DEF Owed, Working, Marking
  <2> QED
    BY <1>3, <2>1, <2>2 DEF Stands
<1>4. CASE LoadProbe(p)
  <2>1. /\ st' = st
        /\ \/ pc'[p] = "probing" /\ copy'[p] = st
           \/ pc'[p] = "keys"
    BY <1>4 DEF LoadProbe, Goto, TypeOK
  <2>2. InHand(p)'
    BY <2>1 DEF InHand, Marking
  <2> QED
    BY <1>2, <1>3, <2>1, <2>2, BalanceKept, DebtStep
<1>5. CASE RunProbe(p) \/ ProbeFails(p)
  <2>1. PICK seen \in Probes :
          copy' = [copy EXCEPT ![p] = [@ EXCEPT !.probe = seen,
                                                !.version = my[p].version,
                                                !.cid = cid[p]]]
    BY <1>5 DEF RunProbe, ProbeFails, Probes
  <2>2. copy'[p].hooks = copy[p].hooks /\ copy'[p].cid = cid[p]
    <3>1. copy[p] \in States /\ copy \in [Procs -> States]
      BY DEF TypeOK
    <3> QED
      BY <2>1, <3>1 DEF States
  <2>3. st' = st /\ pc'[p] = "probe_save" /\ copy[p].hooks = st.hooks
    <3>1. Stands(p) /\ pc[p] = "probing"
      BY <1>5 DEF RunProbe, ProbeFails
    <3> QED
      BY <1>5, <3>1 DEF RunProbe, ProbeFails, shared, host, Goto, TypeOK, Stands, InHand
  <2>4. InHand(p)'
    BY <1>1, <2>2, <2>3 DEF InHand, Marking
  <2> QED
    BY <1>2, <1>3, <2>3, <2>4, BalanceKept, DebtStep
<1>6. CASE SaveProbe(p)
  <2>1. /\ copy' = copy /\ pc'[p] = "keys" /\ st' \in {st, copy[p]}
        /\ copy[p].hooks = st.hooks /\ copy[p].cid = cid[p]
    <3>1. Stands(p) /\ pc[p] = "probe_save"
      BY <1>6 DEF SaveProbe
    <3> QED
      BY <1>6, <3>1 DEF SaveProbe, Save, memory, Goto, TypeOK, Stands, InHand
  <2>2. InHand(p)'
    BY <2>1 DEF InHand, Marking
  <2>3. Balanced'
    <3> SUFFICES ASSUME st' = copy[p] PROVE Total' <= Allowed' + Cardinality(Filed')
      BY <1>2, <2>1, BalanceKept DEF Balanced
    <3>1. Filed' \in SUBSET HookNames
      BY TotalType DEF Filed
    <3>2. Cardinality(Filed') \in Nat
      BY <3>1, HooksAreFinite
    <3>3. CASE cid[p] = ctr.id
      <4>1. Filed \in SUBSET Filed'
        BY <1>1, <1>2, <2>1, <3>3 DEF Filed
      <4>2. Cardinality(Filed) <= Cardinality(Filed')
        BY <3>1, <4>1, FewerHooks
      <4> QED
        BY <1>2, <3>2, <4>2, TurnGrows, TotalType, FiledType
    <3>4. CASE cid[p] = ByName
      BY <1>2, <3>2, <3>4, TurnGrows, TotalType
    <3> QED
      BY <1>1, <3>3, <3>4, AtHand
  <2> QED
    BY <1>3, <2>1, <2>2, <2>3, DebtStep
<1> QED
  BY <1>4, <1>5, <1>6

LEMMA DebtOfStep ==
  ASSUME Turn, NEW p \in Procs, WsStep(p)
  PROVE  DebtInv'
<1> SUFFICES ASSUME ~Fail(p) PROVE DebtInv'
  BY DebtOfFailure
<1>1. ~Reject(p) /\ ~ExecFails(p)
  BY DEF Reject, ExecFails
<1>2. HookStep(p) => DebtInv'
  BY DebtOfLoading, DebtOfRunning, DebtOfMarking, DebtOfStarting, DebtOfSaving, DebtOfProbing
     DEF HookStep
<1>3. CASE ~Rejected(p) /\ project.compose /\ ComposeStep(p)
  BY <1>1, <1>2, <1>3, DebtOfFinding, DebtOfPersistingCompose, DebtOfProbing,
     DebtOfProvision, DebtElsewhere DEF ComposeStep, PostUp, OtherStep
<1>4. CASE ~Rejected(p) /\ ~project.compose /\ Step(p)
  BY <1>2, <1>4, DebtOfFinding, DebtOfPersisting, DebtOfProvision, DebtElsewhere
     DEF Step, UpStep
<1>5. CASE ~Rejected(p) /\ AutoDown(p)
  BY <1>5, DebtElsewhere
<1> QED
  BY <1>1, <1>3, <1>4, <1>5 DEF WsStep

(* Nobody passes --rerun-hooks, which is there to run the hooks again.      *)
NoRerun == \A c \in Commands : "rerun" \notin c.flags

LEMMA DebtOfBeginning ==
  ASSUME NoRerun, Turn, NEW p \in Procs, NEW c \in Commands, Begin(p, c)
  PROVE  DebtInv'
<1> USE DEF Turn, DebtInv
<1>1. /\ UNCHANGED <<ctr, nextId, st>> /\ cmd'[p] = c /\ pc'[p] = Entry(c) /\ pc[p] = "idle"
  BY DEF Begin, Goto, TypeOK, shared, host
<1>2. c.kind \in Kinds /\ "rerun" \notin c.flags
  BY LifecycleAssumption DEF NoRerun
<1>3. pc'[p] \notin {"persist", "purge"} \cup Finding \cup Working
  BY <1>1, <1>2 DEF Entry, Kinds, Finding, Working, Marking
<1>4. Stands(p)'
  BY <1>1, <1>2, <1>3 DEF Stands, There, InHand, Owed, Has, Finding, Working, Marking
<1>5. Balanced'
  BY <1>1, BalanceKept DEF SameRuns, OneAtATime
<1> QED
  BY <1>4, <1>5, DebtStep

(* An edit, an exit, or nothing at all.                                     *)
LEMMA DebtOutside ==
  ASSUME DebtInv, TypeOK', Pending', [WsNext]_wsvars, Edit \/ Exit \/ UNCHANGED wsvars
  PROVE  DebtInv'
<1> USE DEF DebtInv
<1>1. UNCHANGED <<nextId, dir, st, pc, cmd, my, cid, copy, project>>
  BY DEF Edit, Exit, WsNext, host, private, memory, wsvars, vars, shared
<1>2. /\ Present <=> Present'
      /\ Present => ctr'.id = ctr.id /\ ctr'.ran = ctr.ran
  <2>1. CASE Exit
    <3>1. ctr \in Containers /\ ctr' \in Containers
      BY <2>1 DEF Exit, Running, Present, TypeOK, Containers
    <3> QED
      BY <2>1, <3>1, NoCtrAssumption DEF Exit, Running, Present, Containers
  <2>2. CASE ctr' = ctr
    BY <2>2 DEF Present
  <2> QED
    BY <2>1, <2>2 DEF Edit, wsvars, vars, shared
<1>3. Present => Ran' = Ran /\ Total' = Total /\ Filed' = Filed
  BY <1>1, <1>2 DEF Ran, Repetitions, Total, Filed
<1>4. Allowed \in Nat /\ Allowed' \in Nat /\ Allowed <= Allowed' /\ Spared'
  BY AllowedGrows
<1>5. Balanced'
  BY <1>1, <1>2, <1>3, <1>4, TotalType, FiledType DEF Balanced
<1>6. ASSUME NEW p \in Procs
      PROVE  Stands(p)'
  <2>1. Stands(p) /\ NextHook(p)' = NextHook(p)
    BY <1>1 DEF NextHook, Unmarked
  <2>2. There(p)' /\ InHand(p)' /\ ~Has(p, "rerun")'
    BY <1>1, <1>2, <1>3, <2>1 DEF Stands, There, InHand, Has, Finding, Working, Marking
  <2>3. Owed(p)'
    <3>1. CASE pc[p] \in Working
      <4>1. Present /\ copy[p].hooks \in SUBSET HookNames /\ Ran \in SUBSET HookNames
        BY <2>1, <3>1, TotalType DEF Stands, There, TypeOK, States
      <4>2. PICK c \in Nat, o \in Nat, e \in {0, 1} :
              /\ c = Cardinality(copy[p].hooks) /\ o = Cardinality(Ran \cap copy[p].hooks)
              /\ e = Caught(p)
        <5>1. Ran \cap copy[p].hooks \in SUBSET HookNames
          BY <4>1
        <5> QED
          BY <4>1, <5>1, HooksAreFinite DEF Caught
      <4>3. /\ Cardinality(copy'[p].hooks) = c /\ Cardinality(Ran' \cap copy'[p].hooks) = o
            /\ Caught(p)' = e /\ HookCount' = HookCount /\ HookCount \in Nat
        BY <1>1, <1>3, <4>1, <4>2, HooksAreFinite DEF Caught, HookCount
      <4> QED
        BY <1>1, <1>2, <1>3, <1>4, <2>1, <4>1, <4>2, <4>3, TotalType DEF Stands, Owed
    <3>2. CASE pc[p] \notin Working
      BY <1>1, <3>2 DEF Owed, Working
    <3> QED
      BY <3>1, <3>2
  <2> QED
    BY <2>2, <2>3 DEF Stands
<1> QED
  BY <1>4, <1>5, <1>6

LEMMA DebtNext ==
  ASSUME OneAtATime, NoRerun, DebtInv, [WsNext]_wsvars
  PROVE  DebtInv'
<1>1. TypeOK' /\ Pending'
  <2>1. ASSUME NEW p \in Procs, ComposeOnly(p)
        PROVE  TypeOK' /\ Pending'
    BY <2>1, ComposeOnlyType, ComposeOnlyIsPrivate, UnmarkedIsPrivate
       DEF DebtInv, Pending, Untouched
  <2> QED
    BY <2>1, WsSteps, TypeStep, PendingStep DEF DebtInv
<1>2. CASE Edit \/ Exit \/ UNCHANGED wsvars
  BY <1>1, <1>2, DebtOutside
<1>3. CASE WsNext /\ ~(Edit \/ Exit)
  <2>1. Turn
    BY <1>1, <1>3 DEF Turn
  <2> QED
    BY <1>3, <2>1, DebtOfStep, DebtOfCrash, DebtOfBeginning DEF WsNext
<1> QED
  BY <1>2, <1>3

LEMMA DebtInit == WsInit => DebtInv
<1> SUFFICES ASSUME WsInit PROVE DebtInv
  OBVIOUS
<1>1. TypeOK /\ Pending
  BY InitType DEF WsInit, Init, Pending
<1>2. Spared /\ Balanced
  BY LifecycleAssumption DEF WsInit, Init, Spared, Balanced, Used, Present, Events
<1>3. \A p \in Procs : Stands(p)
  BY DEF WsInit, Init, Stands, There, InHand, Owed, Has, NoCommand, Finding, Working, Marking
<1> QED
  BY <1>1, <1>2, <1>3 DEF DebtInv

LEMMA DebtIsPaid ==
  ASSUME DebtInv, Present
  PROVE  Cardinality(Repetitions) <= Allowed
<1> USE DEF DebtInv
<1>1. Allowed \in Int
  <2>1. Used("crash") \in Int /\ Used("failure") \in Int /\ Weight \in Int
    BY LifecycleAssumption, WeightType DEF TypeOK, Events, Used
  <2> QED
    BY <2>1 DEF Allowed
<1>2. PICK t \in Nat, r \in Nat : t = Cardinality(Repetitions) /\ r = Cardinality(Ran)
  <2>1. Repetitions \in SUBSET (HookNames \X (2..MaxRuns))
    BY DEF Repetitions
  <2> QED
    BY <2>1, RunsAreFinite, TotalType
<1>3. Total = t + r
  BY <1>2 DEF Total
<1>4. CASE Total <= Allowed + Cardinality(Filed)
  BY <1>1, <1>2, <1>3, <1>4, FiledType
<1>5. CASE \E p \in Procs : pc[p] = "mark" /\ Total <= Allowed + Cardinality(Filed) + 1
  <2>1. PICK p \in Procs : pc[p] = "mark" /\ Total <= Allowed + Cardinality(Filed) + 1
    BY <1>5
  <2>2. There(p) /\ InHand(p) /\ Owed(p) /\ pc[p] \in Working /\ pc[p] \in Marking
    BY <2>1 DEF Stands, Working, Marking
  <2>3. CASE cid[p] = ctr.id
    <3>1. PICK h \in HookNames : h = NextHook(p) /\ h \notin copy[p].hooks /\ h \in Ran
      BY <2>1, <2>2, NextHookIsUnmarked DEF Pending, InHand
    <3>2. h \notin Filed
      BY <2>2, <2>3, <3>1 DEF Filed, InHand
    <3>3. Filed \in SUBSET HookNames /\ Filed \cup {h} \in SUBSET Ran /\ Ran \in SUBSET HookNames
      BY <3>1, FiledType, TotalType
    <3>4. Cardinality(Filed) + 1 <= r
      BY <1>2, <3>2, <3>3, OneHookMore, FewerHooks
    <3> QED
      BY <1>1, <1>2, <1>3, <2>1, <3>4, FiledType
  <2>4. CASE cid[p] = ByName
    BY <1>1, <1>2, <1>3, <2>2, <2>4 DEF Owed
  <2> QED
    BY <2>2, <2>3, <2>4 DEF There
<1> QED
  BY <1>4, <1>5 DEF Balanced

(* runLifecycleHooks saves a marker after every hook and starts over only    *)
(* for a new container: whatever ups come one after the other, with or      *)
(* without --recreate and --skip-hooks, failing or killed anywhere, create   *)
(* hooks are repeated no more often than the faults account for, one run    *)
(* for a crash or a marker that was not saved, and two rounds of hooks for   *)
(* an inspection that failed.                                               *)
THEOREM HooksRepeatOnlyForFaults ==
  ASSUME OneAtATime, NoRerun
  PROVE  WsSpec => []HooksRepeatOnlyAfterFaults
<1>1. DebtInv => HooksRepeatOnlyAfterFaults
  BY DebtIsPaid DEF HooksRepeatOnlyAfterFaults, Allowed, Weight, HookCount
<1> QED
  BY <1>1, DebtInit, DebtNext, PTL DEF WsSpec

----------------------------------------------------------------------------
(* Bring-ups side by side, nothing of which fails or is killed, beside       *)
(* commands for other services.  Whoever makes the container, or finds one   *)
(* that runs, either finishes or is overtaken by a bring-up that removes the *)
(* container and makes another.                                              *)
NoFaults == Budget["crash"] = 0 /\ Budget["failure"] = 0 /\ Budget["exit"] = 0

OnlyBringUps ==
  \A c \in Commands :
    \/ c.kind \in {"up", "ssh"}
    \/ c.kind \in {"stop", "restart", "down"} /\ "others" \in c.flags /\ "own" \notin c.flags

OneContainer == \A kind \in Projects : ~kind.pulls /\ ~kind.scaled

Faultless == budget["crash"] = 0 /\ budget["failure"] = 0 /\ budget["exit"] = 0

(* Only a bring-up for the workspace's service touches its container.       *)
Guarded(p) ==
  /\ pc[p] \notin {"stopping", "restarting", "removing", "purge", "purge_ssh", "rotate"}
  /\ pc[p] \in {"stop", "restart", "down"} => Has(p, "others") /\ ~Has(p, "own")
  /\ project.compose /\ pc[p] \in {"remove", "create", "start"} => Covers(p)

Finished ==
  /\ Present /\ ctr.running /\ ctr.started
  /\ Configured \subseteq Ran
  /\ ctr.agent # NoVersion
  /\ keys # 0 /\ ctr.secrets = keys
  /\ ssh

Carrying == {"start", "persist", "persist_load", "persist_save", "resolve", "hooks"}
              \cup Marking \cup Recorded

(* p brings the present container up, with nothing in its way.              *)
Carries(p) ==
  /\ pc[p] \in Carrying /\ Present
  /\ project.compose => Covers(p)
  /\ pc[p] # "start" => ctr.running
  /\ pc[p] \in {"persist_load", "persist_save", "resolve"} /\ project.compose => Mine(p)
  /\ pc[p] \in {"hooks"} \cup Marking \cup Recorded => Mine(p)
  /\ pc[p] \in Marking => dir
  /\ pc[p] \in {"final"} \cup Recorded => ctr.started
  /\ pc[p] \in {"probe_save"} \cup Providing => Configured \subseteq Ran
  /\ pc[p] \in Providing \ {"keys"} => keys # 0
  /\ pc[p] \in {"secrets", "sshconf"} => ctr.agent # NoVersion
  /\ pc[p] = "sshconf" => ctr.secrets = keys

(* Up to the bound on ids, a container that is there is finished or carried, *)
(* and one that was removed is about to be made anew.                       *)
Held ==
  nextId <= MaxId =>
    /\ Present => Finished \/ \E p \in Procs : Carries(p)
    /\ ~Present /\ nextId > FirstId => \E p \in Procs : pc[p] = "create"

Undivided == ~project.pulls /\ ~project.scaled

RaceInv == Inv /\ Undivided /\ Faultless /\ (\A p \in Procs : Guarded(p)) /\ Held

(* The next step is p's, none of which is a failure of the surroundings.    *)
Racing(p) == RaceInv /\ Inv' /\ WsStep(p) /\ UNCHANGED project

LEMMA NothingFails ==
  ASSUME TypeOK, Faultless
  PROVE  ~Spend("crash") /\ ~Spend("failure") /\ ~Spend("exit")
BY DEF Faultless, Spend

LEMMA StaysFaultless ==
  ASSUME TypeOK, Faultless, [WsNext]_wsvars
  PROVE  Faultless'
<1>1. budget' = budget \/ Spend("command") \/ Spend("edit")
  <2>1. CASE \E p \in Procs : WsStep(p)
    BY <2>1, WsStepBudget, NothingFails
  <2> QED
    BY <2>1, NothingFails DEF WsNext, wsvars, vars, Abort, Begin, Edit, Exit
<1> QED
  BY <1>1 DEF TypeOK, Events, Spend, Faultless

(* What a step of p may be.                                                 *)
FailsAtOnce(p) == Fail(p) /\ (Reject(p) \/ ExecFails(p) \/ Return(p))

Aside(p) ==
  /\ project.compose /\ Named(p) /\ ~Has(p, "own") /\ ~Rejected(p)
  /\ ComposeStop(p) \/ ComposeRestart(p) \/ ComposeDown(p) \/ AutoDown(p)

SingleOnly(p) ==
  /\ ~project.compose
  /\ \/ Find(p) \/ CreateContainer(p) \/ PersistLoad(p) \/ PersistSave(p) \/ Resolve(p)
     \/ Attach(p) \/ Reattach(p)

ServiceOnly(p) ==
  /\ project.compose
  /\ \/ ComposeUp(p) \/ ComposeCreate(p) \/ NotCovered(p) \/ FindService(p)
     \/ PersistCompose(p) \/ PersistComposeSave(p) \/ ComposeAttach(p)
     \/ ProbeFails(p) /\ pc[p] = "probing"

Either(p) ==
  \/ StartContainer(p) \/ RemoveContainer(p) \/ HookStep(p) \/ ProvisionStep(p) \/ Serve(p)

LEMMA RacingSteps ==
  ASSUME NEW p \in Procs, Racing(p)
  PROVE  FailsAtOnce(p) \/ SingleOnly(p) \/ ServiceOnly(p) \/ Either(p) \/ Aside(p)
<1>1. Guarded(p) /\ (Reject(p) => FailsAtOnce(p))
  BY DEF Racing, RaceInv, Reject, FailsAtOnce
<1>2. (ExecFails(p) => FailsAtOnce(p)) /\ (Return(p) => FailsAtOnce(p))
  BY DEF ExecFails, Return, FailsAtOnce
<1>3. pc[p] \in {"stop", "restart", "down"} /\ ~project.compose => Rejected(p)
  BY <1>1 DEF Guarded, Rejected, Named
<1>4. CASE ~project.compose /\ ~Reject(p)
  <2>1. Step(p) \/ AutoDown(p)
    BY <1>4 DEF Racing, WsStep
  <2>2. ~Rejected(p) /\ ~AutoDown(p)
    BY <1>3, <1>4 DEF Racing, WsStep, AutoDown
  <2>3. OtherStep(p) => Attach(p) \/ Reattach(p) \/ Serve(p) \/ Return(p)
    BY <1>1, <1>3, <1>4, <2>2
       DEF OtherStep, StopFind, Stop, RestartFind, Restart, DownFind, DownRemove, PurgeState,
           PurgeSSHConfig, RotateKeys, Guarded
  <2> QED
    BY <1>2, <1>4, <2>1, <2>2, <2>3 DEF Step, UpStep, SingleOnly, Either
<1>5. CASE project.compose /\ ~Reject(p)
  <2>1. ~Rejected(p) /\ (ComposeStep(p) \/ AutoDown(p))
    BY <1>5 DEF Racing, WsStep
  <2>2. ~PurgeState(p) /\ ~PurgeSSHConfig(p) /\ ~RotateKeys(p)
    BY <1>1 DEF PurgeState, PurgeSSHConfig, RotateKeys, Guarded
  <2>3. PostUp(p) => FailsAtOnce(p) \/ Either(p) \/ ServiceOnly(p)
    BY <1>2, <1>5 DEF PostUp, ProbeFails, Either, ServiceOnly
  <2>4. ComposeStop(p) \/ ComposeRestart(p) \/ ComposeDown(p) \/ AutoDown(p) => Aside(p)
    BY <1>1, <1>5, <2>1 DEF ComposeStop, ComposeRestart, ComposeDown, AutoDown, Guarded, Named, Aside
  <2> QED
    BY <1>2, <1>5, <2>1, <2>2, <2>3, <2>4 DEF ComposeStep, Either, ServiceOnly
<1> QED
  BY <1>1, <1>4, <1>5

(* What is on the host stays, and so does the container, with what is in it. *)
HostGrows ==
  /\ keys # 0 => keys' = keys
  /\ ssh => ssh'
  /\ dir => dir'

Grows ==
  /\ nextId' = nextId /\ HostGrows
  /\ Present /\ Present' /\ ctr'.id = ctr.id /\ Ran \subseteq Ran'
  /\ ctr.running => ctr'.running /\ (ctr.started => ctr'.started)
  /\ ctr.agent # NoVersion => ctr'.agent # NoVersion
  /\ keys # 0 /\ ctr.secrets = keys => ctr'.secrets = keys'

StaysAway == nextId' = nextId /\ ~Present /\ ~Present'

LEMMA SameContainer ==
  ASSUME ctr' = ctr, nextId' = nextId, HostGrows
  PROVE  Grows \/ StaysAway
BY DEF Grows, StaysAway, HostGrows, Present, Ran

LEMMA HostStays ==
  ASSUME host' = host
  PROVE  HostGrows
BY DEF host, HostGrows

LEMMA VersionsOf ==
  ASSUME TypeOK, NEW p \in Procs
  PROVE  my[p].version # NoVersion
BY LifecycleAssumption DEF TypeOK, Versions

(* The steps on the container that p finds.                                 *)
LEMMA ContainerGrows ==
  ASSUME NEW p \in Procs, Racing(p), ~Fail(p),
         StartContainer(p) \/ PostStart(p) \/ CopyAgent(p) \/ WriteSecrets(p)
         \/ (RunHook(p) /\ Unmarked(p) # {})
  PROVE  Grows
<1> USE DEF Racing, RaceInv, Inv
<1>1. ctr \in Containers /\ Present /\ host' = host /\ nextId' = nextId
  BY DEF StartContainer, PostStart, CopyAgent, WriteSecrets, RunHook, TypeOK, Present, Running
<1>2. HostGrows /\ keys' = keys
  BY <1>1 DEF host, HostGrows
<1>3. CASE RunHook(p) /\ Unmarked(p) # {}
  <2>1. Present' /\ ctr'.id = ctr.id /\ Ran \subseteq Ran'
    BY <1>3, RunHookRan
  <2>2. ctr'.running = ctr.running /\ ctr'.started = ctr.started /\ ctr'.agent = ctr.agent
        /\ ctr'.secrets = ctr.secrets
    BY <1>1, <1>3 DEF RunHook, Containers
  <2> QED
    BY <1>1, <1>2, <2>1, <2>2 DEF Grows
<1>4. ASSUME ctr' \in Containers, ctr'.id = ctr.id, ctr'.ran = ctr.ran,
             ctr.running => ctr'.running /\ (ctr.started => ctr'.started),
             ctr.agent # NoVersion => ctr'.agent # NoVersion,
             keys # 0 /\ ctr.secrets = keys => ctr'.secrets = keys
      PROVE  Grows
  <2>1. Present'
    BY <1>4, NoCtrAssumption DEF Present
  <2> QED
    BY <1>1, <1>2, <1>4, <2>1 DEF Grows, Ran
<1>5. CASE StartContainer(p)
  <2>1. ctr' = ctr \/ (~ctr.running /\ ctr' = [ctr EXCEPT !.running = TRUE, !.started = FALSE])
    BY <1>5 DEF StartContainer
  <2> QED
    BY <1>1, <1>4, <2>1 DEF Containers
<1>6. CASE PostStart(p)
  <2>1. ctr' = [ctr EXCEPT !.started = TRUE]
    BY <1>6 DEF PostStart
  <2> QED
    BY <1>1, <1>4, <2>1 DEF Containers
<1>7. CASE CopyAgent(p)
  <2>1. ctr' = [ctr EXCEPT !.agent = my[p].version] /\ my[p].version \in Versions
        /\ my[p].version # NoVersion
    BY <1>7, VersionsOf DEF CopyAgent, TypeOK, Versions
  <2> QED
    BY <1>1, <1>4, <2>1 DEF Containers
<1>8. CASE WriteSecrets(p)
  <2>1. ctr' = [ctr EXCEPT !.secrets = keys, !.env = env[p]] /\ keys \in Nat /\ env[p] \in Probes
    BY <1>8 DEF WriteSecrets, TypeOK
  <2> QED
    BY <1>1, <1>4, <2>1 DEF Containers
<1> QED
  BY <1>3, <1>5, <1>6, <1>7, <1>8

(* The steps that leave the container alone.                                *)
LEMMA HostSteps ==
  ASSUME NEW p \in Procs, Racing(p), ~Fail(p),
         \/ ~project.compose /\ (Find(p) \/ PersistLoad(p) \/ PersistSave(p)
                                 \/ Resolve(p) \/ Attach(p) \/ Reattach(p))
         \/ LoadHooks(p) \/ (RunHook(p) /\ Unmarked(p) = {}) \/ MarkHook(p) \/ SaveHooks(p)
         \/ LoadProbe(p) \/ RunProbe(p) \/ SaveProbe(p)
         \/ EnsureKeys(p) \/ PrepareAgent(p) \/ WriteSSHConfig(p) \/ Serve(p)
         \/ ComposeUp(p) \/ NotCovered(p) \/ FindService(p) \/ PersistCompose(p)
         \/ PersistComposeSave(p) \/ ComposeAttach(p) \/ ProbeFails(p)
  PROVE  Grows \/ StaysAway
<1>1. ctr' = ctr /\ nextId' = nextId
  BY DEF Find, PersistLoad, PersistSave, Resolve, Attach, Reattach, LoadHooks, RunHook, MarkHook,
         SaveHooks, LoadProbe, RunProbe, SaveProbe, EnsureKeys, PrepareAgent, WriteSSHConfig, Serve,
         ComposeUp, NotCovered, FindService, PersistCompose, PersistComposeSave, ComposeAttach,
         ProbeFails, shared
<1>2. HostGrows
  <2>1. CASE EnsureKeys(p)
    BY <2>1 DEF EnsureKeys, HostGrows
  <2>2. CASE ~EnsureKeys(p)
    <3>1. keys' = keys /\ (dir' = dir \/ dir') /\ (ssh' = ssh \/ ssh')
      BY <2>2 DEF Find, PersistLoad, PersistSave, Resolve, Attach, Reattach, LoadHooks, RunHook,
             MarkHook, SaveHooks, LoadProbe, RunProbe, SaveProbe, PrepareAgent, WriteSSHConfig,
             Serve, ComposeUp, NotCovered, FindService, PersistCompose, PersistComposeSave,
             ComposeAttach, ProbeFails, shared, host
    <3> QED
      BY <3>1 DEF HostGrows
  <2> QED
    BY <2>1, <2>2
<1> QED
  BY <1>1, <1>2, SameContainer

Creates(p) ==
  /\ ~Fail(p)
  /\ \/ ~project.compose /\ CreateContainer(p)
     \/ project.compose /\ ComposeCreate(p)

LEMMA SharedStep ==
  ASSUME NEW p \in Procs, Racing(p)
  PROVE  Grows \/ StaysAway \/ Creates(p) \/ (RemoveContainer(p) /\ ~Fail(p))
<1>1. CASE Fail(p)
  BY <1>1, SameContainer, HostStays DEF Fail, shared
<1>2. CASE ~Fail(p) /\ Aside(p)
  <2>1. ctr' = ctr /\ nextId' = nextId /\ host' = host
    BY <1>2 DEF Aside, ComposeStop, ComposeRestart, ComposeDown, AutoDown, Targeted, shared
  <2> QED
    BY <2>1, SameContainer, HostStays
<1>3. CASE ~Fail(p) /\ (HookStep(p) \/ ProvisionStep(p))
  BY <1>3, ContainerGrows, HostSteps DEF HookStep, ProvisionStep
<1>4. CASE ~Fail(p) /\ (StartContainer(p) \/ Serve(p))
  BY <1>4, ContainerGrows, HostSteps
<1>5. CASE ~Fail(p) /\ ServiceOnly(p)
  BY <1>5, HostSteps DEF ServiceOnly, Creates
<1>6. CASE ~Fail(p) /\ SingleOnly(p)
  BY <1>6, HostSteps DEF SingleOnly, Creates
<1> QED
  BY <1>1, <1>2, <1>3, <1>4, <1>5, <1>6, RacingSteps DEF Either, FailsAtOnce

LEMMA FinishedGrows ==
  ASSUME Finished, Grows
  PROVE  Finished'
BY DEF Finished, Grows, HostGrows

LEMMA BystanderCarries ==
  ASSUME NEW q \in Procs, Carries(q), Untouched(q), Grows, project' = project
  PROVE  Carries(q)'
<1> USE DEF Untouched, Grows, HostGrows
<1>1. pc'[q] = pc[q] /\ Present /\ Present' /\ (Mine(q) => Mine(q)') /\ Covers(q)' = Covers(q)
  BY DEF Carries, Mine, Covers, Targeted, Named, Has
<1>2. pc[q] # "start" => ctr'.running /\ (ctr.started => ctr'.started)
  BY DEF Carries
<1>3. /\ pc[q] \in Marking => dir'
      /\ pc[q] \in Providing \ {"keys"} => keys # 0 /\ keys' = keys
  BY DEF Carries
<1>4. /\ pc[q] \in {"probe_save"} \cup Providing => Configured \subseteq Ran'
      /\ pc[q] \in {"secrets", "sshconf"} => ctr'.agent # NoVersion
  BY DEF Carries
<1>5. pc[q] = "sshconf" => ctr'.secrets = keys'
  BY <1>3 DEF Carries, Providing
<1>6. pc[q] \in {"final"} \cup Recorded => pc[q] # "start"
  BY DEF Recorded, Providing
<1> QED
  BY <1>1, <1>2, <1>3, <1>4, <1>5, <1>6 DEF Carries

(* A bring-up that makes the container carries it.                          *)
LEMMA CreatorCarries ==
  ASSUME NEW p \in Procs, Racing(p), Creates(p)
  PROVE  Carries(p)'
<1> USE DEF Racing, RaceInv, Inv
<1>1. Present'
  <2>1. nextId \in Nat \ {Unset, ByName} /\ ctr'.id = nextId
    BY DEF Creates, CreateContainer, ComposeCreate, FreshContainer, TypeOK
  <2>2. ctr' \in Containers
    <3>1. [h \in HookNames |-> 0] \in [HookNames -> 0..MaxRuns] /\ NoProbe \in Probes
      BY LifecycleAssumption DEF Probes
    <3>2. FreshContainer(p) \in Containers
      BY <2>1, <3>1 DEF FreshContainer, Containers, TypeOK
    <3> QED
      BY <3>2 DEF Creates, CreateContainer, ComposeCreate, Containers
  <2> QED
    BY <2>2, NoCtrAssumption DEF Present
<1>2. CASE ~project.compose
  <2>1. pc'[p] = "persist" /\ ctr'.running
    BY <1>2 DEF Creates, CreateContainer, FreshContainer, Goto, TypeOK
  <2> QED
    BY <1>1, <1>2, <2>1 DEF Carries, Carrying, Marking, Recorded, Providing
<1>3. CASE project.compose
  <2>1. pc'[p] = "start" /\ pc[p] = "create" /\ cmd' = cmd
    BY <1>3 DEF Creates, ComposeCreate, Goto, TypeOK, memory
  <2>2. Covers(p)'
    BY <1>3, <2>1 DEF Guarded, Covers, Targeted, Named, Has
  <2> QED
    BY <1>1, <2>1, <2>2 DEF Carries, Carrying, Marking, Recorded, Providing
<1> QED
  BY <1>2, <1>3

(* The steps of a bring-up that carries the container; none of them fails.  *)
Advances(p) ==
  \/ StartContainer(p) \/ HookStep(p) \/ ProvisionStep(p)
  \/ ~project.compose /\ (PersistLoad(p) \/ PersistSave(p) \/ Resolve(p))
  \/ project.compose /\ (FindService(p) \/ PersistCompose(p) \/ PersistComposeSave(p))

LEMMA CarrierSteps ==
  ASSUME NEW p \in Procs, Racing(p), Carries(p)
  PROVE  ~Fail(p) /\ Advances(p)
<1> USE DEF Racing, RaceInv, Inv
<1>1. pc[p] \in Carrying
  BY DEF Carries
<1>2. Advances(p)
  <2>1. ~(Find(p) \/ CreateContainer(p) \/ Attach(p) \/ Reattach(p) \/ RemoveContainer(p) \/ Serve(p))
    BY <1>1 DEF Find, CreateContainer, Attach, Reattach, RemoveContainer, Serve, Carrying, Marking,
                Recorded, Providing
  <2>2. ~(ComposeUp(p) \/ ComposeCreate(p) \/ ComposeAttach(p) \/ Aside(p))
    BY <1>1 DEF ComposeUp, ComposeCreate, ComposeAttach, Aside, ComposeStop, ComposeRestart,
                ComposeDown, AutoDown, Carrying, Marking, Recorded, Providing
  <2>3. ~(project.compose /\ NotCovered(p))
    BY DEF NotCovered, Carries
  <2>4. ~(ProbeFails(p) /\ pc[p] = "probing")
    BY DEF ProbeFails, Gone, Carries, Mine, Recorded
  <2>5. ~FailsAtOnce(p)
    BY <1>1 DEF FailsAtOnce, Reject, Return, ExecFails, Executes, Gone, Carries, Mine, Carrying,
                Marking, Recorded, Providing
  <2> QED
    BY <2>1, <2>2, <2>3, <2>4, <2>5, RacingSteps DEF SingleOnly, ServiceOnly, Either, Advances
<1>3. pc'[p] # "idle"
  <2> USE DEF Goto, TypeOK
  <2>1. CASE StartContainer(p)
    BY <2>1 DEF StartContainer, Carries, Fail
  <2>2. CASE LoadHooks(p) \/ MarkHook(p) \/ LoadProbe(p) \/ RunProbe(p) \/ SaveProbe(p)
    BY <2>2 DEF LoadHooks, MarkHook, LoadProbe, RunProbe, SaveProbe
  <2>3. CASE RunHook(p) \/ PostStart(p) \/ SaveHooks(p)
    BY <2>3 DEF RunHook, PostStart, SaveHooks, Carries, Running, Marking
  <2>4. CASE ProvisionStep(p)
    BY <2>4 DEF ProvisionStep, EnsureKeys, PrepareAgent, CopyAgent, WriteSecrets, WriteSSHConfig,
                Carries, Running, Recorded, Providing
  <2>5. CASE PersistLoad(p) \/ PersistSave(p) \/ Resolve(p) \/ PersistCompose(p) \/ PersistComposeSave(p)
    BY <2>5 DEF PersistLoad, PersistSave, Resolve, PersistCompose, PersistComposeSave
  <2>6. CASE FindService(p)
    BY <2>6 DEF FindService, Found, Undivided, Carries
  <2> QED
    BY <1>2, <2>1, <2>2, <2>3, <2>4, <2>5, <2>6 DEF Advances, HookStep
<1>4. ~Fail(p)
  BY <1>3 DEF Fail, Quit, Goto, TypeOK
<1> QED
  BY <1>2, <1>4

LEMMA CarriedOn ==
  ASSUME NEW p \in Procs, Racing(p), Carries(p)
  PROVE  Carries(p)' \/ Finished'
<1> USE DEF Racing, RaceInv, Inv
<1>1. ~Fail(p) /\ Advances(p)
  BY CarrierSteps
<1>2. Grows
  <2>1. ~Creates(p) /\ ~RemoveContainer(p)
    BY DEF Creates, CreateContainer, ComposeCreate, RemoveContainer, Carries, Carrying, Marking,
           Recorded, Providing
  <2> QED
    BY <2>1, SharedStep DEF StaysAway, Carries
<1>3. Present /\ Present' /\ ctr'.id = ctr.id /\ Ran \subseteq Ran'
      /\ (ctr.running => ctr'.running /\ (ctr.started => ctr'.started))
      /\ (ctr.agent # NoVersion => ctr'.agent # NoVersion)
      /\ (dir => dir') /\ (keys # 0 => keys' = keys)
  BY <1>2 DEF Grows, HostGrows
<1>4. cmd' = cmd
  BY <1>1 DEF Advances, StartContainer, HookStep, ProvisionStep, PersistLoad, PersistSave, Resolve,
         FindService, PersistCompose, PersistComposeSave, LoadHooks, RunHook, MarkHook, PostStart,
         SaveHooks, LoadProbe, RunProbe, SaveProbe, EnsureKeys, PrepareAgent, CopyAgent,
         WriteSecrets, WriteSSHConfig, memory
<1>5. project.compose => Covers(p)'
  BY <1>4 DEF Carries, Covers, Targeted, Named, Has
<1>6. ~Has(p, "skip") /\ Honest(p)
  BY DEF Truth, Honest
<1> USE DEF Goto, TypeOK, Carries, Carrying, Marking, Recorded, Providing
<1>7. CASE StartContainer(p)
  <2>1. pc'[p] = "persist" /\ ctr'.running
    BY <1>1, <1>7 DEF StartContainer, Containers, Present
  <2> QED
    BY <1>3, <1>5, <2>1
<1>8. CASE ~project.compose /\ (PersistLoad(p) \/ PersistSave(p) \/ Resolve(p))
  <2>1. CASE PersistLoad(p) \/ PersistSave(p)
    <3>1. pc'[p] \in {"persist_save", "resolve"} /\ ctr'.running
      BY <1>3, <2>1 DEF PersistLoad, PersistSave
    <3> QED
      BY <1>3, <1>8, <3>1
  <2>2. CASE Resolve(p)
    <3>1. pc'[p] = "hooks" /\ cid'[p] = ctr.id /\ ctr'.running
      BY <1>3, <1>6, <2>2, NothingFails DEF Resolve
    <3> QED
      BY <1>3, <1>8, <3>1 DEF Mine
  <2> QED
    BY <1>8, <2>1, <2>2
<1>9. CASE project.compose /\ (FindService(p) \/ PersistCompose(p) \/ PersistComposeSave(p))
  <2>1. CASE FindService(p)
    <3>1. pc'[p] = "persist_load" /\ cid'[p] = ctr.id /\ ctr'.running
      BY <1>1, <1>3, <2>1 DEF FindService
    <3> QED
      BY <1>3, <1>5, <1>9, <3>1 DEF Mine
  <2>2. CASE PersistCompose(p) \/ PersistComposeSave(p)
    <3>1. pc'[p] \in {"persist_save", "hooks"} /\ cid'[p] = cid[p] /\ ctr'.running
          /\ cid[p] = ctr.id
      BY <1>3, <1>6, <1>9, <2>2 DEF PersistCompose, PersistComposeSave, memory, Mine
    <3> QED
      BY <1>3, <1>5, <1>9, <3>1 DEF Mine
  <2> QED
    BY <1>9, <2>1, <2>2
<1>10. CASE HookStep(p) \/ ProvisionStep(p)
  <2>1. cid' = cid
    BY <1>1, <1>10 DEF HookStep, ProvisionStep, LoadHooks, RunHook, MarkHook, PostStart,
         SaveHooks, LoadProbe, RunProbe, SaveProbe, EnsureKeys, PrepareAgent, CopyAgent,
         WriteSecrets, WriteSSHConfig, memory
  <2>2. Mine(p)' /\ ctr'.running
    <3>1. pc[p] \in {"hooks"} \cup Marking \cup Recorded
      BY <1>10 DEF HookStep, ProvisionStep, LoadHooks, RunHook, MarkHook, PostStart,
         SaveHooks, LoadProbe, RunProbe, SaveProbe, EnsureKeys, PrepareAgent, CopyAgent,
         WriteSecrets, WriteSSHConfig
    <3> QED
      BY <1>3, <2>1, <3>1 DEF Mine
  <2>3. CASE LoadHooks(p) \/ RunHook(p) \/ MarkHook(p)
    <3>1. pc'[p] \in {"run", "mark", "poststart"} /\ dir'
      BY <1>1, <1>3, <2>3 DEF LoadHooks, RunHook, MarkHook
    <3> QED
      BY <1>3, <1>5, <2>2, <3>1
  <2>4. CASE PostStart(p)
    <3>1. pc'[p] = "final" /\ dir' /\ ctr'.started
      BY <1>1, <1>3, <2>4 DEF PostStart, Containers, Running, Present
    <3> QED
      BY <1>3, <1>5, <2>2, <3>1
  <2>5. CASE SaveHooks(p) \/ LoadProbe(p) \/ RunProbe(p) \/ SaveProbe(p)
    <3>1. pc'[p] \in {"probe", "probing", "probe_save", "keys"} /\ ctr'.started
      BY <1>1, <1>3, <2>5 DEF SaveHooks, LoadProbe, RunProbe, SaveProbe
    <3>2. pc'[p] \in {"probe_save", "keys"} => Configured \subseteq Ran
      BY <1>6, <2>5 DEF SaveHooks, LoadProbe, RunProbe, SaveProbe, Honest
    <3> QED
      BY <1>3, <1>5, <2>2, <3>1, <3>2
  <2>6. CASE EnsureKeys(p)
    <3>1. pc'[p] = "prepare" /\ keys' # 0 /\ ctr'.started /\ Configured \subseteq Ran'
      BY <1>1, <1>3, <2>6 DEF EnsureKeys
    <3> QED
      BY <1>3, <1>5, <2>2, <3>1
  <2>7. CASE PrepareAgent(p) \/ CopyAgent(p)
    <3>1. pc'[p] \in {"copy", "secrets"} /\ keys' # 0 /\ ctr'.started /\ Configured \subseteq Ran'
      BY <1>1, <1>3, <2>7 DEF PrepareAgent, CopyAgent
    <3>2. pc'[p] = "secrets" => ctr'.agent # NoVersion
      <4>1. CASE PrepareAgent(p)
        BY <1>1, <4>1, VersionsOf DEF PrepareAgent, shared
      <4>2. CASE CopyAgent(p)
        <5>1. ctr' = [ctr EXCEPT !.agent = my[p].version] /\ ctr \in Containers
          BY <1>1, <1>3, <4>2 DEF CopyAgent, Present
        <5> QED
          BY <5>1, VersionsOf DEF Containers
      <4> QED
        BY <2>7, <4>1, <4>2
    <3> QED
      BY <1>3, <1>5, <2>2, <3>1, <3>2
  <2>8. CASE WriteSecrets(p)
    <3>1. pc'[p] = "sshconf" /\ keys' # 0 /\ ctr'.started /\ Configured \subseteq Ran'
          /\ ctr'.agent # NoVersion
      BY <1>1, <1>3, <2>8 DEF WriteSecrets
    <3>2. ctr'.secrets = keys'
      BY <1>1, <2>8 DEF WriteSecrets, host, Running, Present, Containers
    <3> QED
      BY <1>3, <1>5, <2>2, <3>1, <3>2
  <2>9. CASE WriteSSHConfig(p)
    <3>1. ctr' = ctr /\ keys' = keys /\ ssh' /\ pc[p] = "sshconf"
      BY <2>9 DEF WriteSSHConfig
    <3> QED
      BY <1>3, <2>2, <3>1 DEF Finished
  <2> QED
    BY <1>10, <2>3, <2>4, <2>5, <2>6, <2>7, <2>8, <2>9 DEF HookStep, ProvisionStep
<1> QED
  BY <1>1, <1>7, <1>8, <1>9, <1>10 DEF Advances

(* A container that was removed is made anew by whoever removed it, or by    *)
(* somebody else.                                                           *)
LEMMA RemakersCreate ==
  ASSUME NEW p \in Procs, Racing(p), ~Present, nextId <= MaxId, pc[p] = "create"
  PROVE  Creates(p)
<1>1. SingleOnly(p) \/ ServiceOnly(p) \/ FailsAtOnce(p) \/ Either(p) \/ Aside(p)
  BY RacingSteps
<1>2. (~project.compose /\ CreateContainer(p)) \/ (project.compose /\ ComposeCreate(p))
  <2>1. ~FailsAtOnce(p) /\ ~Aside(p)
    BY DEF FailsAtOnce, Reject, ExecFails, Executes, Return, Aside, ComposeStop, ComposeRestart,
           ComposeDown, AutoDown
  <2>2. ~Either(p)
    BY DEF Either, StartContainer, RemoveContainer, Serve, HookStep, LoadHooks, RunHook, MarkHook,
           PostStart, SaveHooks, LoadProbe, RunProbe, SaveProbe, ProvisionStep, EnsureKeys,
           PrepareAgent, CopyAgent, WriteSecrets, WriteSSHConfig
  <2> QED
    BY <1>1, <2>1, <2>2
       DEF SingleOnly, ServiceOnly, Find, PersistLoad, PersistSave, Resolve, Attach, Reattach,
           ComposeUp, NotCovered, FindService, PersistCompose, PersistComposeSave, ComposeAttach,
           ProbeFails
<1>3. pc'[p] # "idle"
  <2>1. nextId \in Nat /\ MaxId \in Nat
    BY LifecycleAssumption DEF Racing, RaceInv, Inv, TypeOK
  <2> QED
    BY <1>2, <2>1 DEF CreateContainer, ComposeCreate, Goto, Racing, RaceInv, Inv, TypeOK
<1>4. ~Fail(p)
  BY <1>3 DEF Fail, Quit, Goto, Racing, RaceInv, Inv, TypeOK
<1> QED
  BY <1>2, <1>4 DEF Creates

(* Only a bring-up for the workspace's service gets to its container.       *)
LEMMA OwnGuard ==
  ASSUME NEW p \in Procs, Racing(p)
  PROVE  Guarded(p)'
<1> USE DEF Racing, RaceInv, Inv, Undivided, Goto, TypeOK
<1>1. Guarded(p) /\ ~project.pulls /\ project' = project
  OBVIOUS
<1>2. CASE Fail(p)
  BY <1>2 DEF Fail, Quit, Guarded
<1>3. CASE ~Fail(p) /\ Aside(p)
  <2>1. /\ Has(p, "others") /\ ~Has(p, "own") /\ ~Has(p, "purge") /\ cmd' = cmd
        /\ pc'[p] \in {"ok", "stop"}
    BY <1>3 DEF Aside, Named, Rejected, ComposeStop, ComposeRestart, ComposeDown, AutoDown, Removed,
           memory
  <2> QED
    BY <2>1 DEF Guarded, Has
<1>4. ASSUME cmd' = cmd,
             pc'[p] \notin {"stopping", "restarting", "removing", "purge", "purge_ssh", "rotate",
                            "stop", "restart", "down"},
             project.compose /\ pc'[p] \in {"remove", "create", "start"} => Covers(p)
      PROVE  Guarded(p)'
  BY <1>1, <1>4 DEF Guarded, Covers, Targeted, Named, Has
<1>5. CASE ~Fail(p) /\ SingleOnly(p)
  <2>1. ~project.compose /\ cmd' = cmd
    BY <1>5 DEF SingleOnly, Find, CreateContainer, PersistLoad, PersistSave, Resolve, Attach,
           Reattach, memory
  <2>2. pc'[p] \in {"create", "remove", "persist", "start", "persist_save", "resolve", "probe",
                    "hooks", "serve", "find"}
    BY <1>5 DEF SingleOnly, Find, Decide, CreateContainer, PersistLoad, PersistSave, Resolve,
           Attach, Reattach
  <2> QED
    BY <1>4, <2>1, <2>2
<1>6. CASE ~Fail(p) /\ ServiceOnly(p)
  <2>1. cmd' = cmd
    BY <1>6 DEF ServiceOnly, ComposeUp, ComposeCreate, NotCovered, FindService, PersistCompose,
           PersistComposeSave, ComposeAttach, ProbeFails, memory
  <2>2. CASE ComposeUp(p) \/ ComposeCreate(p)
    <3>1. pc'[p] \in {"persist", "create", "remove", "start"}
      BY <1>6, <2>2 DEF ComposeUp, ComposeCreate, Decision
    <3>2. pc'[p] \in {"create", "remove", "start"} => Covers(p)
      BY <1>1, <1>6, <2>2 DEF ServiceOnly, ComposeUp, ComposeCreate, Decision, Guarded
    <3> QED
      BY <1>4, <2>1, <3>1, <3>2
  <2>3. CASE ~(ComposeUp(p) \/ ComposeCreate(p))
    <3>1. pc'[p] \in {"reattach", "ok", "persist_load", "persist_save", "probe", "hooks", "serve",
                      "find", "probe_save"}
      BY <1>6, <2>3 DEF ServiceOnly, NotCovered, FindService, PersistCompose, PersistComposeSave,
             ComposeAttach, ProbeFails
    <3> QED
      BY <1>4, <2>1, <3>1
  <2> QED
    BY <2>2, <2>3
<1>7. CASE ~Fail(p) /\ Either(p)
  <2>1. CASE StartContainer(p) \/ RemoveContainer(p) \/ Serve(p)
    <3>1. cmd' = cmd
      BY <1>7, <2>1 DEF StartContainer, RemoveContainer, Serve, memory
    <3>2. pc'[p] \in {"persist", "create", "ok"} /\ (pc'[p] = "create" => pc[p] = "remove")
      BY <1>7, <2>1 DEF StartContainer, RemoveContainer, Serve
    <3> QED
      BY <1>1, <1>4, <3>1, <3>2 DEF Guarded
  <2>2. CASE HookStep(p) \/ ProvisionStep(p)
    <3>1. cmd' = cmd
      BY <1>7, <2>2 DEF HookStep, ProvisionStep, LoadHooks, RunHook, MarkHook, PostStart, SaveHooks,
             LoadProbe, RunProbe, SaveProbe, EnsureKeys, PrepareAgent, CopyAgent, WriteSecrets,
             WriteSSHConfig, memory
    <3>2. CASE HookStep(p)
      <4>1. pc'[p] \in {"run", "poststart", "mark", "final", "probe", "keys", "probing", "probe_save"}
        BY <1>7, <3>2 DEF HookStep, LoadHooks, RunHook, MarkHook, PostStart, SaveHooks, LoadProbe,
               RunProbe, SaveProbe
      <4> QED
        BY <1>4, <3>1, <4>1
    <3>3. CASE ProvisionStep(p)
      <4>1. pc'[p] \in {"prepare", "secrets", "copy", "sshconf", "reattach", "ok"}
        BY <1>7, <3>3 DEF ProvisionStep, EnsureKeys, PrepareAgent, CopyAgent, WriteSecrets,
               WriteSSHConfig
      <4> QED
        BY <1>4, <3>1, <4>1
    <3> QED
      BY <2>2, <3>2, <3>3
  <2> QED
    BY <1>7, <2>1, <2>2 DEF Either
<1> QED
  BY <1>2, <1>3, <1>5, <1>6, <1>7, RacingSteps DEF FailsAtOnce

LEMMA OthersUntouched ==
  ASSUME TypeOK, NEW p \in Procs, WsStep(p), NEW q \in Procs \ {p}
  PROVE  Untouched(q)
<1>1. Step(p) \/ ComposeOnly(p)
  BY DEF WsStep, ComposeStep, PostUp, Step, UpStep, OtherStep, ComposeOnly
<1> QED
  BY <1>1, StepIsPrivate, ComposeOnlyIsPrivate

LEMMA GuardStays ==
  ASSUME NEW q \in Procs, Guarded(q), Untouched(q), project' = project
  PROVE  Guarded(q)'
BY DEF Guarded, Untouched, Covers, Targeted, Named, Has

LEMMA HeldByStep ==
  ASSUME NEW p \in Procs, Racing(p)
  PROVE  Held'
<1> USE DEF Racing, RaceInv, Inv
<1>1. SUFFICES ASSUME nextId' <= MaxId
      PROVE  /\ Present' => Finished' \/ \E q \in Procs : Carries(q)'
             /\ ~Present' /\ nextId' > FirstId => \E q \in Procs : pc'[q] = "create"
  BY DEF Held
<1>2. nextId \in Nat /\ MaxId \in Nat /\ \A q \in Procs \ {p} : Untouched(q)
  BY LifecycleAssumption, OthersUntouched DEF TypeOK
<1>3. CASE Grows
  <2>1. Present /\ Present' /\ nextId <= MaxId
    BY <1>1, <1>3 DEF Grows
  <2>2. CASE Finished
    BY <1>3, <2>1, <2>2, FinishedGrows
  <2>3. ASSUME NEW q \in Procs, Carries(q)
        PROVE  Finished' \/ \E r \in Procs : Carries(r)'
    BY <1>2, <1>3, <2>3, CarriedOn, BystanderCarries
  <2> QED
    BY <2>1, <2>2, <2>3 DEF Held
<1>4. CASE StaysAway
  <2>1. ~Present /\ ~Present' /\ nextId = nextId' /\ nextId <= MaxId
    BY <1>1, <1>4 DEF StaysAway
  <2>2. ASSUME NEW q \in Procs, pc[q] = "create"
        PROVE  pc'[q] = "create"
    <3>1. q # p
      BY <2>1, <2>2, RemakersCreate, CreatorCarries DEF Carries
    <3> QED
      BY <1>2, <2>2, <3>1 DEF Untouched
  <2> QED
    BY <2>1, <2>2 DEF Held
<1>5. CASE Creates(p)
  BY <1>5, CreatorCarries DEF Carries
<1>6. CASE RemoveContainer(p) /\ ~Fail(p)
  BY <1>6 DEF RemoveContainer, Goto, TypeOK, Present
<1> QED
  BY <1>3, <1>4, <1>5, <1>6, SharedStep

(* Nobody's container changes.                                              *)
LEMMA HeldAside ==
  ASSUME RaceInv, ctr' = ctr, nextId' = nextId, host' = host, project' = project,
         \A q \in Procs : pc[q] # "idle" => Untouched(q)
  PROVE  Held'
<1>1. HostGrows
  BY HostStays
<1>2. SUFFICES ASSUME nextId' <= MaxId
      PROVE  /\ Present' => Finished' \/ \E q \in Procs : Carries(q)'
             /\ ~Present' /\ nextId' > FirstId => \E q \in Procs : pc'[q] = "create"
  BY DEF Held
<1>3. Held /\ nextId <= MaxId /\ Present' = Present
  BY <1>2 DEF RaceInv, Present
<1>4. CASE Present
  <2>1. Grows
    BY <1>1, <1>4, SameContainer DEF StaysAway
  <2>2. ASSUME NEW q \in Procs, Carries(q)
        PROVE  Carries(q)'
    <3>1. Untouched(q)
      BY <2>2 DEF Carries, Carrying, Marking, Recorded, Providing
    <3> QED
      BY <2>1, <2>2, <3>1, BystanderCarries
  <2> QED
    BY <1>3, <1>4, <2>1, <2>2, FinishedGrows DEF Held
<1>5. CASE ~Present
  BY <1>3, <1>5 DEF Held, Untouched
<1> QED
  BY <1>4, <1>5

LEMMA BeginsGuarded ==
  ASSUME OnlyBringUps, RaceInv, NEW p \in Procs, NEW c \in Commands, Begin(p, c)
  PROVE  Guarded(p)'
<1>1. pc'[p] = Entry(c) /\ cmd'[p] = c /\ c.kind \in Kinds
  BY LifecycleAssumption DEF Begin, Goto, RaceInv, Inv, TypeOK
<1>2. CASE c.kind \in {"up", "ssh"}
  BY <1>1, <1>2 DEF Entry, Guarded
<1>3. CASE c.kind \in {"stop", "restart", "down"} /\ "others" \in c.flags /\ "own" \notin c.flags
  BY <1>1, <1>3 DEF Entry, Guarded, Has
<1> QED
  BY <1>2, <1>3 DEF OnlyBringUps

LEMMA RaceStep ==
  ASSUME NoSkip, FixedHooks, OnlyBringUps, RaceInv, [WsNext]_wsvars
  PROVE  RaceInv'
<1>1. Inv'
  BY WsSteps, InvStep, ComposeOnlyInv DEF RaceInv
<1>2. Faultless'
  BY StaysFaultless DEF RaceInv, Inv
<1>3. project' = project /\ Undivided'
  BY DEF WsNext, wsvars, RaceInv, Undivided
<1>4. CASE \E p \in Procs : WsStep(p)
  <2>1. PICK p \in Procs : WsStep(p)
    BY <1>4
  <2>2. Racing(p)
    BY <1>1, <1>3, <2>1 DEF Racing
  <2>3. ASSUME NEW q \in Procs PROVE Guarded(q)'
    BY <1>3, <2>1, <2>2, OwnGuard, OthersUntouched, GuardStays DEF RaceInv, Inv
  <2> QED
    BY <1>1, <1>2, <1>3, <2>2, <2>3, HeldByStep DEF RaceInv
<1>5. CASE \E p \in Procs, c \in Commands : Begin(p, c)
  <2>1. PICK p \in Procs, c \in Commands : Begin(p, c)
    BY <1>5
  <2>2. ctr' = ctr /\ nextId' = nextId /\ host' = host /\ pc[p] = "idle"
    BY <2>1 DEF Begin, shared
  <2>3. \A q \in Procs \ {p} : Untouched(q)
    BY <2>1 DEF Begin, Goto, Untouched, RaceInv, Inv, TypeOK
  <2>4. ASSUME NEW q \in Procs PROVE Guarded(q)'
    BY <1>3, <2>1, <2>3, BeginsGuarded, GuardStays DEF RaceInv
  <2>5. Held'
    BY <1>3, <2>2, <2>3, HeldAside
  <2> QED
    BY <1>1, <1>2, <1>3, <2>4, <2>5 DEF RaceInv
<1>6. CASE Edit \/ UNCHANGED wsvars
  <2>1. ctr' = ctr /\ nextId' = nextId /\ host' = host /\ \A q \in Procs : Untouched(q)
    BY <1>6 DEF Edit, wsvars, vars, shared, private, memory, Untouched
  <2>2. ASSUME NEW q \in Procs PROVE Guarded(q)'
    BY <1>3, <2>1, GuardStays DEF RaceInv
  <2>3. Held'
    BY <1>3, <2>1, HeldAside
  <2> QED
    BY <1>1, <1>2, <1>3, <2>2, <2>3 DEF RaceInv
<1> QED
  BY <1>4, <1>5, <1>6, NothingFails DEF WsNext, RaceInv, Inv, Abort, Exit

LEMMA RaceInit ==
  ASSUME NoSkip, FixedHooks, NoFaults, OneContainer, WsInit
  PROVE  RaceInv
<1>1. Inv
  BY InitType, InitTruth DEF WsInit, Inv, Init, Pending
<1>2. Undivided /\ Faultless
  BY DEF WsInit, Init, OneContainer, NoFaults, Undivided, Faultless
<1>3. \A p \in Procs : Guarded(p)
  BY DEF WsInit, Init, Guarded
<1>4. Held
  BY DEF WsInit, Init, Held, Present, FirstId
<1> QED
  BY <1>1, <1>2, <1>3, <1>4 DEF RaceInv

LEMMA RaceIsWon ==
  ASSUME FixedHooks, RaceInv
  PROVE  nextId <= MaxId => SomeBringUpFinished
<1>1. SUFFICES ASSUME nextId <= MaxId, nextId > FirstId, AllIdle
      PROVE  /\ Running /\ ctr.started /\ conf.hooks \subseteq Ran
             /\ ctr.agent # NoVersion /\ ctr.secrets = keys /\ ssh
  BY DEF SomeBringUpFinished, SomeoneFinished
<1>2. \A p \in Procs : ~Carries(p) /\ pc[p] # "create"
  BY <1>1 DEF AllIdle, Carries, Carrying, Marking, Recorded, Providing
<1>3. Finished
  BY <1>1, <1>2 DEF RaceInv, Held
<1>4. conf.hooks = Configured
  BY ConfiguredIsCommon DEF RaceInv, Inv, TypeOK
<1> QED
  BY <1>3, <1>4 DEF Finished, Running

(* A command makes one container at most, so that the ids of the model last. *)
IdsLast == IsFiniteSet(Procs) /\ FirstId + Budget["command"] <= MaxId

Makers == {p \in Procs : pc[p] \in {"attach", "find", "remove", "create"}}

Counted == nextId + Cardinality(Makers) + budget["command"] <= FirstId + Budget["command"]

LEMMA MakersAreFinite ==
  ASSUME IsFiniteSet(Procs)
  PROVE  /\ IsFiniteSet(Makers) /\ Cardinality(Makers) \in Nat
         /\ IsFiniteSet(Makers') /\ Cardinality(Makers') \in Nat
<1>1. Makers \subseteq Procs /\ Makers' \subseteq Procs
  BY DEF Makers
<1> QED
  BY <1>1, FS_Subset, FS_CardinalityType

LEMMA NoNewMaker ==
  ASSUME NEW p \in Procs, Racing(p)
  PROVE  Makers' \subseteq Makers
<1> USE DEF Racing, RaceInv, Inv, Goto, TypeOK
<1>1. SUFFICES ASSUME pc'[p] \in {"attach", "find", "remove", "create"}
      PROVE  pc[p] \in {"attach", "find", "remove", "create"}
  BY OthersUntouched DEF Makers, Untouched
<1>2. ~Fail(p)
  BY <1>1 DEF Fail, Quit
<1>3. CASE Aside(p) \/ SingleOnly(p) \/ ServiceOnly(p)
  BY <1>1, <1>2, <1>3
     DEF Aside, ComposeStop, ComposeRestart, ComposeDown, AutoDown, Removed, SingleOnly, Find,
         CreateContainer, PersistLoad, PersistSave, Resolve, Attach, Reattach, ServiceOnly,
         ComposeUp, ComposeCreate, NotCovered, FindService, PersistCompose, PersistComposeSave,
         ComposeAttach, ProbeFails
<1>4. CASE Either(p)
  BY <1>1, <1>2, <1>4
     DEF Either, StartContainer, RemoveContainer, Serve, HookStep, LoadHooks, RunHook, MarkHook,
         PostStart, SaveHooks, LoadProbe, RunProbe, SaveProbe, ProvisionStep, EnsureKeys,
         PrepareAgent, CopyAgent, WriteSecrets, WriteSSHConfig
<1> QED
  BY <1>2, <1>3, <1>4, RacingSteps DEF FailsAtOnce

LEMMA CreatorLeaves ==
  ASSUME NEW p \in Procs, Racing(p), Creates(p)
  PROVE  nextId' = nextId + 1 /\ p \in Makers /\ p \notin Makers'
<1>1. pc[p] = "create" /\ pc'[p] \in {"start", "persist"} /\ nextId' = nextId + 1
  BY DEF Creates, CreateContainer, ComposeCreate, Goto, Racing, RaceInv, Inv, TypeOK
<1> QED
  BY <1>1 DEF Makers

LEMMA CountedStep ==
  ASSUME IdsLast, NoSkip, FixedHooks, OnlyBringUps, RaceInv, Counted, [WsNext]_wsvars
  PROVE  Counted'
<1>1. RaceInv' /\ project' = project
  BY RaceStep DEF WsNext, wsvars
<1>2. /\ nextId \in Nat /\ nextId' \in Nat
      /\ budget["command"] \in Nat /\ budget'["command"] \in Nat
      /\ Budget["command"] \in Nat /\ FirstId \in Nat
  BY <1>1, LifecycleAssumption DEF RaceInv, Inv, TypeOK, Events, FirstId
<1>3. /\ IsFiniteSet(Makers) /\ Cardinality(Makers) \in Nat
      /\ IsFiniteSet(Makers') /\ Cardinality(Makers') \in Nat
  BY MakersAreFinite DEF IdsLast
<1>4. CASE \E p \in Procs : WsStep(p)
  <2>1. PICK p \in Procs : WsStep(p)
    BY <1>4
  <2>2. Racing(p)
    BY <1>1, <2>1 DEF Racing, RaceInv
  <2>3. budget'["command"] = budget["command"]
    BY <2>1, WsStepBudget DEF Spend, RaceInv, Inv, TypeOK, Events
  <2>4. CASE Creates(p)
    <3>1. nextId' = nextId + 1 /\ p \in Makers /\ Makers' \subseteq Makers \ {p}
      BY <2>2, <2>4, CreatorLeaves, NoNewMaker
    <3>2. IsFiniteSet(Makers \ {p}) /\ Cardinality(Makers \ {p}) = Cardinality(Makers) - 1
      BY <1>3, <3>1, FS_RemoveElement
    <3>3. Cardinality(Makers') <= Cardinality(Makers) - 1
      BY <3>1, <3>2, FS_Subset
    <3> QED
      BY <1>2, <1>3, <2>3, <3>1, <3>3 DEF Counted
  <2>5. CASE ~Creates(p)
    <3>1. nextId' = nextId
      BY <2>2, <2>5, SharedStep DEF Grows, StaysAway, RemoveContainer
    <3>2. Cardinality(Makers') <= Cardinality(Makers)
      BY <1>3, <2>2, NoNewMaker, FS_Subset
    <3> QED
      BY <1>2, <1>3, <2>3, <3>1, <3>2 DEF Counted
  <2> QED
    BY <2>4, <2>5
<1>5. CASE \E p \in Procs, c \in Commands : Begin(p, c)
  <2>1. PICK p \in Procs, c \in Commands : Begin(p, c)
    BY <1>5
  <2>2. nextId' = nextId /\ budget'["command"] = budget["command"] - 1
    BY <2>1 DEF Begin, Spend, shared, RaceInv, Inv, TypeOK, Events
  <2>3. Makers' \subseteq Makers \cup {p}
    BY <2>1 DEF Begin, Goto, Makers, RaceInv, Inv, TypeOK
  <2>4. Cardinality(Makers') <= Cardinality(Makers) + 1
    <3>1. /\ IsFiniteSet(Makers \cup {p})
          /\ Cardinality(Makers \cup {p}) = IF p \in Makers THEN Cardinality(Makers)
                                            ELSE Cardinality(Makers) + 1
      BY <1>3, FS_AddElement, Zenon
    <3>2. Cardinality(Makers') <= Cardinality(Makers \cup {p})
      BY <2>3, <3>1, FS_Subset
    <3> QED
      BY <1>3, <3>1, <3>2, FS_CardinalityType
  <2> QED
    BY <1>2, <1>3, <2>2, <2>4 DEF Counted
<1>6. CASE Edit \/ UNCHANGED wsvars
  <2>1. nextId' = nextId /\ pc' = pc
    BY <1>6 DEF Edit, wsvars, vars, shared, private
  <2>2. budget'["command"] = budget["command"]
    BY <1>6 DEF Edit, Spend, wsvars, vars, RaceInv, Inv, TypeOK, Events
  <2> QED
    BY <2>1, <2>2 DEF Counted, Makers
<1> QED
  BY <1>4, <1>5, <1>6, NothingFails DEF WsNext, RaceInv, Inv, Abort, Exit

LEMMA CountedInit ==
  ASSUME IdsLast, WsInit
  PROVE  Counted
<1>1. Makers = {} /\ nextId = FirstId /\ budget = Budget
  BY DEF WsInit, Init, Makers
<1>2. Cardinality(Makers) = 0
  BY <1>1, FS_EmptySet
<1> QED
  BY <1>1, <1>2, LifecycleAssumption DEF Counted, Events, FirstId

LEMMA IdsAreLeft ==
  ASSUME IdsLast, RaceInv, Counted
  PROVE  nextId <= MaxId
<1>1. Cardinality(Makers) \in Nat
  BY MakersAreFinite DEF IdsLast
<1> QED
  BY <1>1, LifecycleAssumption
     DEF RaceInv, Inv, TypeOK, Events, FirstId, Counted, IdsLast

(* However many bring-ups (up, up --recreate, ssh --start) run side by side, *)
(* at whatever speed, beside commands for other services and edits of the    *)
(* configuration: when all of them have ended, and nothing was killed and no *)
(* call failed, one that made the container or found it has finished it.    *)
(* There is no lock, so a bring-up may lose its container to another one's   *)
(* `up --recreate` (upSingle and upCompose remove it) and fail; but the one  *)
(* that took it away makes another and goes on.  Not so with --skip-hooks,  *)
(* with services that are scaled or pulled in by others, or beside a down.  *)
THEOREM SomeBringUpWins ==
  ASSUME NoSkip, FixedHooks, NoFaults, OnlyBringUps, OneContainer, IdsLast
  PROVE  WsSpec => []SomeBringUpFinished
<1>1. WsInit => RaceInv /\ Counted
  BY RaceInit, CountedInit
<1>2. RaceInv /\ Counted /\ [WsNext]_wsvars => (RaceInv /\ Counted)'
  BY RaceStep, CountedStep
<1>3. RaceInv /\ Counted => SomeBringUpFinished
  BY RaceIsWon, IdsAreLeft
<1> QED
  BY <1>1, <1>2, <1>3, PTL DEF WsSpec

----------------------------------------------------------------------------
(* What UpRecovers rests on, but for its termination: an `up` that begins   *)
(* once the faults have ceased does not fail.                               *)
(* The calls of a bring-up.                                                 *)
Seeking == {"find", "start", "remove", "create"}
Handling == {"persist", "persist_load", "persist_save", "resolve", "hooks"}
              \cup Marking \cup Recorded

(* It is the workspace's own container that p brings up.                    *)
Owns(p) == project.compose => Covers(p)

(* The container runs from the moment p has found, made or started it.      *)
Ready(p) ==
  /\ pc[p] = "start" => Present
  /\ pc[p] = "create" => ~Present
  /\ pc[p] \in Handling \cup {"reattach"} /\ Owns(p) => Running
  /\ pc[p] \in Handling \ {"persist"} => Owns(p)
  /\ pc[p] \in Marking => dir
  /\ pc[p] \in Providing \ {"keys"} => keys # 0

(* No bring-up is under way, and from now on nothing is killed and the      *)
(* container does not exit by itself.                                       *)
Ceased ==
  /\ Undisturbed /\ ~project.scaled
  /\ \A p \in Procs : pc[p] \notin (Seeking \ {"find"}) \cup Handling \cup {"reattach"}

(* A bring-up does not fail.                                                *)
Bringing(p) ==
  /\ pc[p] \in Seeking \cup Handling \/ (pc[p] = "reattach" /\ Owns(p))
  /\ ~Rejected(p) /\ nextId <= MaxId

UpGoesOn == \A p \in Procs : Bringing(p) => ~Fail(p)

ReadyInv == LoneInv /\ Undisturbed /\ ~project.scaled /\ \A p \in Procs : Ready(p)

(* A step of the only process, which is ready.                              *)
ReadyStep(p) == StepOf(p) /\ Ready(p) /\ ~project.scaled /\ UNCHANGED project

Kept(p) == (Bringing(p) => ~Fail(p)) /\ (~Fail(p) => Ready(p)')

LEMMA ReadyElsewhere ==
  ASSUME NEW p \in Procs, pc'[p] \notin (Seeking \ {"find"}) \cup Handling \cup {"reattach"}
  PROVE  Ready(p)'
BY DEF Ready, Seeking, Handling, Marking, Recorded, Providing

LEMMA ReadyHandling ==
  ASSUME NEW p \in Procs, pc'[p] \in Handling \cup {"reattach"}, Owns(p)' => Running',
         pc'[p] \in Handling \ {"persist"} => Owns(p)',
         pc'[p] \in Marking => dir',
         pc'[p] \in Providing \ {"keys"} => keys' # 0
  PROVE  Ready(p)'
BY DEF Ready, Handling, Marking, Recorded, Providing

(* The container is found, started or made.                                 *)
LEMMA SeekingIsReady ==
  ASSUME NEW p \in Procs, ReadyStep(p),
         \/ ~project.compose /\ (Find(p) \/ CreateContainer(p))
         \/ StartContainer(p) \/ RemoveContainer(p)
         \/ project.compose /\ (ComposeUp(p) \/ ComposeCreate(p))
  PROVE  Kept(p)
<1> USE DEF ReadyStep, StepOf, LoneInv, Goto, TypeOK, Kept
<1>1. CASE Find(p) /\ ~project.compose
  <2>1. /\ ctr' = ctr /\ pc'[p] = Decide(p) /\ ~Fail(p)
    BY <1>1 DEF Find, shared, Decide, Fail, Quit
  <2> QED
    BY <1>1, <2>1 DEF Decide, Ready, Running, Present, Owns, Seeking, Handling, Marking,
                      Recorded, Providing
<1>2. CASE ComposeUp(p) /\ project.compose
  <2>1. /\ ctr' = ctr /\ cmd' = cmd /\ pc'[p] \in {Decision(p), "remove"} /\ ~Fail(p)
    BY <1>2 DEF ComposeUp, shared, memory, Decision, Fail, Quit
  <2>2. Owns(p)' = Covers(p)
    BY <1>2, <2>1 DEF Owns, Covers, Targeted, Named, Has
  <2> QED
    BY <1>2, <2>1, <2>2 DEF Decision, Ready, Running, Present, Seeking, Handling, Marking,
                            Recorded, Providing
<1>3. CASE RemoveContainer(p)
  <2>1. /\ ctr' = NoCtr /\ pc'[p] = "create" /\ ~Fail(p)
    BY <1>3 DEF RemoveContainer, Fail, Quit
  <2> QED
    BY <2>1 DEF Ready, Present, Handling, Marking, Recorded, Providing
<1>4. CASE StartContainer(p)
  <2>1. pc[p] = "start" /\ Present /\ ctr \in Containers
    BY <1>4 DEF StartContainer, Ready, Present
  <2>2. pc'[p] = "persist" /\ ctr' \in Containers /\ ctr'.running /\ ~Fail(p)
    <3>1. /\ pc'[p] = "persist" /\ ~Fail(p)
          /\ ctr' = IF ctr.running THEN ctr ELSE [ctr EXCEPT !.running = TRUE, !.started = FALSE]
      BY <1>4, <2>1 DEF StartContainer, Fail, Quit
    <3>2. [ctr EXCEPT !.running = TRUE, !.started = FALSE] \in Containers
          /\ [ctr EXCEPT !.running = TRUE, !.started = FALSE].running
      BY <2>1 DEF Containers
    <3> QED
      BY <2>1, <3>1, <3>2
  <2>3. Running'
    BY <2>2, NoCtrAssumption DEF Running, Present
  <2> QED
    BY <2>2, <2>3, ReadyHandling DEF Handling, Marking, Recorded, Providing
<1>5. CASE CreateContainer(p) \/ ComposeCreate(p)
  <2>1. pc[p] = "create" /\ ~Present
    BY <1>5 DEF CreateContainer, ComposeCreate, Ready
  <2>2. nextId <= MaxId \/ Fail(p)
    BY <1>5, LifecycleAssumption DEF CreateContainer, ComposeCreate
  <2>3. CASE nextId <= MaxId
    <3>1. nextId \in Nat /\ MaxId \in Nat /\ ~(nextId > MaxId)
      BY <2>3, LifecycleAssumption
    <3>2. /\ pc'[p] = (IF CreateContainer(p) THEN "persist" ELSE "start")
          /\ ctr' = FreshContainer(p) \/ ctr' = [FreshContainer(p) EXCEPT !.running = FALSE]
          /\ CreateContainer(p) => ctr' = FreshContainer(p)
          /\ ~Fail(p)
      BY <1>5, <2>1, <3>1 DEF CreateContainer, ComposeCreate, Fail, Quit
    <3>3. /\ ctr' # NoCtr /\ (CreateContainer(p) => ctr'.running)
      <4>1. [h \in HookNames |-> 0] \in [HookNames -> 0..MaxRuns] /\ NoProbe \in Probes
        BY LifecycleAssumption DEF Probes
      <4>2. FreshContainer(p) \in Containers /\ FreshContainer(p).running
        BY <4>1 DEF FreshContainer, Containers
      <4>3. [FreshContainer(p) EXCEPT !.running = FALSE] \in Containers
        BY <4>2 DEF Containers
      <4> QED
        BY <3>2, <4>2, <4>3, NoCtrAssumption
    <3> QED
      BY <3>2, <3>3 DEF Ready, Running, Present, Seeking, Handling, Marking, Recorded, Providing
  <2>4. CASE ~(nextId <= MaxId)
    BY <2>2, <2>4 DEF Bringing
  <2> QED
    BY <2>3, <2>4
<1> QED
  BY <1>1, <1>2, <1>3, <1>4, <1>5

(* Calls that leave a running container running, by a process that owns it. *)
LEMMA StaysReady ==
  ASSUME NEW p \in Procs, ReadyStep(p), pc[p] \in Handling, Owns(p), cmd' = cmd,
         ctr' = ctr \/ (ctr' \in Containers /\ ctr'.running),
         pc'[p] \in Handling \cup {"reattach", "ok"},
         pc'[p] \in Marking => dir', pc'[p] \in Providing \ {"keys"} => keys' # 0
  PROVE  Kept(p)
<1> USE DEF ReadyStep, StepOf, LoneInv, Goto, TypeOK
<1>1. Running /\ Running' /\ Owns(p)'
  BY NoCtrAssumption DEF Ready, Running, Present, Owns, Covers, Targeted, Named, Has
<1>2. ~Fail(p)
  BY DEF Fail, Quit, Handling, Marking, Recorded, Providing
<1>3. Ready(p)'
  BY <1>1, ReadyHandling, ReadyElsewhere DEF Handling, Marking, Recorded, Providing, Seeking
<1> QED
  BY <1>2, <1>3 DEF Kept

LEMMA PersistingIsReady ==
  ASSUME NEW p \in Procs, ReadyStep(p),
         \/ ~project.compose /\ (PersistLoad(p) \/ PersistSave(p) \/ Resolve(p))
         \/ project.compose /\ (FindService(p) \/ PersistCompose(p) \/ PersistComposeSave(p))
  PROVE  Kept(p)
<1> USE DEF ReadyStep, StepOf, LoneInv, Goto, TypeOK
<1>1. /\ pc[p] \in {"persist", "persist_load", "persist_save", "resolve"}
      /\ pc[p] \in Handling
  BY DEF PersistLoad, PersistSave, Resolve, FindService, PersistCompose, PersistComposeSave,
         Handling
<1>2. Owns(p) /\ Running
  BY <1>1 DEF Ready, Owns, FindService, PersistCompose, PersistComposeSave
<1>3. ~(FindService(p) /\ Fail(p))
  BY <1>2 DEF FindService, Found, Running, Fail, Quit
<1>4. /\ cmd' = cmd /\ ctr' = ctr
      /\ pc'[p] \in {"persist_load", "persist_save", "resolve", "probe", "hooks"}
  BY <1>2, <1>3 DEF PersistLoad, PersistSave, Resolve, FindService, PersistCompose,
                    PersistComposeSave, Found, Running, memory, shared
<1> QED
  BY <1>1, <1>2, <1>4, StaysReady DEF Handling, Marking, Recorded, Providing

LEMMA OthersAreReady ==
  ASSUME NEW p \in Procs, ReadyStep(p), project.compose, NotCovered(p)
  PROVE  Kept(p)
<1>1. /\ pc'[p] \in {"reattach", "ok"} /\ cmd' = cmd /\ ~Covers(p) /\ project' = project
  BY DEF ReadyStep, StepOf, LoneInv, Goto, TypeOK, NotCovered, memory
<1>2. ~Owns(p)' /\ ~Fail(p)
  BY <1>1 DEF Owns, Covers, Targeted, Named, Has, Fail, Quit, Goto, ReadyStep, StepOf, LoneInv,
              TypeOK
<1> QED
  BY <1>1, <1>2, ReadyHandling, ReadyElsewhere
     DEF Kept, Handling, Marking, Recorded, Providing, Seeking

LEMMA HooksAreReady ==
  ASSUME NEW p \in Procs, ReadyStep(p), HookStep(p)
  PROVE  Kept(p)
<1> USE DEF ReadyStep, StepOf, LoneInv, Goto, TypeOK
<1>1. /\ pc[p] \in {"hooks"} \cup Marking \cup {"probe", "probing", "probe_save"}
      /\ pc[p] \in Handling \ {"persist"}
  BY DEF HookStep, LoadHooks, RunHook, MarkHook, PostStart, SaveHooks, LoadProbe, RunProbe,
         SaveProbe, Handling, Marking, Recorded
<1>2. Owns(p) /\ Running /\ (pc[p] \in Marking => dir) /\ ctr \in Containers
  BY <1>1 DEF Ready, Running, Present
<1>3. ~Fail(p)
  BY <1>2 DEF HookStep, LoadHooks, RunHook, MarkHook, PostStart, SaveHooks, LoadProbe, RunProbe,
              SaveProbe, Marking, Fail, Quit
<1>4. cmd' = cmd
  BY <1>3 DEF HookStep, LoadHooks, RunHook, MarkHook, PostStart, SaveHooks, LoadProbe, RunProbe,
              SaveProbe, memory
<1>5. ctr' = ctr \/ (ctr' \in Containers /\ ctr'.running)
  <2>1. CASE RunHook(p)
    <3>1. ctr' = ctr
          \/ ctr' = [ctr EXCEPT !.ran[NextHook(p)] = IF @ < MaxRuns THEN @ + 1 ELSE @]
      BY <1>3, <2>1 DEF RunHook, shared
    <3>2. ctr' = ctr \/ ctr'.running = ctr.running
      BY <1>2, <3>1 DEF Containers
    <3>3. ctr' \in Containers \/ ctr' = NoCtr
      OBVIOUS
    <3>4. RunHook(p) /\ Unmarked(p) # {} => Present'
      BY <1>3, RunHookRan
    <3>5. Unmarked(p) = {} => ctr' = ctr
      BY <1>3, <2>1 DEF RunHook, shared
    <3> QED
      BY <1>2, <2>1, <3>2, <3>3, <3>4, <3>5 DEF Present, Running
  <2>2. CASE PostStart(p)
    <3>1. ctr' = [ctr EXCEPT !.started = TRUE]
      BY <1>3, <2>2 DEF PostStart
    <3> QED
      BY <1>2, <3>1 DEF Containers, Running
  <2>3. CASE ~RunHook(p) /\ ~PostStart(p)
    BY <1>3, <2>3 DEF HookStep, LoadHooks, MarkHook, SaveHooks, LoadProbe, RunProbe, SaveProbe,
                      shared
  <2> QED
    BY <2>1, <2>2, <2>3
<1>6. /\ pc'[p] \in Marking \cup {"probe", "probing", "probe_save", "keys"}
      /\ pc'[p] \in Marking => dir'
  <2>1. CASE LoadHooks(p) \/ RunHook(p) \/ MarkHook(p) \/ PostStart(p)
    BY <1>2, <1>3, <2>1 DEF LoadHooks, RunHook, MarkHook, PostStart, Marking, shared, host
  <2>2. CASE SaveHooks(p) \/ LoadProbe(p) \/ RunProbe(p) \/ SaveProbe(p)
    BY <1>3, <2>2 DEF SaveHooks, LoadProbe, RunProbe, SaveProbe, Marking
  <2> QED
    BY <2>1, <2>2 DEF HookStep
<1> QED
  BY <1>1, <1>2, <1>4, <1>5, <1>6, StaysReady DEF Handling, Marking, Recorded, Providing

LEMMA ProvidingIsReady ==
  ASSUME NEW p \in Procs, ReadyStep(p), ProvisionStep(p)
  PROVE  Kept(p)
<1> USE DEF ReadyStep, StepOf, LoneInv, Goto, TypeOK
<1>1. pc[p] \in Providing /\ pc[p] \in Handling \ {"persist"}
  BY DEF ProvisionStep, EnsureKeys, PrepareAgent, CopyAgent, WriteSecrets, WriteSSHConfig,
         Providing, Handling, Recorded
<1>2. /\ Owns(p) /\ Running /\ ctr \in Containers
      /\ pc[p] # "keys" => keys # 0
      /\ pc[p] = "secrets" => ctr.agent # NoVersion
  BY <1>1, VersionsOf DEF Ready, Running, Present, Stage, Provided
<1>3. ~Fail(p)
  BY <1>2 DEF ProvisionStep, EnsureKeys, PrepareAgent, CopyAgent, WriteSecrets, WriteSSHConfig,
              Running, Fail, Quit
<1>4. /\ cmd' = cmd /\ pc'[p] \in (Providing \ {"keys"}) \cup {"reattach", "ok"}
      /\ keys' # 0
  <2>1. CASE EnsureKeys(p)
    BY <1>2, <2>1 DEF EnsureKeys, Providing, memory
  <2>2. CASE ~EnsureKeys(p)
    BY <1>2, <1>3, <2>2 DEF ProvisionStep, PrepareAgent, CopyAgent, WriteSecrets, WriteSSHConfig,
                            Providing, memory, shared, host
  <2> QED
    BY <2>1, <2>2
<1>5. ctr' = ctr \/ (ctr' \in Containers /\ ctr'.running)
  <2>1. CASE CopyAgent(p)
    <3>1. ctr' = [ctr EXCEPT !.agent = my[p].version] /\ my[p].version \in Versions
      BY <1>3, <2>1 DEF CopyAgent, Versions
    <3> QED
      BY <1>2, <3>1 DEF Containers, Running
  <2>2. CASE WriteSecrets(p)
    <3>1. ctr' = [ctr EXCEPT !.secrets = keys, !.env = env[p]]
      BY <1>3, <2>2 DEF WriteSecrets
    <3> QED
      BY <1>2, <3>1 DEF Containers, Running
  <2>3. CASE ~CopyAgent(p) /\ ~WriteSecrets(p)
    BY <1>3, <2>3 DEF ProvisionStep, EnsureKeys, PrepareAgent, WriteSSHConfig, shared
  <2> QED
    BY <2>1, <2>2, <2>3
<1> QED
  BY <1>1, <1>2, <1>4, <1>5, StaysReady DEF Handling, Marking, Recorded, Providing

(* The calls of the other commands, and the attachment of a session.        *)
LEMMA ElsewhereIsReady ==
  ASSUME NEW p \in Procs, ReadyStep(p),
         \/ ~project.compose /\ OtherStep(p)
         \/ project.compose
            /\ (ComposeAttach(p) \/ ComposeStop(p) \/ ComposeRestart(p) \/ ComposeDown(p)
                \/ PurgeState(p) \/ PurgeSSHConfig(p) \/ RotateKeys(p) \/ Serve(p) \/ Return(p))
         \/ AutoDown(p)
  PROVE  Kept(p)
<1> USE DEF ReadyStep, StepOf, LoneInv, Goto, TypeOK
<1>1. pc[p] \in Elsewhere \cup {"ok"} /\ pc[p] \notin Seeking \cup Handling
  BY DEF OtherStep, Attach, Reattach, Serve, StopFind, Stop, RestartFind, Restart, DownFind,
         DownRemove, PurgeState, PurgeSSHConfig, RotateKeys, Return, ComposeAttach, ComposeStop,
         ComposeRestart, ComposeDown, AutoDown, Elsewhere, Seeking, Handling, Marking, Recorded,
         Providing
<1>2. pc[p] = "reattach" /\ Owns(p) => ~Fail(p)
  <2> SUFFICES ASSUME pc[p] = "reattach", Owns(p) PROVE ~Fail(p)
    OBVIOUS
  <2>1. Running /\ Found
    BY DEF Ready, Running, Found
  <2>2. Reattach(p) \/ ComposeAttach(p)
    BY DEF OtherStep, Attach, Serve, StopFind, Stop, RestartFind, Restart, DownFind,
         DownRemove, PurgeState, PurgeSSHConfig, RotateKeys, Return, ComposeStop,
         ComposeRestart, ComposeDown, AutoDown
  <2> QED
    BY <2>1, <2>2 DEF Reattach, ComposeAttach, Running, Fail, Quit
<1>3. ~Fail(p) => pc'[p] \in (Elsewhere \ {"reattach"}) \cup {"ok", "find", "idle"}
  <2>1. CASE AutoDown(p) \/ ComposeStop(p) \/ ComposeRestart(p) \/ ComposeDown(p) \/ ComposeAttach(p)
    BY <2>1 DEF ComposeAttach, ComposeStop, ComposeRestart, ComposeDown, AutoDown, Removed,
                Elsewhere
  <2>2. CASE OtherStep(p)
    BY <2>2 DEF OtherStep, Attach, Reattach, Serve, StopFind, Stop, RestartFind, Restart,
           DownFind, DownRemove, PurgeState, PurgeSSHConfig, RotateKeys, Removed, Return,
           Elsewhere
  <2> QED
    BY <2>1, <2>2 DEF OtherStep
<1>4. ~Fail(p) => Ready(p)'
  BY <1>3, ReadyElsewhere DEF Elsewhere, Seeking, Handling, Marking, Recorded, Providing
<1> QED
  BY <1>1, <1>2, <1>4 DEF Kept, Bringing

LEMMA WsStepIsReady ==
  ASSUME NEW p \in Procs, ReadyStep(p), WsStep(p)
  PROVE  Kept(p)
<1>1. CASE Reject(p)
  BY <1>1 DEF Reject, Kept, Bringing
<1>2. project.compose /\ pc[p] \in Recorded \cup Marking => ~Gone(p)
  BY AtWork DEF ReadyStep, StepOf, LoneInv, NameUnused, Gone
<1>3. CASE project.compose /\ ExecFails(p)
  BY <1>2, <1>3 DEF ExecFails, Executes, Kept, Bringing, Seeking, Handling, Recorded, Providing,
                    Marking
<1>4. ~(project.compose /\ ProbeFails(p))
  BY <1>2 DEF ProbeFails, Recorded
<1>5. CASE project.compose /\ ~ExecFails(p) /\ ComposeStep(p)
  BY <1>4, <1>5, SeekingIsReady, PersistingIsReady, OthersAreReady, HooksAreReady,
     ProvidingIsReady, ElsewhereIsReady DEF ComposeStep, PostUp
<1>6. CASE ~project.compose /\ Step(p)
  BY <1>6, SeekingIsReady, PersistingIsReady, HooksAreReady, ProvidingIsReady,
     ElsewhereIsReady DEF Step, UpStep
<1>7. CASE AutoDown(p)
  BY <1>7, ElsewhereIsReady
<1> QED
  BY <1>1, <1>3, <1>5, <1>6, <1>7 DEF WsStep

LEMMA StaysUndisturbed ==
  ASSUME TypeOK, Undisturbed, [WsNext]_wsvars
  PROVE  Undisturbed' /\ ~Spend("crash") /\ ~Spend("exit")
<1>1. ~Spend("crash") /\ ~Spend("exit")
  BY DEF TypeOK, Undisturbed, Spend
<1>2. budget' = budget \/ Spend("failure") \/ Spend("edit") \/ Spend("command")
  <2>1. CASE \E p \in Procs : WsStep(p)
    BY <2>1, WsStepBudget
  <2> QED
    BY <1>1, <2>1 DEF WsNext, wsvars, vars, Abort, Begin, Edit, Exit
<1>3. Undisturbed'
  BY <1>2 DEF Undisturbed, Spend, TypeOK, Events
<1> QED
  BY <1>1, <1>3

LEMMA ReadyNext ==
  ASSUME OneAtATime, NoSkip, ReadyInv, [WsNext]_wsvars
  PROVE  ReadyInv' /\ [UpGoesOn]_wsvars
<1>1. LoneInv' /\ Undisturbed' /\ ~Spend("crash") /\ ~Spend("exit")
  BY LoneNext, StaysUndisturbed DEF ReadyInv, LoneInv
<1>2. project' = project
  BY DEF WsNext, wsvars
<1>3. CASE UNCHANGED wsvars
  <2>1. \A p \in Procs : Ready(p)'
    BY <1>3 DEF ReadyInv, Ready, Running, Present, Owns, Covers, Targeted, Named, Has, wsvars, vars,
                shared, host, private, memory
  <2> QED
    BY <1>1, <1>2, <1>3, <2>1 DEF ReadyInv
<1>4. CASE WsNext
  <2>1. \A p \in Procs : StepOf(p) /\ ReadyStep(p)
    BY <1>1, <1>2, <1>4 DEF ReadyInv, LoneInv, StepOf, ReadyStep
  <2>2. ASSUME NEW p \in Procs, WsStep(p)
        PROVE  (\A q \in Procs : Ready(q)') /\ UpGoesOn
    <3>1. Kept(p) /\ \A q \in Procs : q = p
      BY <2>1, <2>2, WsStepIsReady DEF OneAtATime
    <3>2. Fail(p) => Ready(p)'
      BY ReadyElsewhere DEF Fail, Quit, Goto, ReadyInv, LoneInv, TypeOK, Seeking, Handling, Marking,
                            Recorded, Providing
    <3> QED
      BY <3>1, <3>2 DEF Kept, UpGoesOn
  <2>3. ASSUME NEW p \in Procs, NEW c \in Commands, Begin(p, c)
        PROVE  (\A q \in Procs : Ready(q)') /\ UpGoesOn
    <3>1. pc'[p] = Entry(c) /\ pc[p] = "idle" /\ c.kind \in Kinds
      BY <2>3, LifecycleAssumption DEF Begin, Goto, ReadyInv, LoneInv, TypeOK
    <3>2. Ready(p)'
      BY <3>1, ReadyElsewhere DEF Entry, Kinds, Seeking, Handling, Marking, Recorded, Providing
    <3>3. ~Bringing(p)
      BY <3>1 DEF Bringing, Seeking, Handling, Marking, Recorded, Providing
    <3> QED
      BY <3>2, <3>3 DEF OneAtATime, UpGoesOn
  <2>4. CASE Edit
    <3>1. UNCHANGED <<ctr, dir, keys, pc, cmd>> /\ budget' # budget
      BY <2>4 DEF Edit, Spend, host, private, memory, ReadyInv, LoneInv, TypeOK, Events
    <3>2. ASSUME NEW p \in Procs PROVE Ready(p)' /\ ~Fail(p)
      BY <1>2, <3>1 DEF ReadyInv, Ready, Running, Present, Owns, Covers, Targeted, Named, Has, Fail
    <3> QED
      BY <1>1, <1>2, <3>2 DEF ReadyInv, UpGoesOn
  <2> QED
    BY <1>1, <1>2, <1>4, <2>2, <2>3, <2>4 DEF WsNext, Abort, Exit, ReadyInv
<1> QED
  BY <1>3, <1>4

LEMMA CeasedIsReady ==
  ASSUME LoneInv, Ceased
  PROVE  ReadyInv
BY DEF Ceased, ReadyInv, Ready, Seeking, Handling, Marking, Recorded, Providing

(* However earlier commands failed or were killed, and whatever they left    *)
(* behind of the container, of state.json, of the keys and in the container: *)
(* no `up`, and no bring-up of `ssh --start`, that begins once nothing is    *)
(* killed any more fails in any of its calls (upSingle, upCompose, postUp),  *)
(* though state.json may go unsaved and an inspection fail.  It is alone, it *)
(* does not skip the hooks, its service is not scaled, and ids are left.    *)
THEOREM LaterUpNeverFails ==
  ASSUME OneAtATime, NoSkip
  PROVE  WsSpec => [](Ceased => [][UpGoesOn]_wsvars)
<1>1. LoneInv /\ [WsNext]_wsvars => LoneInv'
  BY LoneNext
<1>2. LoneInv /\ Ceased => ReadyInv
  BY CeasedIsReady
<1>3. ReadyInv /\ [WsNext]_wsvars => ReadyInv' /\ [UpGoesOn]_wsvars
  BY ReadyNext
<1> QED
  BY <1>1, <1>2, <1>3, LoneInit, PTL DEF WsSpec
=============================================================================
