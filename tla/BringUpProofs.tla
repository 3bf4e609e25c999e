--------------------------- MODULE BringUpProofs ---------------------------
(***************************************************************************)
(* Two parts of a bring-up that stand on their own.  The compose cache, for *)
(* any number of devc commands and of versions; and one lifecycle command  *)
(* with any number of named entries.                                       *)
(***************************************************************************)
EXTENDS ComposeProbe, NamedHooks, SequenceTheorems, TLAPS

(* Nothing is removed, nor put back as it was.                              *)
OnlyGrows == ~Removals

Within(print1, print2) == \A b \in Binaries : print1[b] <= print2[b]

(* Every fingerprint is of now or of before.                                *)
Past ==
  /\ \A p \in Procs : Within(print[p], installed)
  /\ \A r \in Runtimes : cache[r] # Empty => Within(cache[r].print, installed)

(* What p has found out, if what is installed is still what p saw.          *)
Knows(p) ==
  print[p] = installed =>
    /\ at[p] = "probe" => \A i \in 1..4 : i < next[p] => ~Answers(runtime[p], i)
    /\ at[p] \in {"save", "done"} => IsFirst(runtime[p], got[p])
    /\ at[p] = "failed" => \A i \in 1..4 : ~Answers(runtime[p], i)

Calm(p) ==
  /\ at[p] \in {"idle", "load"} => next[p] = 1
  /\ calm[p] /\ at[p] # "idle" => print[p] = installed

Inv == TypeOK /\ Past /\ EntryFits /\ \A p \in Procs : Knows(p) /\ Calm(p)

----------------------------------------------------------------------------
LEMMA CandidatesTyped ==
  \A r \in Runtimes, i \in 1..4 : Candidates(r)[i] \in Impls
<1>1. /\ Podman \in Seq(Impls) /\ Len(Podman) = 2
      /\ Docker \in Seq(Impls) /\ Len(Docker) = 2
  BY DEF Podman, Docker, Impls
<1>2. /\ Docker \o Podman \in Seq(Impls) /\ Len(Docker \o Podman) = 4
      /\ Podman \o Docker \in Seq(Impls) /\ Len(Podman \o Docker) = 4
  <2>1. /\ Docker \o Podman \in Seq(Impls)
        /\ Len(Docker \o Podman) = Len(Docker) + Len(Podman)
    BY <1>1, ConcatProperties
  <2>2. /\ Podman \o Docker \in Seq(Impls)
        /\ Len(Podman \o Docker) = Len(Podman) + Len(Docker)
    BY <1>1, ConcatProperties
  <2> QED
    BY <1>1, <2>1, <2>2
<1>3. \A r \in Runtimes : Candidates(r) \in Seq(Impls) /\ Len(Candidates(r)) = 4
  BY <1>2 DEF Candidates
<1> QED
  BY <1>3

LEMMA Defaults ==
  /\ Nothing \in Installs /\ "podman compose" \in Impls /\ "idle" \in Pcs /\ 1 \in 1..5
  /\ \A f \in Installs : Within(Nothing, f)
<1>1. 0 \in 0..MaxVersion /\ \A v \in 0..MaxVersion : 0 <= v
  BY ProbeAssumption
<1>2. Nothing \in Installs
  BY <1>1 DEF Nothing, Installs
<1>3. \A f \in Installs : Within(Nothing, f)
  BY <1>1 DEF Nothing, Installs, Within
<1> QED
  BY <1>2, <1>3 DEF Impls, Pcs

LEMMA InitInv == Init => Inv
<1> SUFFICES ASSUME Init PROVE Inv
  OBVIOUS
<1> USE ProbeAssumption
<1>1. \A b \in Binaries : installed[b] \in 0..1 /\ installed[b] \in 0..MaxVersion
  <2>1. \A b \in Binaries : installed[b] \in 0..1
    BY DEF Init
  <2>2. \A v \in 0..1 : v \in 0..MaxVersion
    OBVIOUS
  <2> QED
    BY <2>1, <2>2
<1>2. TypeOK
  <2>1. installed \in Installs
    BY <1>1 DEF Init, Installs
  <2> QED
    BY <2>1, Defaults DEF Init, TypeOK
<1>3. Past
  <2>1. Within(Nothing, installed)
    BY <1>2, Defaults DEF TypeOK
  <2>2. \A q \in Procs : print[q] = Nothing
    BY DEF Init
  <2>3. \A r \in Runtimes : cache[r] = Empty
    BY DEF Init
  <2> QED
    BY <2>1, <2>2, <2>3 DEF Past
<1>4. EntryFits
  BY DEF Init, EntryFits
<1>5. \A p \in Procs : Knows(p) /\ Calm(p)
  BY DEF Init, Knows, Calm
<1> QED
  BY <1>2, <1>3, <1>4, <1>5 DEF Inv

(* A step of p's changes nothing of another command's.                      *)
LEMMA Bystander ==
  ASSUME NEW q \in Procs, Knows(q), Calm(q), at'[q] = at[q], print'[q] = print[q], next'[q] = next[q],
         got'[q] = got[q], calm'[q] = calm[q], runtime' = runtime, installed' = installed
  PROVE  Knows(q)' /\ Calm(q)'
BY DEF Knows, Calm, IsFirst, Answers, Responds, Has

(* The others in a step of p.                                               *)
Alone(p) ==
  /\ installed' = installed /\ runtime' = runtime
  /\ \A q \in Procs : q # p => /\ at'[q] = at[q] /\ print'[q] = print[q] /\ next'[q] = next[q]
                              /\ got'[q] = got[q] /\ calm'[q] = calm[q]

LEMMA StaysInstalled ==
  ASSUME installed' = installed
  PROVE  /\ \A r, i : Answers(r, i)' = Answers(r, i)
         /\ \A r, impl : IsFirst(r, impl)' = IsFirst(r, impl)
BY DEF Answers, Responds, Has, IsFirst

LEMMA FingerprintInv == ASSUME Inv, NEW p \in Procs, Fingerprint(p) PROVE Inv'
<1> USE DEF Fingerprint, Goto
<1>1. TypeOK'
  BY DEF Inv, TypeOK, Pcs
<1>2. Alone(p) /\ at'[p] = "load" /\ print'[p] = installed /\ next'[p] = 1
  BY DEF Inv, TypeOK, Alone, Calm
<1>3. Past'
  <2>1. Within(installed, installed)
    BY DEF Inv, TypeOK, Installs, Within
  <2> QED
    BY <1>2, <2>1 DEF Inv, Past, Within, Alone
<1>4. EntryFits'
  BY StaysInstalled DEF Inv, EntryFits
<1>5. \A q \in Procs : Knows(q)' /\ Calm(q)'
  BY <1>2, Bystander DEF Inv, Alone, Knows, Calm
<1> QED
  BY <1>1, <1>3, <1>4, <1>5 DEF Inv

LEMMA LoadCacheInv == ASSUME Inv, NEW p \in Procs, LoadCache(p) PROVE Inv'
<1> USE DEF LoadCache, Goto
<1>1. runtime[p] \in Runtimes /\ (Hit(p) => cache[runtime[p]].impl \in Impls)
  BY DEF Inv, TypeOK, Hit, Entries
<1>2. TypeOK'
  BY <1>1 DEF Inv, TypeOK, Pcs
<1>3. Alone(p) /\ print' = print /\ next'[p] = 1 /\ calm' = calm
      /\ (at'[p] = "done" \/ at'[p] = "probe")
      /\ (at'[p] = "done" => Hit(p) /\ got'[p] = cache[runtime[p]].impl)
  BY DEF Inv, TypeOK, Alone, Calm
<1>4. Past' /\ EntryFits'
  BY <1>3, StaysInstalled DEF Inv, Past, Within, EntryFits, Alone
<1>5. Knows(p)'
  <2>1. ASSUME print[p] = installed, at'[p] = "done"
        PROVE  IsFirst(runtime[p], got'[p])
    BY <1>1, <1>3, <2>1 DEF Inv, EntryFits, Hit
  <2>2. \A i \in 1..4 : ~(i < 1)
    OBVIOUS
  <2> QED
    BY <1>3, <2>1, <2>2, StaysInstalled DEF Knows, Alone, IsFirst, Answers
<1>6. Calm(p)'
  BY <1>3 DEF Inv, Calm, Alone
<1>7. \A q \in Procs : Knows(q)' /\ Calm(q)'
  BY <1>3, <1>5, <1>6, Bystander DEF Inv, Alone
<1> QED
  BY <1>2, <1>4, <1>7 DEF Inv

LEMMA ProbeInv == ASSUME Inv, NEW p \in Procs, Probe(p) PROVE Inv'
<1> USE DEF Goto
<1>1. /\ Alone(p) /\ print' = print /\ calm' = calm /\ cache' = cache /\ at[p] = "probe"
      /\ at'[p] \in {"failed", "save", "probe"}
      /\ runtime[p] \in Runtimes /\ next[p] \in 1..5
  BY DEF Probe, Inv, TypeOK, Alone
<1>2. TypeOK'
  <2>1. CASE next[p] > 4
    BY <2>1 DEF Probe, Inv, TypeOK, Pcs
  <2>2. CASE ~(next[p] > 4)
    <3>1. next[p] \in 1..4 /\ next[p] + 1 \in 1..5
      BY <1>1, <2>2
    <3>2. Candidates(runtime[p])[next[p]] \in Impls
      BY <1>1, <3>1, CandidatesTyped
    <3>3. /\ got' \in [Procs -> Impls] /\ next' \in [Procs -> 1..5] /\ at' \in [Procs -> Pcs]
      BY <2>2, <3>1, <3>2 DEF Probe, Inv, TypeOK, Pcs
    <3> QED
      BY <3>3 DEF Probe, Inv, TypeOK
  <2> QED
    BY <2>1, <2>2
<1>3. Past' /\ EntryFits'
  BY <1>1, StaysInstalled DEF Inv, Past, Within, EntryFits, Alone
<1>4. Calm(p)'
  BY <1>1 DEF Inv, Calm, Alone
<1>5. ASSUME print[p] = installed
      PROVE  Knows(p)'
  <2>1. \A i \in 1..4 : i < next[p] => ~Answers(runtime[p], i)
    BY <1>1, <1>5 DEF Inv, Knows
  <2>2. CASE next[p] > 4
    <3>1. at'[p] = "failed" /\ \A i \in 1..4 : ~Answers(runtime[p], i)
      BY <1>1, <2>1, <2>2 DEF Probe, Inv, TypeOK
    <3> QED
      BY <1>1, <3>1, StaysInstalled DEF Knows, Alone
  <2>3. CASE ~(next[p] > 4) /\ Answers(runtime[p], next[p])
    <3>1. at'[p] = "save" /\ got'[p] = Candidates(runtime[p])[next[p]] /\ next[p] \in 1..4
      BY <1>1, <2>3 DEF Probe, Inv, TypeOK
    <3>2. IsFirst(runtime[p], Candidates(runtime[p])[next[p]])
      BY <2>1, <2>3, <3>1 DEF IsFirst
    <3> QED
      BY <1>1, <3>1, <3>2, StaysInstalled DEF Knows, Alone, IsFirst, Answers
  <2>4. CASE ~(next[p] > 4) /\ ~Answers(runtime[p], next[p])
    <3>1. at'[p] = "probe" /\ next'[p] = next[p] + 1
      BY <1>1, <2>4 DEF Probe, Inv, TypeOK
    <3>2. \A i \in 1..4 : i < next[p] + 1 => i < next[p] \/ i = next[p]
      BY <1>1
    <3>3. \A i \in 1..4 : i < next'[p] => ~Answers(runtime[p], i)
      BY <2>1, <2>4, <3>1, <3>2
    <3> QED
      BY <1>1, <3>1, <3>3, StaysInstalled DEF Knows, Alone
  <2> QED
    BY <2>2, <2>3, <2>4
<1>6. \A q \in Procs : Knows(q)' /\ Calm(q)'
  <2>1. print[p] # installed => Knows(p)'
    BY <1>1 DEF Knows, Alone
  <2> QED
    BY <1>1, <1>4, <1>5, <2>1, Bystander DEF Inv, Alone
<1> QED
  BY <1>2, <1>3, <1>6 DEF Inv

LEMMA SaveCacheInv == ASSUME Inv, NEW p \in Procs, SaveCache(p) PROVE Inv'
<1> USE DEF Goto
<1>1. /\ Alone(p) /\ print' = print /\ calm' = calm /\ at[p] = "save" /\ at'[p] = "done"
      /\ got' = got /\ next' = next /\ runtime[p] \in Runtimes
  BY DEF SaveCache, Inv, TypeOK, Alone
<1>2. /\ Entry(p) \in Entries /\ Entry(p).print = print[p] /\ Entry(p).impl = got[p]
  BY DEF Entry, Entries, Inv, TypeOK
<1>3. \A r \in Runtimes : cache'[r] = cache[r] \/ (r = runtime[p] /\ cache'[r] = Entry(p))
  BY DEF SaveCache, Inv, TypeOK
<1>4. TypeOK'
  <2>1. at' \in [Procs -> Pcs]
    BY DEF SaveCache, Inv, TypeOK, Pcs
  <2>2. \A r \in Runtimes : cache'[r] = Empty \/ cache'[r] \in Entries
    BY <1>2, <1>3 DEF Inv, TypeOK
  <2> QED
    BY <2>1, <2>2 DEF SaveCache, Inv, TypeOK
<1>5. Past'
  BY <1>1, <1>2, <1>3 DEF Inv, Past, Alone, Within
<1>6. EntryFits'
  <2> SUFFICES ASSUME NEW r \in Runtimes, cache'[r] # Empty, cache'[r].print = installed
               PROVE  IsFirst(r, cache'[r].impl)
    BY <1>1, StaysInstalled DEF EntryFits, Alone, IsFirst, Answers
  <2>1. CASE cache'[r] = cache[r]
    BY <2>1 DEF Inv, EntryFits
  <2>2. CASE r = runtime[p] /\ cache'[r] = Entry(p)
    BY <1>1, <1>2, <2>2 DEF Inv, Knows
  <2> QED
    BY <1>3, <2>1, <2>2
<1>7. Knows(p)' /\ Calm(p)'
  BY <1>1, StaysInstalled DEF Inv, Knows, Calm, Alone
<1>8. \A q \in Procs : Knows(q)' /\ Calm(q)'
  BY <1>1, <1>7, Bystander DEF Inv, Alone
<1> QED
  BY <1>4, <1>5, <1>6, <1>8 DEF Inv

LEMMA ReturnInv == ASSUME Inv, NEW p \in Procs, Return(p) PROVE Inv'
<1> USE DEF Return, Goto
<1>1. TypeOK'
  BY Defaults DEF Inv, TypeOK
<1>2. Alone(p) /\ at'[p] = "idle" /\ print'[p] = Nothing /\ next'[p] = 1 /\ cache' = cache
  BY DEF Inv, TypeOK, Alone
<1>3. Past'
  <2>1. Within(Nothing, installed)
    BY Defaults DEF Inv, TypeOK
  <2> QED
    BY <1>2, <2>1 DEF Inv, Past, Within, Alone
<1>4. EntryFits'
  BY StaysInstalled DEF Inv, EntryFits
<1>5. \A q \in Procs : Knows(q)' /\ Calm(q)'
  BY <1>2, Bystander DEF Inv, Alone, Knows, Calm
<1> QED
  BY <1>1, <1>3, <1>4, <1>5 DEF Inv

(* After an installation no fingerprint is of what is installed.            *)
LEMMA InstallInv == ASSUME OnlyGrows, Inv, NEW b \in Binaries, Install(b) PROVE Inv'
<1>1. /\ installed[b] \in Nat /\ installed[b] < MaxVersion
      /\ installed' = [installed EXCEPT ![b] = installed[b] + 1]
      /\ UNCHANGED <<cache, at, runtime, print, next, got>>
      /\ calm' = [p \in Procs |-> at[p] = "idle"]
  BY ProbeAssumption DEF OnlyGrows, Install, Inv, TypeOK, Installs
<1>2. installed' \in Installs
  <2>1. installed[b] + 1 \in 0..MaxVersion
    BY <1>1, ProbeAssumption
  <2> QED
    BY <1>1, <2>1 DEF Inv, TypeOK, Installs
<1>3. TypeOK'
  BY <1>1, <1>2 DEF Inv, TypeOK
<1>4. installed'[b] = installed[b] + 1 /\ \A c \in Binaries : c # b => installed'[c] = installed[c]
  BY <1>1 DEF Inv, TypeOK, Installs
<1>5. ASSUME NEW f \in Installs, Within(f, installed)
      PROVE  Within(f, installed') /\ f # installed'
  <2>1. \A c \in Binaries : f[c] \in Nat /\ installed[c] \in Nat /\ f[c] <= installed[c]
    BY <1>5, ProbeAssumption DEF Installs, Within, Inv, TypeOK
  <2>2. f[b] < installed'[b]
    BY <1>4, <2>1
  <2>3. \A c \in Binaries : f[c] <= installed'[c]
    BY <1>4, <2>1
  <2>4. ~(f[b] < f[b])
    BY <2>1
  <2> QED
    BY <2>2, <2>3, <2>4 DEF Within
<1>6. \A p \in Procs : print[p] \in Installs /\ Within(print[p], installed)
  BY DEF Inv, TypeOK, Past
<1>7. \A r \in Runtimes : cache[r] # Empty => cache[r].print \in Installs /\ Within(cache[r].print, installed)
  BY DEF Inv, TypeOK, Past, Entries
<1>8. Past'
  BY <1>1, <1>5, <1>6, <1>7 DEF Past, Within
<1>9. EntryFits'
  BY <1>1, <1>5, <1>7 DEF EntryFits
<1>10. \A p \in Procs : Knows(p)'
  BY <1>1, <1>5, <1>6 DEF Knows
<1>11. \A p \in Procs : Calm(p)'
  BY <1>1 DEF Inv, Calm
<1> QED
  BY <1>3, <1>8, <1>9, <1>10, <1>11 DEF Inv

----------------------------------------------------------------------------
(* What DetectCompose of every process keeps while binaries only come.      *)
THEOREM ComposeInv == ASSUME OnlyGrows PROVE Spec => []Inv
<1>1. ASSUME Inv, [Next]_vars
      PROVE  Inv'
  <2>1. CASE UNCHANGED vars
    BY <1>1, <2>1, StaysInstalled, Bystander DEF vars, Inv, TypeOK, Past, EntryFits
  <2> QED
    BY <1>1, <2>1, FingerprintInv, LoadCacheInv, ProbeInv, SaveCacheInv, ReturnInv, InstallInv DEF Next
<1> QED
  BY <1>1, InitInv, PTL DEF Spec

(* saveComposeCache files the winner under the fingerprint taken before the *)
(* probe, so that an entry whose fingerprint is found again fits.           *)
THEOREM EntriesFit == ASSUME OnlyGrows PROVE Spec => []EntryFits
<1>1. Inv => EntryFits
  BY DEF Inv
<1> QED
  BY <1>1, ComposeInv, PTL

(* DetectCompose gives the first candidate that answers, from the cache or  *)
(* by probing.                                                              *)
THEOREM FirstCandidateWins == ASSUME OnlyGrows PROVE Spec => []FirstWins
<1>1. Inv => FirstWins
  BY DEF Inv, Knows, Calm, FirstWins
<1> QED
  BY <1>1, ComposeInv, PTL

----------------------------------------------------------------------------
(* One lifecycle command (NamedHooks).                                      *)

(* Only an error is reported; the first one is there when the siblings are  *)
(* cancelled, and before there is one nobody but the caller cancels.        *)
Failing ==
  /\ \A e \in Hooks : entry[e].is \in {"reports", "cancels"} => entry[e].was \in {"failed", "killed"}
  /\ \A e \in Hooks : entry[e].is = "cancels" => first # NoHook
  /\ first # NoHook => entry[first].is # "running"
  /\ cancelled /\ first = NoHook => \A e \in Hooks : entry[e].is = "done"

HooksInv == RunTypeOK /\ Failing /\ CauseReported

LEMMA HooksInit ==
  ASSUME RunInit
  PROVE  HooksInv
<1>1. RunTypeOK /\ first = NoHook
  BY DEF RunInit, RunTypeOK, States
<1> QED
  BY <1>1 DEF RunInit, HooksInv, Failing, CauseReported

(* An entry that runs ends; nothing else changes.                           *)
LEMMA EntryEnds ==
  ASSUME HooksInv, NEW e \in Hooks, Succeeds(e) \/ Fails(e) \/ Killed(e)
  PROVE  HooksInv'
<1> USE HookAssumption DEF HooksInv
<1>1. /\ entry[e].is = "running" /\ UNCHANGED <<first, cancelled, caller, returned>>
      /\ command' \in [Hooks -> BOOLEAN]
  BY DEF Succeeds, Fails, Killed, RunTypeOK
<1>2. PICK was \in {"ok", "failed", "killed"} :
        /\ was = "killed" => cancelled \/ caller
        /\ entry' = [entry EXCEPT ![e] = [is |-> IF was = "ok" THEN "done" ELSE "reports",
                                          was |-> was]]
  BY DEF Succeeds, Fails, Killed, Ends
<1>3. /\ entry'[e].is \in {"done", "reports"} /\ entry'[e].was = was
      /\ (was = "ok" => entry'[e].is = "done")
      /\ \A d \in Hooks \ {e} : entry'[d] = entry[d]
  BY <1>2 DEF RunTypeOK
<1>4. RunTypeOK'
  BY <1>1, <1>2, <1>3 DEF RunTypeOK, States
<1>5. first # e
  BY <1>1 DEF Failing
<1>6. Failing'
  BY <1>1, <1>2, <1>3, <1>5 DEF Failing, RunTypeOK
<1>7. CauseReported'
  BY <1>1, <1>3, <1>5 DEF CauseReported, RunTypeOK
<1> QED
  BY <1>4, <1>6, <1>7

(* The entry that records its error failed by itself: had it been killed,   *)
(* somebody had recorded an error before it, or the caller were cancelled.  *)
LEMMA ErrorRecorded ==
  ASSUME HooksInv, NEW e \in Hooks, Report(e) \/ CancelSiblings(e)
  PROVE  HooksInv'
<1> USE HookAssumption DEF HooksInv
<1>1. PICK is \in {"cancels", "done"} : entry' = [entry EXCEPT ![e].is = is]
  BY DEF Report, CancelSiblings, Becomes
<1>2. /\ entry'[e].is = is /\ entry'[e].was = entry[e].was
      /\ \A d \in Hooks \ {e} : entry'[d] = entry[d]
  BY <1>1 DEF RunTypeOK
<1>3. UNCHANGED <<command, caller, returned>> /\ (first # NoHook => first' = first)
  BY DEF Report, CancelSiblings
<1>4. /\ first' # NoHook /\ first' \in Hooks /\ cancelled' \in BOOLEAN
      /\ (cancelled => cancelled')
  BY DEF Report, CancelSiblings, RunTypeOK, Failing
<1>5. RunTypeOK'
  BY <1>1, <1>2, <1>3, <1>4 DEF RunTypeOK, States
<1>6. entry[e].is \in {"reports", "cancels"} /\ entry[e].was \in {"failed", "killed"}
  BY DEF Report, CancelSiblings, Failing
<1>7. Failing'
  <2>1. first' = first \/ first' = e
    BY DEF Report, CancelSiblings
  <2>2. entry'[first'].is # "running"
    BY <1>2, <1>4, <2>1 DEF Failing
  <2> QED
    BY <1>2, <1>4, <1>6, <2>2 DEF Failing
<1>8. CauseReported'
  <2>1. CASE first # NoHook
    BY <1>2, <1>3, <1>4, <2>1 DEF CauseReported
  <2>2. CASE first = NoHook
    <3>1. first' = e /\ entry[e].is = "reports"
      BY <2>2 DEF Report, CancelSiblings, Failing
    <3>2. entry[e].was = "killed" => caller
      BY <2>2, <3>1 DEF Failing, RunTypeOK
    <3> QED
      BY <1>2, <1>3, <1>6, <3>1, <3>2 DEF CauseReported
  <2> QED
    BY <2>1, <2>2
<1> QED
  BY <1>5, <1>7, <1>8

LEMMA HooksStep ==
  ASSUME HooksInv, [RunNext]_runvars
  PROVE  HooksInv'
<1> USE HookAssumption DEF HooksInv
<1>1. CASE \E e \in Hooks : OrphanEnds(e)
  BY <1>1 DEF OrphanEnds, RunTypeOK, Failing, CauseReported
<1>2. CASE RunReturns
  BY <1>2 DEF RunReturns, RunTypeOK, Failing, CauseReported
<1>3. CASE Interrupt
  BY <1>3 DEF Interrupt, RunTypeOK, Failing, CauseReported
<1>4. CASE UNCHANGED runvars
  BY <1>4 DEF runvars, RunTypeOK, Failing, CauseReported
<1> QED
  BY <1>1, <1>2, <1>3, <1>4, EntryEnds, ErrorRecorded DEF RunNext

(* Whatever the entries do, and at whatever moment they end or are killed:  *)
(* the error that runNamed returns is that of an entry which failed by      *)
(* itself, never of one that was stopped because another had failed, unless *)
(* the caller was interrupted.                                              *)
THEOREM CauseIsReported == RunSpec => []CauseReported
<1>1. RunInit => HooksInv
  BY HooksInit
<1>2. HooksInv /\ [RunNext]_runvars => HooksInv'
  BY HooksStep
<1>3. HooksInv => CauseReported
  BY DEF HooksInv
<1> QED
  BY <1>1, <1>2, <1>3, PTL DEF RunSpec
=============================================================================
