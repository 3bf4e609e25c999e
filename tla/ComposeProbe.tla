---------------------------- MODULE ComposeProbe ----------------------------
(***************************************************************************)
(* DetectCompose (package runtime): which compose implementation devc runs.*)
(* The candidates are probed in order, the winner is cached under the      *)
(* fingerprint of what is installed, and later commands take it from the   *)
(* cache as long as the fingerprint is the same.  Several devc commands    *)
(* run at once, and the user installs, upgrades and removes binaries in    *)
(* the meantime.                                                           *)
(*                                                                         *)
(* A binary's version stands for the size and time that the fingerprint is *)
(* made of; 0: not installed.                                              *)
(***************************************************************************)
EXTENDS Naturals, Sequences

CONSTANTS
  Procs,        \* the devc commands
  MaxVersion,   \* bound: versions of a binary
  Removals,     \* whether the user also removes binaries
  Empty         \* model value: no cache file

ASSUME ProbeAssumption == MaxVersion \in Nat \ {0} /\ Removals \in BOOLEAN

Binaries == {"podman", "podman-compose", "docker", "docker-compose", "plugin"}
Installs == [Binaries -> 0..MaxVersion]
Nothing == [b \in Binaries |-> 0]
Runtimes == {"podman", "docker"}

(* candidatesFor.                                                           *)
Podman == <<"podman compose", "podman-compose">>
Docker == <<"docker compose", "docker-compose">>
Candidates(r) == IF r = "docker" THEN Docker \o Podman ELSE Podman \o Docker
Impls == {"podman compose", "podman-compose", "docker compose", "docker-compose"}

VARIABLES
  installed,  \* the binaries
  cache,      \* cache[r]: the cache file for runtime r
  at,         \* where p is: idle, load, probe, save, done, failed
  runtime,    \* the runtime p runs on
  print,      \* the fingerprint p computed
  next,       \* the candidate p probes next
  got,        \* the implementation p found
  calm        \* history: nothing was installed since p started

vars == <<installed, cache, at, runtime, print, next, got, calm>>

Pcs == {"idle", "load", "probe", "save", "done", "failed"}
Entries == [print : Installs, impl : Impls]

TypeOK ==
  /\ installed \in Installs
  /\ cache \in [Runtimes -> Entries \cup {Empty}]
  /\ at \in [Procs -> Pcs]
  /\ runtime \in [Procs -> Runtimes]
  /\ print \in [Procs -> Installs]
  /\ next \in [Procs -> 1..5]
  /\ got \in [Procs -> Impls]
  /\ calm \in [Procs -> BOOLEAN]

(* Some binaries are there to begin with.                                   *)
Init ==
  /\ installed \in [Binaries -> 0..1]
  /\ cache = [r \in Runtimes |-> Empty]
  /\ at = [p \in Procs |-> "idle"]
  /\ runtime \in [Procs -> Runtimes]
  /\ print = [p \in Procs |-> Nothing]
  /\ next = [p \in Procs |-> 1]
  /\ got = [p \in Procs |-> "podman compose"]
  /\ calm = [p \in Procs |-> TRUE]

Has(b) == installed[b] > 0

(* `podman compose` hands off to a provider, `docker compose` to a plugin.  *)
Responds(impl) ==
  CASE impl = "podman compose" -> Has("podman") /\ (Has("podman-compose") \/ Has("docker-compose"))
    [] impl = "podman-compose" -> Has("podman-compose")
    [] impl = "docker compose" -> Has("docker") /\ Has("plugin")
    [] impl = "docker-compose" -> Has("docker-compose")

Answers(r, i) == Responds(Candidates(r)[i])

----------------------------------------------------------------------------
Goto(p, label) == at' = [at EXCEPT ![p] = label]

(* composeFingerprint.                                                      *)
Fingerprint(p) ==
  /\ at[p] = "idle"
  /\ Goto(p, "load")
  /\ print' = [print EXCEPT ![p] = installed]
  /\ calm' = [calm EXCEPT ![p] = TRUE]
  /\ UNCHANGED <<installed, cache, runtime, next, got>>

(* Mutant: the entry is not compared with the fingerprint.                  *)
MutantHit(p) == cache[runtime[p]] # Empty

Hit(p) == cache[runtime[p]] # Empty /\ cache[runtime[p]].print = print[p]

(* loadComposeCache.                                                        *)
LoadCache(p) ==
  /\ at[p] = "load"
  /\ IF Hit(p)
     THEN Goto(p, "done") /\ got' = [got EXCEPT ![p] = cache[runtime[p]].impl]
     ELSE Goto(p, "probe") /\ UNCHANGED got
  /\ UNCHANGED <<installed, cache, runtime, print, next, calm>>

(* One candidate: on PATH, and `version` succeeds.                          *)
Probe(p) ==
  /\ at[p] = "probe"
  /\ IF next[p] > 4 THEN Goto(p, "failed") /\ UNCHANGED <<next, got>>
     ELSE LET c == Candidates(runtime[p])[next[p]]
          IN  /\ next' = [next EXCEPT ![p] = @ + 1]
              /\ IF Answers(runtime[p], next[p]) THEN Goto(p, "save") /\ got' = [got EXCEPT ![p] = c]
                 ELSE UNCHANGED <<at, got>>
  /\ UNCHANGED <<installed, cache, runtime, print, calm>>

(* Mutant: the fingerprint is taken when the entry is written.              *)
MutantEntry(p) == [print |-> installed, impl |-> got[p]]

Entry(p) == [print |-> print[p], impl |-> got[p]]

(* saveComposeCache: a file of its own renamed over the cache, or nothing.  *)
SaveCache(p) ==
  /\ at[p] = "save"
  /\ Goto(p, "done")
  /\ \/ cache' = [cache EXCEPT ![runtime[p]] = Entry(p)]
     \/ UNCHANGED cache
  /\ UNCHANGED <<installed, runtime, print, next, got, calm>>

Return(p) ==
  /\ at[p] \in {"done", "failed"}
  /\ Goto(p, "idle")
  /\ print' = [print EXCEPT ![p] = Nothing]
  /\ next' = [next EXCEPT ![p] = 1]
  /\ got' = [got EXCEPT ![p] = "podman compose"]
  /\ calm' = [calm EXCEPT ![p] = TRUE]
  /\ UNCHANGED <<installed, cache, runtime>>

(* The user installs or upgrades b, or removes it.                          *)
Install(b) ==
  /\ \/ installed[b] < MaxVersion /\ installed' = [installed EXCEPT ![b] = @ + 1]
     \/ Removals /\ Has(b) /\ installed' = [installed EXCEPT ![b] = 0]
  /\ calm' = [p \in Procs |-> at[p] = "idle"]
  /\ UNCHANGED <<cache, at, runtime, print, next, got>>

Next ==
  \/ \E p \in Procs :
       \/ Fingerprint(p) \/ LoadCache(p) \/ Probe(p) \/ SaveCache(p) \/ Return(p)
  \/ \E b \in Binaries : Install(b)

Spec == Init /\ [][Next]_vars

----------------------------------------------------------------------------
(* Properties.                                                              *)

IsFirst(r, impl) ==
  \E i \in 1..4 : /\ Candidates(r)[i] = impl /\ Answers(r, i)
                  /\ \A j \in 1..4 : j < i => ~Answers(r, j)

(* saveComposeCache, composeFingerprint: an entry recorded for what is      *)
(* installed now names the implementation that a probe would choose now,    *)
(* whatever was installed while the probe that recorded it ran.             *)
EntryFits ==
  \A r \in Runtimes :
    cache[r] # Empty /\ cache[r].print = installed => IsFirst(r, cache[r].impl)

(* DetectCompose, during which nothing is installed, returns the first      *)
(* candidate that responds, cached or not, and fails only if none does.     *)
FirstWins ==
  \A p \in Procs :
    calm[p] =>
      /\ at[p] = "done" => IsFirst(runtime[p], got[p])
      /\ at[p] = "failed" => \A i \in 1..4 : ~Answers(runtime[p], i)
=============================================================================
