------------------------------ MODULE KeyFiles ------------------------------
(***************************************************************************)
(* The ssh keys of a workspace (package keys): the two key pairs in the    *)
(* state directory, known_hosts, and the copies that provision installs in *)
(* the container.  Several devc processes run `devc up`, `devc keys`,      *)
(* `devc keys --rotate` and `devc ssh-config`; a process may die between   *)
(* any two system calls.                                                   *)
(*                                                                         *)
(* A key is a number, and a file holds a half of one: its number, None     *)
(* when there is no file, Torn when it was created and not yet written.    *)
(* os.WriteFile creates or truncates, then writes the few bytes at once.   *)
(***************************************************************************)
EXTENDS Naturals

CONSTANTS
  Procs,     \* devc processes
  MaxKeys,   \* bound: key pairs ever generated
  Crashes,   \* processes may die
  Overlap    \* processes run at the same time

ASSUME KeyAssumption ==
  MaxKeys \in Nat /\ Crashes \in BOOLEAN /\ Overlap \in BOOLEAN

Pairs == {"client", "host"}
None == 0
Torn == MaxKeys + 1
Whole == 1..MaxKeys
Contents == Whole \cup {None, Torn}

VARIABLES
  priv,    \* priv[x]: the private half of pair x on the host
  pub,     \* pub[x]: its public half
  known,   \* the host key that known_hosts pins
  ctr,     \* what the container has: its host key, the authorized key
  made,    \* key pairs generated so far
  at,      \* at[p]: the next system call of process p
  pair,    \* pair[p]: the pair it is busy with
  op,      \* op[p]: up, show, rotate or config
  got,     \* got[p]: the key p has generated, or has read from host_key.pub
  copy,    \* copy[p]: what provision has read to install
  old,     \* old[p]: made when p started
  last     \* the operation that succeeded and nothing has happened since, cut:
           \* over a stream that broke off; and clean: whether a rotation has
           \* succeeded since a process last died

files == <<priv, pub, known>>
vars == <<files, ctr, made, at, pair, op, got, copy, old, last>>

Ops == {"up", "show", "rotate", "config"}
Calls == {"idle", "remove_priv", "remove_pub", "check", "create_priv", "write_priv",
          "create_pub", "write_pub", "read_pub", "create_known", "write_known",
          "print", "read_host", "read_auth", "install"}

TypeOK ==
  /\ priv \in [Pairs -> Contents] /\ pub \in [Pairs -> Contents]
  /\ known \in Contents
  /\ ctr \in [host : Contents, auth : Contents]
  /\ made \in 0..MaxKeys
  /\ at \in [Procs -> Calls]
  /\ pair \in [Procs -> Pairs]
  /\ op \in [Procs -> Ops]
  /\ got \in [Procs -> Contents]
  /\ copy \in [Procs -> [host : Contents, auth : Contents]]
  /\ old \in [Procs -> 0..MaxKeys]
  /\ last \in [op : Ops \cup {"none"}, old : 0..MaxKeys, cut : BOOLEAN, clean : BOOLEAN]

Nothing == [host |-> None, auth |-> None]
Unknown(clean) == [op |-> "none", old |-> 0, cut |-> FALSE, clean |-> clean]

Init ==
  /\ priv = [x \in Pairs |-> None] /\ pub = [x \in Pairs |-> None]
  /\ known = None
  /\ ctr = Nothing
  /\ made = 0
  /\ at = [p \in Procs |-> "idle"]
  /\ pair = [p \in Procs |-> "client"]
  /\ op = [p \in Procs |-> "show"]
  /\ got = [p \in Procs |-> None]
  /\ copy = [p \in Procs |-> Nothing]
  /\ old = [p \in Procs |-> 0]
  /\ last = Unknown(TRUE)

Goto(p, call) == at' = [at EXCEPT ![p] = call]

(* The process is over, and its memory gone.                                *)
Finish(p) ==
  /\ Goto(p, "idle")
  /\ pair' = [pair EXCEPT ![p] = "client"]
  /\ op' = [op EXCEPT ![p] = "show"]
  /\ got' = [got EXCEPT ![p] = None]
  /\ copy' = [copy EXCEPT ![p] = Nothing]
  /\ old' = [old EXCEPT ![p] = 0]

Begin(p, o) ==
  /\ at[p] = "idle"
  /\ Overlap \/ \A q \in Procs : at[q] = "idle"
  /\ op' = [op EXCEPT ![p] = o]
  /\ pair' = [pair EXCEPT ![p] = "client"]
  /\ old' = [old EXCEPT ![p] = made]
  /\ Goto(p, IF o = "rotate" THEN "remove_priv" ELSE "check")
  /\ last' = Unknown(last.clean)
  /\ UNCHANGED <<files, ctr, made, got, copy>>

(* Mutant: Rotate leaves the client's private half.                         *)
MutantRemovePrivate(p) ==
  /\ at[p] = "remove_priv"
  /\ priv' = [priv EXCEPT !["host"] = None]
  /\ Goto(p, "remove_pub")
  /\ UNCHANGED <<pub, known, ctr, made, pair, op, got, copy, old, last>>

(* Rotate removes four files, pair by pair, and then is Ensure.             *)
RemovePrivate(p) ==
  /\ at[p] = "remove_priv"
  /\ priv' = [priv EXCEPT ![pair[p]] = None]
  /\ Goto(p, "remove_pub")
  /\ UNCHANGED <<pub, known, ctr, made, pair, op, got, copy, old, last>>

(* Mutant: Rotate leaves the host's keys.                                   *)
MutantRemovePublic(p) ==
  /\ at[p] = "remove_pub"
  /\ pub' = [pub EXCEPT ![pair[p]] = None]
  /\ Goto(p, "check")
  /\ UNCHANGED <<priv, known, ctr, made, pair, op, got, copy, old, last>>

RemovePublic(p) ==
  /\ at[p] = "remove_pub"
  /\ pub' = [pub EXCEPT ![pair[p]] = None]
  /\ IF pair[p] = "client"
     THEN Goto(p, "remove_priv") /\ pair' = [pair EXCEPT ![p] = "host"]
     ELSE Goto(p, "check") /\ pair' = [pair EXCEPT ![p] = "client"]
  /\ UNCHANGED <<priv, known, ctr, made, op, got, copy, old, last>>

NextPair(p) ==
  IF pair[p] = "client"
  THEN Goto(p, "check") /\ pair' = [pair EXCEPT ![p] = "host"]
  ELSE Goto(p, "read_pub") /\ UNCHANGED pair

(* Mutant: Ensure makes the keys every time.                                *)
MutantCheckPair(p) ==
  /\ at[p] = "check"
  /\ Goto(p, "create_priv") /\ UNCHANGED pair
  /\ UNCHANGED <<files, ctr, made, op, got, copy, old, last>>

(* Ensure: a pair is there when its private half is.                        *)
CheckPair(p) ==
  /\ at[p] = "check"
  /\ IF priv[pair[p]] # None
     THEN NextPair(p)
     ELSE Goto(p, "create_priv") /\ UNCHANGED pair
  /\ UNCHANGED <<files, ctr, made, op, got, copy, old, last>>

(* generateKeyPair: the private half, then the public half.                 *)
CreatePrivate(p) ==
  /\ at[p] = "create_priv"
  /\ made < MaxKeys
  /\ made' = made + 1
  /\ got' = [got EXCEPT ![p] = made + 1]
  /\ priv' = [priv EXCEPT ![pair[p]] = Torn]
  /\ Goto(p, "write_priv")
  /\ UNCHANGED <<pub, known, ctr, pair, op, copy, old, last>>

WritePrivate(p) ==
  /\ at[p] = "write_priv"
  /\ priv' = [priv EXCEPT ![pair[p]] = got[p]]
  /\ Goto(p, "create_pub")
  /\ UNCHANGED <<pub, known, ctr, made, pair, op, got, copy, old, last>>

CreatePublic(p) ==
  /\ at[p] = "create_pub"
  /\ pub' = [pub EXCEPT ![pair[p]] = Torn]
  /\ Goto(p, "write_pub")
  /\ UNCHANGED <<priv, known, ctr, made, pair, op, got, copy, old, last>>

WritePublic(p) ==
  /\ at[p] = "write_pub"
  /\ pub' = [pub EXCEPT ![pair[p]] = got[p]]
  /\ NextPair(p)
  /\ UNCHANGED <<priv, known, ctr, made, op, got, copy, old, last>>

(* Mutant: a known_hosts that is there is kept.                             *)
MutantReadPublic(p) ==
  /\ at[p] = "read_pub"
  /\ IF known = None /\ pub["host"] \in Whole
     THEN /\ got' = [got EXCEPT ![p] = pub["host"]]
          /\ Goto(p, "create_known")
          /\ UNCHANGED copy
     ELSE /\ UNCHANGED <<got, copy>>
          /\ Goto(p, IF op[p] = "up" THEN "read_host" ELSE "print")
  /\ UNCHANGED <<files, ctr, made, pair, op, old, last>>

Success(p, cut) ==
  [op |-> op[p], old |-> old[p], cut |-> cut, clean |-> last.clean \/ op[p] = "rotate"]

Succeeds(p) == last' = Success(p, FALSE)

(* writeKnownHosts: a missing or unreadable public half is an error.        *)
ReadPublic(p) ==
  /\ at[p] = "read_pub"
  /\ IF pub["host"] \in Whole
     THEN /\ got' = [got EXCEPT ![p] = pub["host"]]
          /\ Goto(p, "create_known")
          /\ UNCHANGED <<pair, op, copy, old>>
     ELSE Finish(p)
  /\ UNCHANGED <<files, ctr, made, last>>

CreateKnown(p) ==
  /\ at[p] = "create_known"
  /\ known' = Torn
  /\ Goto(p, "write_known")
  /\ UNCHANGED <<priv, pub, ctr, made, pair, op, got, copy, old, last>>

(* Ensure is done.  up goes on to provision the container, keys prints the  *)
(* client's public half, ssh-config needs no more of the keys.               *)
Ensured == {"read_host", "print"}

WriteKnown(p) ==
  /\ at[p] = "write_known"
  /\ known' = got[p]
  /\ Goto(p, IF op[p] = "up" THEN "read_host" ELSE "print")
  /\ UNCHANGED <<priv, pub, ctr, made, pair, op, got, copy, old, last>>

Configured(p) ==
  /\ at[p] = "print" /\ op[p] = "config"
  /\ Finish(p)
  /\ Succeeds(p)
  /\ UNCHANGED <<files, ctr, made>>

PrintPublic(p) ==
  /\ at[p] = "print" /\ op[p] # "config"
  /\ Finish(p)
  /\ IF pub["client"] # None THEN Succeeds(p) ELSE UNCHANGED last
  /\ UNCHANGED <<files, ctr, made>>

(* writeSecrets: a file that is not there is an error, its bytes are not    *)
(* looked at.                                                               *)
ReadHost(p) ==
  /\ at[p] = "read_host"
  /\ IF priv["host"] # None
     THEN /\ copy' = [copy EXCEPT ![p].host = priv["host"]]
          /\ Goto(p, "read_auth")
          /\ UNCHANGED <<pair, op, got, old>>
     ELSE Finish(p)
  /\ UNCHANGED <<files, ctr, made, last>>

ReadAuthorized(p) ==
  /\ at[p] = "read_auth"
  /\ IF pub["client"] # None
     THEN /\ copy' = [copy EXCEPT ![p].auth = pub["client"]]
          /\ Goto(p, "install")
          /\ UNCHANGED <<pair, op, got, old>>
     ELSE Finish(p)
  /\ UNCHANGED <<files, ctr, made, last>>

Install(p) ==
  /\ at[p] = "install"
  /\ ctr' = copy[p]
  /\ Finish(p)
  /\ Succeeds(p)
  /\ UNCHANGED <<files, made>>

Crash(p) ==
  /\ Crashes
  /\ at[p] # "idle"
  /\ Finish(p)
  /\ last' = Unknown(FALSE)
  /\ UNCHANGED <<files, ctr, made>>

(* The script in the container does not see that its input was cut short:   *)
(* it installs what came and succeeds, and whether its caller learns of the *)
(* broken stream is for the runtime's client to say.                        *)
InstallCut(p) ==
  /\ Crashes
  /\ at[p] = "install"
  /\ ctr' \in {[host |-> h, auth |-> Torn] : h \in {copy[p].host, Torn}}
  /\ Finish(p)
  /\ last' \in {last, Success(p, TRUE)}
  /\ UNCHANGED <<files, made>>

Step(p) ==
  \/ RemovePrivate(p) \/ RemovePublic(p) \/ CheckPair(p)
  \/ CreatePrivate(p) \/ WritePrivate(p) \/ CreatePublic(p) \/ WritePublic(p)
  \/ ReadPublic(p) \/ CreateKnown(p) \/ WriteKnown(p)
  \/ Configured(p) \/ PrintPublic(p) \/ ReadHost(p) \/ ReadAuthorized(p) \/ Install(p)

Next ==
  \E p \in Procs : \/ \E o \in Ops : Begin(p, o)
                   \/ Step(p) \/ Crash(p) \/ InstallCut(p)

Spec == Init /\ [][Next]_vars

----------------------------------------------------------------------------
(* Properties.                                                              *)

(* `devc keys --rotate` leaves two fresh pairs, whatever an earlier process *)
(* that died left behind, and known_hosts pins the new host key.            *)
RotateReplaces ==
  last.op = "rotate" =>
    /\ \A x \in Pairs : /\ priv[x] \in Whole /\ priv[x] > last.old
                        /\ pub[x] = priv[x]
    /\ known = pub["host"]

(* "existing keys are kept, so the SSH identity is stable across devc up    *)
(* runs": a pair that is there changes, in either half, only where Rotate   *)
(* removes it.                                                              *)
IdentityStable ==
  [][\A x \in Pairs :
       priv[x] \in Whole /\ pub[x] = priv[x] /\ <<priv[x], pub[x]>>' # <<priv[x], pub[x]>>
         => \E p \in Procs : at[p] = "remove_priv"]_vars

(* "Ensure creates any missing key material in dir": when it returns        *)
(* without an error all four halves are there and belong together, as long  *)
(* as no process has died, and again once a rotation has succeeded.         *)
EnsureCompletes ==
  \A p \in Procs, x \in Pairs :
    at[p] \in Ensured /\ last.clean => priv[x] \in Whole /\ pub[x] = priv[x]
=============================================================================
