-------------------------- MODULE ProvisionProofs --------------------------
(***************************************************************************)
(* What `devc up` and `devc keys` leave on the host, for any number of     *)
(* processes, keys, edits and crashes, as long as processes do not overlap *)
(* and, where the ssh config matters, the user does not save meanwhile.    *)
(***************************************************************************)
EXTENDS Provision, TLAPS

(* One devc process after the other.                                        *)
Serial == ~Overlap

(* A pair whose halves belong together; one that Ensure will complete.      *)
Good(x) == priv[x] \in Whole /\ pub[x] = priv[x]
Rest(x) == priv[x] = None \/ Good(x)

Removing == {"remove_priv", "remove_pub"}
Making == {"create_priv", "write_priv", "create_pub", "write_pub"}
Reading == {"read_host", "read_auth", "install"}
Pinning == {"create_known", "write_known"}

(* Nobody has died, or p replaces everything anyway.                        *)
Sound(p) == last.clean \/ op[p] = "rotate"

(* The pairs while p works on them.                                         *)
Working(p) ==
  /\ at[p] \in Removing => op[p] = "rotate"
  /\ at[p] = "create_priv" => priv[pair[p]] = None
  /\ at[p] = "write_priv" => priv[pair[p]] = Torn
  /\ at[p] \in {"create_pub", "write_pub"} => priv[pair[p]] = got[p]
  /\ at[p] \in {"write_priv", "create_pub", "write_pub"} => got[p] \in Whole
  /\ at[p] \in Pinning => got[p] = pub["host"] /\ got[p] \in Whole
  /\ at[p] \in Reading \cup {"print"} => known = pub["host"] /\ known \in Whole

Completing(p) ==
  Sound(p) =>
    /\ at[p] = "check" => Rest(pair[p])
    /\ at[p] \in Making \cup {"check"} =>
         IF pair[p] = "client" THEN Rest("host") ELSE Good("client")
    /\ at[p] \in Pinning \cup Reading \cup {"read_pub", "print"} => Good("client") /\ Good("host")

(* A rotation: what is removed is gone, and what is there is new.           *)
Replacing(p) ==
  op[p] = "rotate" =>
    /\ at[p] = "remove_pub" => priv[pair[p]] = None
    /\ at[p] \in Removing /\ pair[p] = "host" => priv["client"] = None
    /\ at[p] \notin Removing \cup {"idle"} => \A x \in Pairs : priv[x] \in Whole => priv[x] > old[p]
    /\ at[p] = "write_priv" => got[p] > old[p]

(* An up: what it will install.                                             *)
Copying(p) ==
  /\ at[p] \in {"read_auth", "install"} => copy[p].host = priv["host"]
  /\ at[p] = "install" => copy[p].auth = pub["client"]
  /\ at[p] \in Reading => op[p] = "up"

OneAtWork == \A p, q \in Procs : at[p] # "idle" /\ at[q] # "idle" => p = q
AllIdle == \A p \in Procs : at[p] = "idle"

KeyInv ==
  /\ TypeOK /\ OneAtWork /\ RotateReplaces
  /\ last.op # "none" => AllIdle
  /\ AllIdle /\ last.clean => \A x \in Pairs : Rest(x)
  /\ \A p \in Procs : at[p] # "idle" =>
       /\ old[p] <= made /\ Working(p) /\ Completing(p) /\ Replacing(p) /\ Copying(p)

----------------------------------------------------------------------------
LEMMA KeyFacts ==
  /\ MaxKeys \in Nat /\ None \in Contents /\ Torn \in Contents /\ None \notin Whole /\ Torn \notin Whole
  /\ Torn # None /\ Whole \subseteq Contents /\ Whole \subseteq Nat
BY KeyAssumption DEF None, Torn, Whole, Contents

LEMMA KeyInit == Init => KeyInv
<1> SUFFICES ASSUME Init PROVE KeyInv
  OBVIOUS
<1>1. TypeOK
  BY KeyFacts DEF Init, TypeOK, Pairs, Calls, Ops, Nothing, Unknown
<1> QED
  BY <1>1 DEF Init, KeyInv, OneAtWork, AllIdle, RotateReplaces, Rest, Unknown

Knows(p) == old[p] <= made /\ Working(p) /\ Completing(p) /\ Replacing(p) /\ Copying(p)

(* The only process at work does a step and is not over.                    *)
LEMMA GoesOn ==
  ASSUME KeyInv, NEW p \in Procs, at[p] # "idle", NEW label \in Calls \ {"idle"},
         at' = [at EXCEPT ![p] = label], last' = last, TypeOK', Knows(p)'
  PROVE  KeyInv'
<1>1. /\ \A q \in Procs : at'[q] # "idle" => q = p
      /\ at'[p] = label
  BY DEF KeyInv, TypeOK, OneAtWork
<1>2. OneAtWork' /\ ~AllIdle' /\ ~AllIdle
  BY <1>1 DEF OneAtWork, AllIdle
<1>3. last'.op = "none" /\ RotateReplaces'
  BY <1>2 DEF KeyInv, RotateReplaces
<1> QED
  BY <1>1, <1>2, <1>3 DEF KeyInv, Knows

(* The only process at work is over.                                        *)
LEMMA IsOver ==
  ASSUME KeyInv, NEW p \in Procs, at[p] # "idle", Finish(p), TypeOK', RotateReplaces',
         last'.clean => \A x \in Pairs : Rest(x)'
  PROVE  KeyInv'
<1>1. \A q \in Procs : at'[q] = "idle"
  BY DEF KeyInv, TypeOK, OneAtWork, Finish, Goto
<1>2. OneAtWork' /\ AllIdle'
  BY <1>1 DEF OneAtWork, AllIdle
<1> QED
  BY <1>1, <1>2 DEF KeyInv

LEMMA FinishTyped ==
  ASSUME TypeOK, NEW p \in Procs, Finish(p)
  PROVE  /\ at' \in [Procs -> Calls] /\ pair' \in [Procs -> Pairs] /\ op' \in [Procs -> Ops]
         /\ got' \in [Procs -> Contents] /\ old' \in [Procs -> 0..MaxKeys]
         /\ copy' \in [Procs -> [host : Contents, auth : Contents]]
BY KeyFacts DEF TypeOK, Finish, Goto, Calls, Pairs, Ops, Nothing

LEMMA Pair ==
  ASSUME TypeOK, NEW p \in Procs
  PROVE  /\ pair[p] \in Pairs /\ (pair[p] = "client" \/ pair[p] = "host")
         /\ \A x \in Pairs : x = "client" \/ x = "host"
         /\ \A x \in Pairs : priv[x] \in Contents
         /\ old[p] \in Nat /\ made \in Nat
BY KeyFacts DEF TypeOK, Pairs

LEMMA BeginKey ==
  ASSUME Serial, KeyInv, NEW p \in Procs, NEW o \in Ops, Begin(p, o)
  PROVE  KeyInv'
<1>1. AllIdle /\ at[p] = "idle"
  BY DEF Serial, Begin, AllIdle
<1>2. /\ at'[p] = (IF o = "rotate" THEN "remove_priv" ELSE "check")
      /\ \A q \in Procs : q # p => at'[q] = "idle"
      /\ op'[p] = o /\ pair'[p] = "client" /\ old'[p] = made
      /\ last' = Unknown(last.clean) /\ UNCHANGED <<priv, pub, known, ctr, made, got, copy>>
  BY <1>1 DEF Begin, Goto, files, AllIdle, KeyInv, TypeOK
<1>3. last'.clean = last.clean /\ last'.op = "none"
  BY <1>2 DEF Unknown
<1>4. TypeOK'
  <2>1. at' \in [Procs -> Calls] /\ pair' \in [Procs -> Pairs]
    BY DEF Begin, Goto, KeyInv, TypeOK, Calls, Pairs
  <2>2. op' \in [Procs -> Ops] /\ old' \in [Procs -> 0..MaxKeys]
    BY DEF Begin, KeyInv, TypeOK
  <2>3. last' \in [op : Ops \cup {"none"}, old : 0..MaxKeys, cut : BOOLEAN, clean : BOOLEAN]
    <3>1. last.clean \in BOOLEAN /\ 0 \in 0..MaxKeys
      BY KeyFacts DEF KeyInv, TypeOK
    <3> QED
      BY <1>2, <3>1 DEF Unknown
  <2> QED
    BY <1>2, <2>1, <2>2, <2>3 DEF KeyInv, TypeOK
<1>5. OneAtWork' /\ ~AllIdle' /\ RotateReplaces'
  BY <1>2, <1>3 DEF OneAtWork, AllIdle, RotateReplaces
<1>6. Working(p)' /\ Replacing(p)' /\ Copying(p)'
  BY <1>2 DEF Working, Replacing, Copying, Removing, Pinning, Reading
<1>7. Completing(p)'
  BY <1>1, <1>2, <1>3 DEF KeyInv, Completing, Sound, Rest, Good, Making, Pinning, Reading, Pairs
<1>8. old'[p] <= made'
  BY <1>2, Pair DEF KeyInv
<1> QED
  BY <1>2, <1>3, <1>4, <1>5, <1>6, <1>7, <1>8 DEF KeyInv

LEMMA RemovePrivateKey ==
  ASSUME KeyInv, NEW p \in Procs, RemovePrivate(p)
  PROVE  KeyInv'
<1> USE KeyFacts DEF KeyInv
<1>1. /\ at[p] = "remove_priv" /\ at' = [at EXCEPT ![p] = "remove_pub"]
      /\ priv' = [priv EXCEPT ![pair[p]] = None]
      /\ UNCHANGED <<pub, known, ctr, made, pair, op, got, copy, old, last>>
  BY DEF RemovePrivate, Goto
<1>2. at'[p] = "remove_pub" /\ priv'[pair[p]] = None /\ \A x \in Pairs : priv'[x] \in {priv[x], None}
  BY <1>1, Pair DEF TypeOK
<1>3. TypeOK'
  BY <1>1, Pair DEF TypeOK, Calls
<1>4. op[p] = "rotate" /\ (pair[p] = "host" => priv["client"] = None) /\ old[p] <= made
  BY <1>1 DEF Working, Replacing, Removing
<1>5. Knows(p)'
  BY <1>1, <1>2, <1>4, Pair DEF Knows, Working, Completing, Replacing, Copying, Removing, Making, Pinning, Reading
<1> QED
  BY <1>1, <1>3, <1>5, GoesOn DEF Calls

LEMMA RemovePublicKey ==
  ASSUME KeyInv, NEW p \in Procs, RemovePublic(p)
  PROVE  KeyInv'
<1> USE KeyFacts DEF KeyInv
<1>1. /\ at[p] = "remove_pub" /\ UNCHANGED <<priv, known, ctr, made, op, got, copy, old, last>>
      /\ pub' = [pub EXCEPT ![pair[p]] = None]
  BY DEF RemovePublic
<1>2. /\ op[p] = "rotate" /\ priv[pair[p]] = None /\ (pair[p] = "host" => priv["client"] = None)
      /\ old[p] <= made
  BY <1>1 DEF Working, Replacing, Removing
<1>3. CASE pair[p] = "client"
  <2>1. /\ at' = [at EXCEPT ![p] = "remove_priv"] /\ at'[p] = "remove_priv"
        /\ pair' = [pair EXCEPT ![p] = "host"] /\ pair'[p] = "host"
    BY <1>3 DEF RemovePublic, Goto, TypeOK
  <2>2. TypeOK'
    BY <1>1, <2>1, Pair DEF TypeOK, Calls, Pairs
  <2>3. Knows(p)'
    BY <1>1, <1>2, <1>3, <2>1 DEF Knows, Working, Completing, Replacing, Copying, Removing, Making, Pinning, Reading
  <2> QED
    BY <1>1, <2>1, <2>2, <2>3, GoesOn DEF Calls
<1>4. CASE pair[p] = "host"
  <2>1. /\ at' = [at EXCEPT ![p] = "check"] /\ at'[p] = "check"
        /\ pair' = [pair EXCEPT ![p] = "client"] /\ pair'[p] = "client"
    BY <1>4 DEF RemovePublic, Goto, TypeOK
  <2>2. TypeOK'
    BY <1>1, <2>1, Pair DEF TypeOK, Calls, Pairs
  <2>3. \A x \in Pairs : priv'[x] = None
    BY <1>1, <1>2, <1>4, Pair
  <2>4. Knows(p)'
    BY <1>1, <1>2, <2>1, <2>3 DEF Knows, Working, Completing, Replacing, Copying, Removing, Making, Pinning, Reading, Rest, Pairs
  <2> QED
    BY <1>1, <2>1, <2>2, <2>4, GoesOn DEF Calls
<1> QED
  BY <1>3, <1>4, Pair

(* After a pair: the other one, or known_hosts.                             *)
LEMMA NextPairFacts ==
  ASSUME TypeOK, NEW p \in Procs, NextPair(p)
  PROVE  /\ at' \in [Procs -> Calls] /\ pair' \in [Procs -> Pairs]
         /\ \/ /\ pair[p] = "client" /\ at' = [at EXCEPT ![p] = "check"]
               /\ at'[p] = "check" /\ pair'[p] = "host"
            \/ /\ pair[p] = "host" /\ at' = [at EXCEPT ![p] = "read_pub"]
               /\ at'[p] = "read_pub" /\ pair' = pair
BY Pair DEF TypeOK, NextPair, Goto, Calls, Pairs

LEMMA CheckPairKey ==
  ASSUME KeyInv, NEW p \in Procs, CheckPair(p)
  PROVE  KeyInv'
<1> USE KeyFacts DEF KeyInv
<1>1. at[p] = "check" /\ UNCHANGED <<priv, pub, known, ctr, made, op, got, copy, old, last>>
  BY DEF CheckPair, files
<1>2. CASE priv[pair[p]] = None
  <2>1. at' = [at EXCEPT ![p] = "create_priv"] /\ at'[p] = "create_priv" /\ pair' = pair
    BY <1>2 DEF CheckPair, Goto, TypeOK
  <2>2. TypeOK'
    BY <1>1, <2>1 DEF TypeOK, Calls
  <2>3. Knows(p)'
    BY <1>1, <1>2, <2>1 DEF Knows, Working, Completing, Sound, Rest, Good, Replacing, Copying, Removing, Making, Pinning, Reading
  <2> QED
    BY <1>1, <2>1, <2>2, <2>3, GoesOn DEF Calls
<1>3. CASE priv[pair[p]] # None
  <2>1. NextPair(p)
    BY <1>3 DEF CheckPair
  <2>2. TypeOK'
    BY <1>1, <2>1, NextPairFacts DEF TypeOK
  <2>3. Knows(p)'
    BY <1>1, <1>3, <2>1, NextPairFacts, Pair DEF Knows, Working, Completing, Sound, Rest, Good, Replacing, Copying, Removing, Making, Pinning, Reading
  <2> QED
    BY <1>1, <2>1, <2>2, <2>3, NextPairFacts, GoesOn DEF Calls
<1> QED
  BY <1>2, <1>3

LEMMA CreatePrivateKey ==
  ASSUME KeyInv, NEW p \in Procs, CreatePrivate(p)
  PROVE  KeyInv'
<1> USE KeyFacts DEF KeyInv
<1>1. /\ at[p] = "create_priv" /\ at' = [at EXCEPT ![p] = "write_priv"]
      /\ made < MaxKeys /\ made' = made + 1 /\ got' = [got EXCEPT ![p] = made + 1]
      /\ priv' = [priv EXCEPT ![pair[p]] = Torn]
      /\ UNCHANGED <<pub, known, ctr, pair, op, copy, old, last>>
  BY DEF CreatePrivate, Goto
<1>2. made + 1 \in Whole /\ made' \in 0..MaxKeys
  BY <1>1, Pair DEF Whole
<1>3. /\ at'[p] = "write_priv" /\ got'[p] = made + 1 /\ priv'[pair[p]] = Torn
      /\ \A x \in Pairs : x # pair[p] => priv'[x] = priv[x]
  BY <1>1, Pair DEF TypeOK
<1>4. TypeOK'
  BY <1>1, <1>2, Pair DEF TypeOK, Calls
<1>5. Knows(p)'
  <2>1. old'[p] <= made' /\ got'[p] > old[p]
    BY <1>1, <1>3, Pair
  <2>2. Working(p)' /\ Copying(p)'
    BY <1>1, <1>2, <1>3 DEF Working, Copying, Removing, Making, Pinning, Reading
  <2>3. Completing(p)'
    BY <1>1, <1>3, Pair DEF Completing, Sound, Rest, Good, Removing, Making, Pinning, Reading, Pairs
  <2>4. Replacing(p)'
    BY <1>1, <1>3, <2>1, Pair DEF Replacing, Removing
  <2> QED
    BY <2>1, <2>2, <2>3, <2>4 DEF Knows
<1> QED
  BY <1>1, <1>4, <1>5, GoesOn DEF Calls

LEMMA WritePrivateKey ==
  ASSUME KeyInv, NEW p \in Procs, WritePrivate(p)
  PROVE  KeyInv'
<1> USE KeyFacts DEF KeyInv
<1>1. /\ at[p] = "write_priv" /\ at' = [at EXCEPT ![p] = "create_pub"]
      /\ priv' = [priv EXCEPT ![pair[p]] = got[p]]
      /\ UNCHANGED <<pub, known, ctr, made, pair, op, got, copy, old, last>>
  BY DEF WritePrivate, Goto
<1>2. got[p] \in Whole /\ (op[p] = "rotate" => got[p] > old[p])
  BY <1>1 DEF Working, Replacing
<1>3. /\ at'[p] = "create_pub" /\ priv'[pair[p]] = got[p]
      /\ \A x \in Pairs : x # pair[p] => priv'[x] = priv[x]
  BY <1>1, Pair DEF TypeOK
<1>4. TypeOK'
  BY <1>1, Pair DEF TypeOK, Calls
<1>5. Knows(p)'
  <2>1. Working(p)' /\ Copying(p)'
    BY <1>1, <1>2, <1>3 DEF Working, Copying, Removing, Making, Pinning, Reading
  <2>2. Completing(p)'
    BY <1>1, <1>3, Pair DEF Completing, Sound, Rest, Good, Removing, Making, Pinning, Reading, Pairs
  <2>3. Replacing(p)'
    BY <1>1, <1>2, <1>3, Pair DEF Replacing, Removing
  <2> QED
    BY <1>1, <2>1, <2>2, <2>3 DEF Knows
<1> QED
  BY <1>1, <1>4, <1>5, GoesOn DEF Calls

LEMMA CreatePublicKey ==
  ASSUME KeyInv, NEW p \in Procs, CreatePublic(p)
  PROVE  KeyInv'
<1> USE KeyFacts DEF KeyInv
<1>1. /\ at[p] = "create_pub" /\ at' = [at EXCEPT ![p] = "write_pub"]
      /\ pub' = [pub EXCEPT ![pair[p]] = Torn]
      /\ UNCHANGED <<priv, known, ctr, made, pair, op, got, copy, old, last>>
  BY DEF CreatePublic, Goto
<1>2. at'[p] = "write_pub" /\ \A x \in Pairs : x # pair[p] => pub'[x] = pub[x]
  BY <1>1, Pair DEF TypeOK
<1>3. TypeOK'
  BY <1>1, Pair DEF TypeOK, Calls
<1>4. Knows(p)'
  <2>1. Working(p)' /\ Copying(p)' /\ Replacing(p)'
    BY <1>1, <1>2 DEF Working, Copying, Replacing, Removing, Making, Pinning, Reading
  <2>2. Completing(p)'
    BY <1>1, <1>2, Pair DEF Completing, Sound, Rest, Good, Removing, Making, Pinning, Reading, Pairs
  <2> QED
    BY <1>1, <2>1, <2>2 DEF Knows
<1> QED
  BY <1>1, <1>3, <1>4, GoesOn DEF Calls

LEMMA WritePublicKey ==
  ASSUME KeyInv, NEW p \in Procs, WritePublic(p)
  PROVE  KeyInv'
<1> USE KeyFacts DEF KeyInv
<1>1. /\ at[p] = "write_pub" /\ NextPair(p)
      /\ pub' = [pub EXCEPT ![pair[p]] = got[p]]
      /\ UNCHANGED <<priv, known, ctr, made, op, got, copy, old, last>>
  BY DEF WritePublic
<1>2. got[p] \in Whole /\ priv[pair[p]] = got[p]
  BY <1>1 DEF Working
<1>3. /\ pub'[pair[p]] = got[p]
      /\ \A x \in Pairs : x # pair[p] => pub'[x] = pub[x]
  BY <1>1, Pair DEF TypeOK
<1>4. TypeOK'
  BY <1>1, Pair, NextPairFacts DEF TypeOK
<1>5. Knows(p)'
  <2>1. Working(p)' /\ Copying(p)' /\ Replacing(p)'
    BY <1>1, <1>3, NextPairFacts DEF Working, Copying, Replacing, Removing, Making, Pinning, Reading
  <2>2. Completing(p)'
    BY <1>1, <1>2, <1>3, NextPairFacts, Pair DEF Completing, Sound, Rest, Good, Removing, Making, Pinning, Reading, Pairs
  <2> QED
    BY <1>1, <2>1, <2>2 DEF Knows
<1> QED
  BY <1>1, <1>4, <1>5, NextPairFacts, GoesOn DEF Calls

(* p is over without a result, and the pairs are as they may be left.       *)
LEMMA GivesUp ==
  ASSUME KeyInv, NEW p \in Procs, at[p] # "idle", Finish(p),
         ctr' \in [host : Contents, auth : Contents],
         UNCHANGED <<priv, pub, known, made>>,
         \/ last' = last /\ (last.clean => \A x \in Pairs : Rest(x))
         \/ last' = Unknown(FALSE)
  PROVE  KeyInv'
<1>1. last'.op = "none" /\ (last'.clean => \A x \in Pairs : Rest(x)')
  BY DEF KeyInv, AllIdle, Unknown, Rest, Good
<1>2. last' \in [op : Ops \cup {"none"}, old : 0..MaxKeys, cut : BOOLEAN, clean : BOOLEAN]
  <2>1. 0 \in 0..MaxKeys /\ FALSE \in BOOLEAN
    BY KeyFacts
  <2>2. Unknown(FALSE) \in [op : Ops \cup {"none"}, old : 0..MaxKeys, cut : BOOLEAN, clean : BOOLEAN]
    BY <2>1 DEF Unknown
  <2> QED
    BY <2>2 DEF KeyInv, TypeOK
<1>3. TypeOK'
  BY <1>2, FinishTyped DEF KeyInv, TypeOK
<1> QED
  BY <1>1, <1>3, IsOver DEF RotateReplaces

LEMMA ReadPublicKey ==
  ASSUME KeyInv, NEW p \in Procs, ReadPublic(p)
  PROVE  KeyInv'
<1> USE KeyFacts DEF KeyInv
<1>1. at[p] = "read_pub" /\ UNCHANGED <<priv, pub, known, ctr, made, last>>
  BY DEF ReadPublic, files
<1>2. Sound(p) => Good("client") /\ Good("host")
  BY <1>1 DEF Completing
<1>3. CASE pub["host"] \in Whole
  <2>1. /\ got' = [got EXCEPT ![p] = pub["host"]] /\ at' = [at EXCEPT ![p] = "create_known"]
        /\ UNCHANGED <<pair, op, copy, old>>
    BY <1>3 DEF ReadPublic, Goto
  <2>2. at'[p] = "create_known" /\ got'[p] = pub["host"]
    BY <2>1 DEF TypeOK
  <2>3. TypeOK'
    BY <1>1, <1>3, <2>1 DEF TypeOK, Calls
  <2>4. Knows(p)'
    BY <1>1, <1>2, <1>3, <2>1, <2>2 DEF Knows, Working, Completing, Sound, Rest, Good, Replacing, Copying, Removing, Making, Pinning, Reading
  <2> QED
    BY <1>1, <2>1, <2>3, <2>4, GoesOn DEF Calls
<1>4. CASE pub["host"] \notin Whole
  <2>1. Finish(p)
    BY <1>4 DEF ReadPublic
  <2>2. ~last.clean
    BY <1>2, <1>4 DEF Sound, Good
  <2>3. ctr' \in [host : Contents, auth : Contents] /\ at[p] # "idle"
    BY <1>1 DEF TypeOK
  <2> QED
    BY <1>1, <2>1, <2>2, <2>3, GivesUp
<1> QED
  BY <1>3, <1>4

LEMMA CreateKnownKey ==
  ASSUME KeyInv, NEW p \in Procs, CreateKnown(p)
  PROVE  KeyInv'
<1> USE KeyFacts DEF KeyInv
<1>1. /\ at[p] = "create_known" /\ at' = [at EXCEPT ![p] = "write_known"] /\ known' = Torn
      /\ UNCHANGED <<priv, pub, ctr, made, pair, op, got, copy, old, last>>
  BY DEF CreateKnown, Goto
<1>2. at'[p] = "write_known"
  BY <1>1 DEF TypeOK
<1>3. TypeOK'
  BY <1>1 DEF TypeOK, Calls
<1>4. Knows(p)'
  BY <1>1, <1>2 DEF Knows, Working, Completing, Sound, Rest, Good, Replacing, Copying, Removing, Making, Pinning, Reading
<1> QED
  BY <1>1, <1>3, <1>4, GoesOn DEF Calls

LEMMA WriteKnownKey ==
  ASSUME KeyInv, NEW p \in Procs, WriteKnown(p)
  PROVE  KeyInv'
<1> USE KeyFacts DEF KeyInv
<1> DEFINE label == IF op[p] = "up" THEN "read_host" ELSE "print"
<1>1. /\ at[p] = "write_known" /\ at' = [at EXCEPT ![p] = label] /\ known' = got[p]
      /\ UNCHANGED <<priv, pub, ctr, made, pair, op, got, copy, old, last>>
  BY DEF WriteKnown, Goto
<1>2. /\ at'[p] = label
      /\ got[p] = pub["host"] /\ got[p] \in Whole
  BY <1>1 DEF TypeOK, Working, Pinning
<1>3. TypeOK'
  BY <1>1 DEF TypeOK, Calls
<1>4. Knows(p)'
  BY <1>1, <1>2 DEF Knows, Working, Completing, Sound, Rest, Good, Replacing, Copying, Removing, Making, Pinning, Reading
<1>5. label \in Calls \ {"idle"}
  BY DEF Calls
<1> HIDE DEF label
<1> QED
  BY <1>1, <1>3, <1>4, <1>5, GoesOn

LEMMA PrintPublicKey ==
  ASSUME KeyInv, NEW p \in Procs, PrintPublic(p) \/ Configured(p)
  PROVE  KeyInv'
<1> USE KeyFacts DEF KeyInv
<1>1. at[p] = "print" /\ Finish(p) /\ UNCHANGED <<priv, pub, known, ctr, made>>
  BY DEF PrintPublic, Configured, files
<1>2. /\ Sound(p) => Good("client") /\ Good("host")
      /\ known = pub["host"]
      /\ op[p] = "rotate" => \A x \in Pairs : priv[x] \in Whole => priv[x] > old[p]
  BY <1>1 DEF Completing, Working, Replacing, Removing
<1>3. CASE last' = last
  <2>1. last.clean => \A x \in Pairs : Rest(x)
    BY <1>2, Pair DEF Sound, Rest
  <2>2. ctr' \in [host : Contents, auth : Contents] /\ at[p] # "idle"
    BY <1>1 DEF TypeOK
  <2> QED
    BY <1>1, <1>3, <2>1, <2>2, GivesUp
<1>4. CASE Succeeds(p)
  <2>1. /\ last'.op = op[p] /\ last'.old = old[p]
        /\ last'.clean = (last.clean \/ op[p] = "rotate")
    BY <1>4 DEF Succeeds, Success
  <2>2. last' \in [op : Ops \cup {"none"}, old : 0..MaxKeys, cut : BOOLEAN, clean : BOOLEAN]
    <3>1. op[p] \in Ops /\ old[p] \in 0..MaxKeys /\ (last.clean \/ op[p] = "rotate") \in BOOLEAN
      BY DEF TypeOK
    <3> QED
      BY <1>4, <3>1 DEF Succeeds, Success
  <2>3. TypeOK'
    BY <1>1, <2>2, FinishTyped DEF TypeOK
  <2>4. Sound(p) => \A x \in Pairs : Good(x) /\ Good(x)' /\ Rest(x)'
    BY <1>1, <1>2, Pair DEF Good, Rest
  <2>5. last'.clean => Sound(p)
    BY <2>1 DEF Sound
  <2>6. RotateReplaces'
    BY <1>1, <1>2, <2>1, <2>4 DEF RotateReplaces, Sound, Good
  <2> QED
    BY <1>1, <2>3, <2>4, <2>5, <2>6, IsOver
<1> QED
  BY <1>3, <1>4 DEF PrintPublic, Configured

LEMMA ReadHostKey ==
  ASSUME KeyInv, NEW p \in Procs, ReadHost(p)
  PROVE  KeyInv'
<1> USE KeyFacts DEF KeyInv
<1>1. /\ at[p] = "read_host" /\ UNCHANGED <<priv, pub, known, ctr, made, last>>
      /\ ctr' \in [host : Contents, auth : Contents]
  BY DEF ReadHost, files, TypeOK
<1>2. Sound(p) => Good("client") /\ Good("host")
  BY <1>1 DEF Completing, Reading
<1>3. CASE priv["host"] # None
  <2>1. /\ copy' = [copy EXCEPT ![p].host = priv["host"]] /\ at' = [at EXCEPT ![p] = "read_auth"]
        /\ UNCHANGED <<pair, op, got, old>>
    BY <1>3 DEF ReadHost, Goto
  <2>2. at'[p] = "read_auth" /\ copy'[p].host = priv["host"]
    BY <2>1 DEF TypeOK
  <2>3. copy' \in [Procs -> [host : Contents, auth : Contents]]
    BY <2>1, Pair DEF TypeOK, Pairs
  <2>4. TypeOK'
    BY <1>1, <2>1, <2>3 DEF TypeOK, Calls
  <2>5. Knows(p)'
    BY <1>1, <2>1, <2>2 DEF Knows, Working, Completing, Sound, Rest, Good, Replacing, Copying, Removing, Making, Pinning, Reading
  <2> QED
    BY <1>1, <2>1, <2>4, <2>5, GoesOn DEF Calls
<1>4. CASE priv["host"] = None
  <2>1. Finish(p) /\ ~last.clean
    BY <1>2, <1>4 DEF ReadHost, Sound, Good
  <2> QED
    BY <1>1, <2>1, GivesUp
<1> QED
  BY <1>3, <1>4

LEMMA ReadAuthorizedKey ==
  ASSUME KeyInv, NEW p \in Procs, ReadAuthorized(p)
  PROVE  KeyInv'
<1> USE KeyFacts DEF KeyInv
<1>1. /\ at[p] = "read_auth" /\ UNCHANGED <<priv, pub, known, ctr, made, last>>
      /\ ctr' \in [host : Contents, auth : Contents]
  BY DEF ReadAuthorized, files, TypeOK
<1>2. /\ Sound(p) => Good("client") /\ Good("host")
      /\ copy[p].host = priv["host"]
  BY <1>1 DEF Completing, Copying, Reading
<1>3. CASE pub["client"] # None
  <2>1. /\ copy' = [copy EXCEPT ![p].auth = pub["client"]] /\ at' = [at EXCEPT ![p] = "install"]
        /\ UNCHANGED <<pair, op, got, old>>
    BY <1>3 DEF ReadAuthorized, Goto
  <2>2. at'[p] = "install" /\ copy'[p].auth = pub["client"] /\ copy'[p].host = priv["host"]
    BY <1>2, <2>1 DEF TypeOK
  <2>3. copy' \in [Procs -> [host : Contents, auth : Contents]]
    <3>1. pub["client"] \in Contents
      BY DEF TypeOK, Pairs
    <3> QED
      BY <2>1, <3>1 DEF TypeOK
  <2>4. TypeOK'
    BY <1>1, <2>1, <2>3 DEF TypeOK, Calls
  <2>5. Knows(p)'
    BY <1>1, <2>1, <2>2 DEF Knows, Working, Completing, Sound, Rest, Good, Replacing, Copying, Removing, Making, Pinning, Reading
  <2> QED
    BY <1>1, <2>1, <2>4, <2>5, GoesOn DEF Calls
<1>4. CASE pub["client"] = None
  <2>1. Finish(p) /\ ~last.clean
    BY <1>2, <1>4 DEF ReadAuthorized, Sound, Good
  <2> QED
    BY <1>1, <2>1, GivesUp
<1> QED
  BY <1>3, <1>4

(* The secrets are in the container, whole or, unnoticed, in part.          *)
LEMMA InstalledKey ==
  ASSUME KeyInv, NEW p \in Procs, at[p] = "install", Finish(p), UNCHANGED <<priv, pub, known, made>>,
         ctr' \in [host : Contents, auth : Contents],
         NEW cut \in BOOLEAN, last' = Success(p, cut)
  PROVE  KeyInv'
<1> USE KeyFacts DEF KeyInv
<1>1. op[p] = "up" /\ (Sound(p) => Good("client") /\ Good("host"))
  BY DEF Completing, Copying, Reading
<1>2. last' = [op |-> "up", old |-> old[p], cut |-> cut, clean |-> last.clean]
  <2>1. (last.clean \/ op[p] = "rotate") = last.clean
    BY <1>1 DEF TypeOK
  <2> QED
    BY <1>1, <2>1 DEF Success
<1>3. TypeOK'
  <2>1. last' \in [op : Ops \cup {"none"}, old : 0..MaxKeys, cut : BOOLEAN, clean : BOOLEAN]
    BY <1>2 DEF TypeOK, Ops
  <2> QED
    BY <2>1, FinishTyped DEF TypeOK
<1>4. last'.op = "up" /\ last'.clean = last.clean
  BY <1>2
<1>5. RotateReplaces'
  BY <1>4 DEF RotateReplaces
<1>6. last'.clean => \A x \in Pairs : Rest(x)'
  BY <1>1, <1>4, Pair DEF Sound, Rest, Good
<1> QED
  BY <1>3, <1>5, <1>6, IsOver

LEMMA InstallKey ==
  ASSUME KeyInv, NEW p \in Procs, Install(p)
  PROVE  KeyInv'
<1>1. /\ at[p] = "install" /\ Finish(p) /\ UNCHANGED <<priv, pub, known, made>>
      /\ ctr' \in [host : Contents, auth : Contents] /\ last' = Success(p, FALSE)
  BY DEF Install, Succeeds, files, KeyInv, TypeOK
<1> QED
  BY <1>1, InstalledKey

LEMMA InstallCutKey ==
  ASSUME KeyInv, NEW p \in Procs, InstallCut(p)
  PROVE  KeyInv'
<1> USE DEF KeyInv
<1>1. /\ at[p] = "install" /\ Finish(p) /\ UNCHANGED <<priv, pub, known, made>>
      /\ last' = last \/ last' = Success(p, TRUE)
  BY DEF InstallCut, files
<1>2. PICK h \in {copy[p].host, Torn} : ctr' = [host |-> h, auth |-> Torn]
  BY DEF InstallCut
<1>3. copy[p].host \in Contents
  BY DEF TypeOK
<1>4. ctr' \in [host : Contents, auth : Contents]
  BY <1>2, <1>3, KeyFacts
<1>5. last.clean => \A x \in Pairs : Rest(x)
  BY <1>1, Pair DEF Completing, Sound, Rest, Reading
<1>6. CASE last' = last
  BY <1>1, <1>4, <1>5, <1>6, GivesUp
<1>7. CASE last' = Success(p, TRUE)
  BY <1>1, <1>4, <1>7, InstalledKey
<1> QED
  BY <1>1, <1>6, <1>7

LEMMA CrashKey ==
  ASSUME KeyInv, NEW p \in Procs, Crash(p)
  PROVE  KeyInv'
<1>1. /\ at[p] # "idle" /\ Finish(p) /\ UNCHANGED <<priv, pub, known, made, ctr>>
      /\ last' = Unknown(FALSE)
  BY DEF Crash, files
<1>2. ctr' \in [host : Contents, auth : Contents]
  BY <1>1 DEF KeyInv, TypeOK
<1> QED
  BY <1>1, <1>2, GivesUp

LEMMA KeyUnchanged == KeyInv /\ UNCHANGED vars => KeyInv'
BY DEF KeyInv, TypeOK, OneAtWork, AllIdle, RotateReplaces, Working, Completing, Replacing,
       Copying, Sound, Rest, Good, vars, files

LEMMA KeysNext == Serial /\ KeyInv /\ [Next]_vars => KeyInv'
<1> SUFFICES ASSUME Serial, KeyInv, [Next]_vars PROVE KeyInv'
  OBVIOUS
<1>1. CASE UNCHANGED vars
  BY <1>1, KeyUnchanged
<1>2. ASSUME NEW p \in Procs, NEW o \in Ops, Begin(p, o) PROVE KeyInv'
  BY <1>2, BeginKey
<1>3. ASSUME NEW p \in Procs, Step(p) PROVE KeyInv'
  BY <1>3, RemovePrivateKey, RemovePublicKey, CheckPairKey, CreatePrivateKey, WritePrivateKey,
     CreatePublicKey, WritePublicKey, ReadPublicKey, CreateKnownKey, WriteKnownKey,
     PrintPublicKey, ReadHostKey, ReadAuthorizedKey, InstallKey DEF Step
<1>4. ASSUME NEW p \in Procs, Crash(p) \/ InstallCut(p) PROVE KeyInv'
  BY <1>4, CrashKey, InstallCutKey
<1> QED
  BY <1>1, <1>2, <1>3, <1>4 DEF Next

(* What provision does besides leaves the keys alone.                       *)
LEMMA KeysOnly == [PNext]_pvars => [Next]_vars
<1> SUFFICES ASSUME [PNext]_pvars PROVE [Next]_vars
  OBVIOUS
<1>1. CASE UNCHANGED pvars
  BY <1>1 DEF pvars
<1>2. ASSUME NEW p \in Procs, NEW o \in Ops, Start(p, o) PROVE Next
  BY <1>2 DEF Start, Next
<1>3. ASSUME NEW p \in Procs, KeyStep(p) PROVE Next
  BY <1>3 DEF KeyStep, Next
<1>4. ASSUME NEW p \in Procs,
             CreateBlock(p) \/ WriteBlock(p) \/ IncludeStep(p) \/ Return(p) \/ Die(p)
      PROVE  UNCHANGED vars
  BY <1>4 DEF CreateBlock, WriteBlock, IncludeStep, Return, Die
<1>5. CASE Outside
  BY <1>5 DEF Outside
<1> QED
  BY <1>1, <1>2, <1>3, <1>4, <1>5 DEF PNext

LEMMA KeysHold ==
  ASSUME Serial
  PROVE  PSpec => []KeyInv
<1>1. PInit => KeyInv
  BY KeyInit DEF PInit
<1>2. KeyInv /\ [PNext]_pvars => KeyInv'
  BY KeysOnly, KeysNext
<1> QED
  BY <1>1, <1>2, PTL DEF PSpec

(* `devc keys --rotate` leaves two fresh pairs and pins the new host key,   *)
(* whatever a process that died before it left behind.                      *)
THEOREM RotationReplaces ==
  ASSUME Serial
  PROVE  PSpec => []RotateReplaces
<1>1. KeyInv => RotateReplaces
  BY DEF KeyInv
<1> QED
  BY <1>1, KeysHold, PTL

(* keys.Ensure returns with two whole pairs, unless a process has died over *)
(* the keys since the last rotation that succeeded.                         *)
THEOREM EnsureLeavesPairs ==
  ASSUME Serial
  PROVE  PSpec => []EnsureCompletes
<1>1. KeyInv => EnsureCompletes
  <2> SUFFICES ASSUME KeyInv, NEW p \in Procs, NEW x \in Pairs, at[p] \in Ensured, last.clean
               PROVE  Good(x)
    BY DEF EnsureCompletes, Good
  <2>1. Completing(p) /\ Sound(p)
    BY DEF KeyInv, Ensured, Sound
  <2> QED
    BY <2>1, Pair DEF KeyInv, Completing, Ensured, Reading
<1> QED
  BY <1>1, KeysHold, PTL

(* A key is new when it is generated, so until its public half is written   *)
(* the one on file, if any, belongs to another.                             *)
FreshInv ==
  /\ \A x \in Pairs : pub[x] \in Whole => pub[x] <= made
  /\ \A p \in Procs :
       /\ at[p] \in {"write_priv", "create_pub"} => pub[pair[p]] # got[p]
       /\ at[p] \in {"write_priv", "create_pub", "write_pub"} => got[p] <= made

LEMMA FreshInit == Init => FreshInv
BY DEF Init, FreshInv, Pairs, Whole, None

LEMMA FreshStep ==
  ASSUME KeyInv, FreshInv, NEW p \in Procs, Step(p)
  PROVE  FreshInv'
<1> USE KeyFacts DEF KeyInv
<1> DEFINE Making3 == {"write_priv", "create_pub", "write_pub"}
<1>1. ASSUME at[p] # "idle", \A q \in Procs : q # p => at'[q] = at[q],
             \A x \in Pairs : pub'[x] \in Whole => pub'[x] <= made',
             at'[p] \in {"write_priv", "create_pub"} => pub'[pair'[p]] # got'[p],
             at'[p] \in Making3 => got'[p] <= made'
      PROVE  FreshInv'
  BY <1>1 DEF FreshInv, OneAtWork
<1>2. CASE RemovePublic(p)
  BY <1>1, <1>2, Pair DEF RemovePublic, Goto, FreshInv, TypeOK
<1>3. CASE CreatePrivate(p)
  <2>1. /\ at' = [at EXCEPT ![p] = "write_priv"] /\ got'[p] = made + 1 /\ made' = made + 1
        /\ UNCHANGED <<pub, pair>> /\ at[p] = "create_priv" /\ made \in Nat
    BY <1>3, Pair DEF CreatePrivate, Goto, TypeOK
  <2>2. pub[pair[p]] \in Contents /\ pair[p] \in Pairs
    BY Pair DEF TypeOK
  <2>3. pub[pair[p]] # made + 1
    BY <1>3, <2>1, <2>2 DEF CreatePrivate, FreshInv, Contents, Whole, Torn, None
  <2>4. \A x \in Pairs : pub[x] \in Whole => pub[x] <= made + 1
    <3> SUFFICES ASSUME NEW x \in Pairs, pub[x] \in Whole PROVE pub[x] <= made + 1
      OBVIOUS
    <3>1. pub[x] <= made /\ pub[x] \in Nat
      BY DEF FreshInv
    <3> QED
      BY <2>1, <3>1
  <2>5. /\ at'[p] = "write_priv" /\ at[p] # "idle" /\ got'[p] <= made'
        /\ \A q \in Procs : q # p => at'[q] = at[q]
    BY <2>1 DEF TypeOK
  <2>6. pub'[pair'[p]] # got'[p] /\ \A x \in Pairs : pub'[x] \in Whole => pub'[x] <= made'
    BY <2>1, <2>3, <2>4
  <2> QED
    BY <1>1, <2>5, <2>6
<1>4. CASE WritePrivate(p)
  BY <1>1, <1>4 DEF WritePrivate, Goto, FreshInv, TypeOK
<1>5. CASE CreatePublic(p)
  BY <1>1, <1>5 DEF CreatePublic, Goto, FreshInv, TypeOK
<1>6. CASE WritePublic(p)
  <2>1. /\ at[p] = "write_pub" /\ pub' = [pub EXCEPT ![pair[p]] = got[p]]
        /\ UNCHANGED made /\ got[p] <= made
    BY <1>6 DEF WritePublic, FreshInv
  <2>2. at'[p] \in {"check", "read_pub"} /\ \A q \in Procs : q # p => at'[q] = at[q]
    BY <1>6 DEF WritePublic, NextPair, Goto, TypeOK
  <2>3. \A x \in Pairs : pub'[x] \in Whole => pub'[x] <= made'
    BY <2>1 DEF TypeOK, FreshInv
  <2> QED
    BY <1>1, <2>1, <2>2, <2>3
<1>7. ASSUME UNCHANGED <<pub, made>>, at[p] # "idle", at'[p] \notin Making3,
             \A q \in Procs : q # p => at'[q] = at[q]
      PROVE  FreshInv'
  BY <1>1, <1>7 DEF FreshInv
<1>8. CASE RemovePrivate(p) \/ CheckPair(p) \/ CreateKnown(p) \/ WriteKnown(p)
  BY <1>7, <1>8 DEF RemovePrivate, CheckPair, NextPair, CreateKnown, WriteKnown, Goto, files, TypeOK
<1>9. CASE ReadPublic(p) \/ PrintPublic(p) \/ Configured(p) \/ ReadHost(p) \/ ReadAuthorized(p) \/ Install(p)
  BY <1>7, <1>9 DEF ReadPublic, PrintPublic, Configured, ReadHost, ReadAuthorized, Install, Finish, Goto,
                    files, TypeOK
<1> QED
  BY <1>2, <1>3, <1>4, <1>5, <1>6, <1>8, <1>9 DEF Step

LEMMA FreshNext == KeyInv /\ FreshInv /\ [Next]_vars => FreshInv'
<1> SUFFICES ASSUME KeyInv, FreshInv, [Next]_vars PROVE FreshInv'
  OBVIOUS
<1>1. CASE UNCHANGED vars
  BY <1>1 DEF FreshInv, vars, files
<1>2. ASSUME NEW p \in Procs,
             \/ \E o \in Ops : Begin(p, o)
             \/ Crash(p) \/ InstallCut(p)
      PROVE  FreshInv'
  <2>1. /\ UNCHANGED <<pub, made>>
        /\ UNCHANGED got \/ at'[p] = "idle"
        /\ at'[p] \in {"idle", "remove_priv", "check"}
        /\ \A q \in Procs : q # p => /\ at'[q] = at[q] /\ pair'[q] = pair[q]
                                      /\ got'[q] = got[q]
    BY <1>2 DEF Begin, Crash, InstallCut, Finish, Goto, files, KeyInv, TypeOK
  <2> QED
    BY <2>1 DEF FreshInv
<1>3. ASSUME NEW p \in Procs, Step(p) PROVE FreshInv'
  BY <1>3, FreshStep
<1> QED
  BY <1>1, <1>2, <1>3 DEF Next

(* Only a rotation changes a pair that is whole, in either half:            *)
(* keys.Ensure generates one where the private half is missing.             *)
THEOREM IdentityKept ==
  ASSUME Serial
  PROVE  PSpec => IdentityStable
<1> DEFINE Changed(x) == <<priv[x], pub[x]>>' # <<priv[x], pub[x]>>
           Kept == \A x \in Pairs : priv[x] \in Whole /\ pub[x] = priv[x] /\ Changed(x)
                     => \E p \in Procs : at[p] = "remove_priv"
<1>1. KeyInv /\ FreshInv /\ [PNext]_pvars => [Kept]_vars
  <2> SUFFICES ASSUME KeyInv, FreshInv, Next, NEW x \in Pairs,
                      priv[x] \in Whole, pub[x] = priv[x], Changed(x)
               PROVE  \E p \in Procs : at[p] = "remove_priv"
    BY KeysOnly
  <2>1. PICK p \in Procs : \/ RemovePrivate(p) \/ CreatePrivate(p) \/ WritePrivate(p)
                           \/ RemovePublic(p) \/ CreatePublic(p) \/ WritePublic(p)
    BY DEF Next, Begin, Step, Crash, InstallCut, CheckPair, ReadPublic, CreateKnown, WriteKnown,
           PrintPublic, Configured, ReadHost, ReadAuthorized, Install, files
  <2>2. CASE RemovePrivate(p)
    BY <2>1, <2>2 DEF RemovePrivate
  <2>3. CASE CreatePrivate(p) \/ WritePrivate(p)
    <3>1. priv[pair[p]] \notin Whole
      BY <2>3, KeyFacts DEF KeyInv, Working, CreatePrivate, WritePrivate
    <3>2. pair[p] # x => priv'[x] = priv[x] /\ pub'[x] = pub[x]
      BY <2>3, Pair DEF KeyInv, TypeOK, CreatePrivate, WritePrivate
    <3> QED
      BY <3>1, <3>2
  <2>4. CASE RemovePublic(p) \/ CreatePublic(p) \/ WritePublic(p)
    <3>1. pair[p] # x => priv'[x] = priv[x] /\ pub'[x] = pub[x]
      BY <2>4, Pair DEF KeyInv, TypeOK, RemovePublic, CreatePublic, WritePublic
    <3>2. RemovePublic(p) => priv[pair[p]] = None
      BY DEF KeyInv, Working, Replacing, Removing, RemovePublic
    <3>3. CreatePublic(p) => priv[pair[p]] # pub[pair[p]]
      BY DEF KeyInv, Working, FreshInv, CreatePublic
    <3>4. WritePublic(p) => priv' = priv /\ pub'[pair[p]] = priv[pair[p]]
      BY Pair DEF KeyInv, TypeOK, Working, WritePublic
    <3>5. ~RemovePublic(p) \/ pair[p] # x
      BY <3>2, KeyFacts
    <3> QED
      BY <2>4, <3>1, <3>3, <3>4, <3>5
  <2> QED
    BY <2>1, <2>2, <2>3, <2>4
<1>2. PInit => KeyInv /\ FreshInv
  BY KeyInit, FreshInit DEF PInit
<1>3. KeyInv /\ FreshInv /\ [PNext]_pvars => KeyInv' /\ FreshInv'
  BY KeysOnly, KeysNext, FreshNext
<1>4. PSpec => [][Kept]_vars
  BY <1>1, <1>2, <1>3, PTL DEF PSpec
<1> QED
  BY <1>4 DEF IdentityStable

----------------------------------------------------------------------------
(* From the keys to the ssh config: one process after the other, and the    *)
(* user does not save while one is at work.                                 *)
Later == {"nothing", "create_block", "write_block", "include", "including", "return"}
Saving == {"idle", "create_backup", "write_backup", "truncate", "write"}

(* The Include is there, with nothing above it but what the user put there. *)
OnTop(file) == Inc!HasInclude(file) /\ (file[1] # Inc!Include => above)

(* What todo[p] says has been done.                                         *)
Provisioned(p) ==
  /\ todo[p] # "nothing" => AllIdle
  /\ todo[p] # "nothing" /\ last.clean /\ last.op = "up" =>
       /\ Good("client") /\ Good("host") /\ known = pub["host"]
       /\ ~last.cut => ctr.host = priv["host"] /\ ctr.auth = priv["client"]
  /\ todo[p] \in {"include", "including", "return"} => block = "whole"
  /\ todo[p] = "return" => OnTop(config)
  /\ step[p] # "idle" => todo[p] = "including"

IncludeInv ==
  /\ todo \in [Procs -> Later] /\ step \in [Procs -> Saving]
  /\ config \in Seq(Nat) /\ seen \in [Procs -> Seq(Nat)] /\ text \in Nat
  /\ Inc!HasInclude(config) => OnTop(config)
  /\ \A p, q \in Procs : todo[p] # "nothing" /\ todo[q] # "nothing" => p = q
  /\ \A p \in Procs : Provisioned(p)

LEMMA IncludeInit == PInit => IncludeInv
<1> SUFFICES ASSUME PInit PROVE IncludeInv
  OBVIOUS
<1>1. config = <<>> /\ ~Inc!HasInclude(config)
  BY DEF PInit, Inc!Init, Inc!HasInclude, Inc!Contains
<1> QED
  BY <1>1 DEF PInit, Inc!Init, IncludeInv, Later, Saving, Provisioned

(* While nobody has anything left to do, nothing is claimed.                *)
LEMMA CalmKeeps ==
  ASSUME IncludeInv, Calm, UNCHANGED <<block, todo, sshvars>>
  PROVE  IncludeInv'
BY DEF IncludeInv, Calm, Provisioned, sshvars, OnTop, Inc!HasInclude, Inc!Include, Inc!Contains

LEMMA IncludeUnchanged == IncludeInv /\ UNCHANGED pvars => IncludeInv'
BY DEF IncludeInv, Provisioned, pvars, sshvars, vars, files, OnTop, AllIdle, Good,
       Inc!HasInclude, Inc!Include, Inc!Contains

LEMMA StartInclude ==
  ASSUME Serial, IncludeInv, NEW p \in Procs, NEW o \in Ops, Start(p, o)
  PROVE  IncludeInv'
BY CalmKeeps DEF Start, Serial, Calm

LEMMA KeyStepInclude ==
  ASSUME KeyInv, IncludeInv, NEW p \in Procs, KeyStep(p)
  PROVE  IncludeInv'
<1>1. at[p] # "idle"
  BY DEF KeyStep, Step, Crash, InstallCut, RemovePrivate, RemovePublic, CheckPair,
         CreatePrivate, WritePrivate, CreatePublic, WritePublic, ReadPublic, CreateKnown,
         WriteKnown, PrintPublic, Configured, ReadHost, ReadAuthorized, Install
<1>2. Calm
  BY <1>1 DEF IncludeInv, Provisioned, AllIdle, Calm
<1>3. CASE UNCHANGED todo
  BY <1>2, <1>3, CalmKeeps DEF KeyStep
<1>4. ASSUME Then(p, "create_block"), UNCHANGED <<priv, pub, known>>, Finish(p),
             last'.op = "up" /\ last'.clean =>
               /\ Good("client") /\ Good("host") /\ known = pub["host"]
               /\ ~last'.cut => ctr'.host = priv["host"] /\ ctr'.auth = priv["client"]
      PROVE  IncludeInv'
  <2>1. /\ todo' = [todo EXCEPT ![p] = "create_block"] /\ UNCHANGED <<block, sshvars>>
        /\ \A q \in Procs : at'[q] = "idle"
    BY <1>1, <1>4 DEF KeyStep, Then, Finish, Goto, KeyInv, TypeOK, OneAtWork
  <2>2. /\ \A q \in Procs : q # p => todo'[q] = "nothing"
        /\ todo'[p] = "create_block" /\ todo' \in [Procs -> Later]
        /\ \A q \in Procs : step'[q] = "idle"
    BY <1>2, <2>1 DEF IncludeInv, Calm, Provisioned, Later, sshvars
  <2>3. AllIdle'
    BY <2>1 DEF AllIdle
  <2>4. \A q \in Procs : Provisioned(q)'
    BY <1>4, <2>1, <2>2, <2>3 DEF Provisioned, Good
  <2>5. (Inc!HasInclude(config) => OnTop(config))'
    BY <2>1 DEF IncludeInv, sshvars, OnTop, Inc!HasInclude, Inc!Include, Inc!Contains
  <2> QED
    BY <2>1, <2>2, <2>4, <2>5 DEF IncludeInv, sshvars
<1>5. CASE Configured(p) /\ Then(p, "create_block")
  <2>1. /\ UNCHANGED <<priv, pub, known>> /\ Finish(p)
        /\ last' = Success(p, FALSE) /\ op[p] = "config"
    BY <1>5 DEF Configured, Succeeds, files
  <2>2. last'.op # "up"
    BY <2>1 DEF Success
  <2> QED
    BY <1>4, <1>5, <2>1, <2>2
<1>6. ASSUME Then(p, "create_block"), NEW cut \in BOOLEAN, last' = Success(p, cut),
             at[p] = "install", ~cut => ctr' = copy[p], UNCHANGED <<priv, pub, known>>, Finish(p)
      PROVE  IncludeInv'
  <2>1. (last'.clean => Sound(p)) /\ last'.cut = cut
    BY <1>6 DEF Success, Sound
  <2>2. last'.clean => /\ Good("client") /\ Good("host") /\ known = pub["host"]
                       /\ copy[p].host = priv["host"] /\ copy[p].auth = priv["client"]
    BY <1>1, <1>6, <2>1 DEF KeyInv, Completing, Working, Copying, Reading, Good
  <2> QED
    BY <1>4, <1>6, <2>1, <2>2
<1>7. CASE Install(p) /\ Then(p, "create_block")
  <2>1. /\ last' = Success(p, FALSE) /\ at[p] = "install" /\ ctr' = copy[p]
        /\ UNCHANGED <<priv, pub, known>> /\ Finish(p)
    BY <1>7 DEF Install, Succeeds, files
  <2> QED
    BY <1>6, <1>7, <2>1
<1>8. CASE InstallCut(p) /\ last' = Success(p, TRUE) /\ Then(p, "create_block")
  <2>1. at[p] = "install" /\ UNCHANGED <<priv, pub, known>> /\ Finish(p)
    BY <1>8 DEF InstallCut, files
  <2> QED
    BY <1>6, <1>8, <2>1
<1> QED
  BY <1>3, <1>5, <1>7, <1>8 DEF KeyStep

(* p is the only one with anything left to do, and does some of it.         *)
LEMMA GoesOnInclude ==
  ASSUME IncludeInv, NEW p \in Procs, todo[p] # "nothing", UNCHANGED vars,
         NEW next \in Later, Then(p, next),
         step' \in [Procs -> Saving], config' \in Seq(Nat), seen' \in [Procs -> Seq(Nat)],
         text' = text, (Inc!HasInclude(config) => OnTop(config))',
         \A q \in Procs : q # p => step'[q] = "idle",
         next \in {"include", "including", "return"} => block' = "whole",
         next = "return" => OnTop(config)',
         step'[p] # "idle" => next = "including"
  PROVE  IncludeInv'
<1>1. /\ todo' \in [Procs -> Later] /\ todo'[p] = next
      /\ \A q \in Procs : q # p => todo'[q] = "nothing"
  BY DEF IncludeInv, Then
<1>2. AllIdle /\ AllIdle'
  BY DEF IncludeInv, Provisioned, AllIdle, vars
<1>3. Provisioned(p)'
  BY <1>1, <1>2 DEF IncludeInv, Provisioned, Good, vars, files
<1>4. \A q \in Procs : Provisioned(q)'
  BY <1>1, <1>3 DEF Provisioned
<1> QED
  BY <1>1, <1>4 DEF IncludeInv

LEMMA Alone ==
  ASSUME IncludeInv, NEW p \in Procs, todo[p] # "nothing"
  PROVE  \A q \in Procs : q # p => step[q] = "idle"
BY DEF IncludeInv, Provisioned

LEMMA BlockInclude ==
  ASSUME IncludeInv, NEW p \in Procs, CreateBlock(p) \/ WriteBlock(p) \/ Return(p)
  PROVE  IncludeInv'
<1>1. PICK next \in Later :
        /\ Then(p, next) /\ todo[p] \in {"create_block", "write_block", "return"}
        /\ UNCHANGED <<vars, sshvars>>
        /\ next \in {"nothing", "write_block"} \/ (next = "include" /\ block' = "whole")
  BY DEF CreateBlock, WriteBlock, Return, Later
<1>2. (Inc!HasInclude(config) => OnTop(config))'
  BY <1>1 DEF IncludeInv, sshvars, OnTop, Inc!HasInclude, Inc!Include, Inc!Contains
<1>3. /\ step' \in [Procs -> Saving] /\ config' \in Seq(Nat) /\ seen' \in [Procs -> Seq(Nat)]
      /\ text' = text /\ step' = step /\ step[p] = "idle" /\ UNCHANGED vars
  BY <1>1 DEF IncludeInv, Provisioned, sshvars
<1> QED
  BY <1>1, <1>2, <1>3, Alone, GoesOnInclude

LEMMA EnsureInclude ==
  ASSUME IncludeInv, NEW p \in Procs, IncludeStep(p)
  PROVE  IncludeInv'
<1> DEFINE next == IF step'[p] = "idle" THEN "return" ELSE "including"
<1>1. /\ todo[p] \in {"include", "including"} /\ Then(p, next)
      /\ UNCHANGED <<vars, block>> /\ block = "whole" /\ next \in Later
  BY DEF IncludeStep, IncludeInv, Provisioned, Later
<1>2. ASSUME step' \in [Procs -> Saving], config' \in Seq(Nat), seen' \in [Procs -> Seq(Nat)],
             text' = text, (Inc!HasInclude(config) => OnTop(config))',
             \A q \in Procs : q # p => step'[q] = step[q],
             step'[p] = "idle" => OnTop(config)'
      PROVE  IncludeInv'
  <2>1. \A q \in Procs : q # p => step'[q] = "idle"
    BY <1>1, <1>2, Alone
  <2>2. UNCHANGED vars /\ block' = "whole" /\ todo[p] # "nothing"
    BY <1>1
  <2>3. (next = "return" => OnTop(config)') /\ (step'[p] # "idle" => next = "including")
    BY <1>2
  <2> HIDE DEF next
  <2> QED
    BY <1>1, <1>2, <2>1, <2>2, <2>3, GoesOnInclude
<1>3. CASE Inc!Read(p)
  <2>1. /\ step' \in [Procs -> Saving] /\ \A q \in Procs : q # p => step'[q] = step[q]
        /\ UNCHANGED <<config, text, above>> /\ seen' \in [Procs -> Seq(Nat)]
        /\ step'[p] = "idle" => Inc!HasInclude(config)
    BY <1>3 DEF Inc!Read, Inc!Goto, IncludeInv, Saving
  <2>2. /\ (Inc!HasInclude(config) => OnTop(config))'
        /\ Inc!HasInclude(config) => OnTop(config)'
    BY <2>1 DEF IncludeInv, OnTop, Inc!HasInclude, Inc!Include, Inc!Contains
  <2> QED
    BY <1>2, <2>1, <2>2 DEF IncludeInv
<1>4. CASE Inc!CreateBackup(p, clock) \/ Inc!WriteBackup(p, clock)
  <2>1. /\ step' \in [Procs -> Saving] /\ \A q \in Procs : q # p => step'[q] = step[q]
        /\ UNCHANGED <<config, text, above, seen>> /\ step'[p] # "idle"
    BY <1>4 DEF Inc!CreateBackup, Inc!WriteBackup, Inc!Goto, IncludeInv, Saving
  <2>2. (Inc!HasInclude(config) => OnTop(config))'
    BY <2>1 DEF IncludeInv, OnTop, Inc!HasInclude, Inc!Include, Inc!Contains
  <2> QED
    BY <1>2, <2>1, <2>2 DEF IncludeInv
<1>5. CASE Inc!Truncate(p)
  <2>1. /\ step' \in [Procs -> Saving] /\ \A q \in Procs : q # p => step'[q] = step[q]
        /\ UNCHANGED <<text, seen>> /\ step'[p] = "write" /\ config' = <<>>
    BY <1>5 DEF Inc!Truncate, Inc!Goto, IncludeInv, Saving
  <2>2. ~Inc!HasInclude(config)'
    BY <2>1 DEF Inc!HasInclude, Inc!Contains
  <2> QED
    BY <1>2, <2>1, <2>2 DEF IncludeInv
<1>6. CASE Inc!Write(p)
  <2>1. /\ step' \in [Procs -> Saving] /\ \A q \in Procs : q # p => step'[q] = step[q]
        /\ text' = text /\ seen' = [seen EXCEPT ![p] = <<>>]
        /\ config' = <<Inc!Include>> \o seen[p]
    BY <1>6 DEF Inc!Write, Inc!Finish, Inc!Goto, IncludeInv, Saving
  <2>2. /\ config' \in Seq(Nat) /\ seen' \in [Procs -> Seq(Nat)]
        /\ 1 \in 1..Len(config') /\ config'[1] = Inc!Include
    BY <2>1 DEF IncludeInv, Inc!Include
  <2>3. OnTop(config)'
    BY <2>2 DEF OnTop, Inc!HasInclude, Inc!Contains, Inc!Include
  <2> QED
    BY <1>2, <2>1, <2>2, <2>3
<1> QED
  BY <1>3, <1>4, <1>5, <1>6 DEF IncludeStep

LEMMA DieInclude ==
  ASSUME IncludeInv, NEW p \in Procs, Die(p)
  PROVE  IncludeInv'
<1>1. /\ todo[p] # "nothing" /\ Then(p, "nothing") /\ "nothing" \in Later
      /\ UNCHANGED <<vars, config, text, above>>
  BY DEF Die, Later, sshvars, Inc!Crash
<1>2. /\ step' \in [Procs -> Saving] /\ seen' \in [Procs -> Seq(Nat)] /\ step'[p] = "idle"
      /\ \A q \in Procs : q # p => step'[q] = step[q]
  <2>1. CASE step[p] = "idle"
    BY <2>1 DEF Die, sshvars, IncludeInv
  <2>2. CASE step[p] # "idle"
    <3>1. step' = [step EXCEPT ![p] = "idle"] /\ seen' = [seen EXCEPT ![p] = <<>>]
      BY <2>2 DEF Die, Inc!Crash, Inc!Finish, Inc!Goto
    <3> QED
      BY <3>1 DEF IncludeInv, Saving
  <2> QED
    BY <2>1, <2>2
<1>3. (Inc!HasInclude(config) => OnTop(config))'
  BY <1>1 DEF IncludeInv, OnTop, Inc!HasInclude, Inc!Include, Inc!Contains
<1>4. config' \in Seq(Nat) /\ UNCHANGED vars /\ text' = text
  BY <1>1 DEF IncludeInv
<1> QED
  BY <1>1, <1>2, <1>3, <1>4, Alone, GoesOnInclude

LEMMA OutsideInclude ==
  ASSUME ~Editing, IncludeInv, Outside
  PROVE  IncludeInv'
<1>1. CASE Inc!Tick
  <2>1. UNCHANGED <<vars, block, todo, config, text, above, step, seen>>
    BY <1>1 DEF Outside, Inc!Tick
  <2> QED
    BY <2>1 DEF IncludeInv, Provisioned, vars, files, OnTop, AllIdle, Good,
                Inc!HasInclude, Inc!Include, Inc!Contains
<1>2. CASE Inc!Edit /\ Calm
  <2>1. /\ UNCHANGED <<vars, block, todo, step, seen>> /\ text' = text + 1
        /\ config' \in {<<text + 1>>, <<Inc!Include, text + 1>>, <<text + 1, Inc!Include>>}
        /\ above' = (config' = <<text + 1, Inc!Include>>)
    BY <1>2 DEF Outside, Inc!Edit
  <2>2. text' \in Nat /\ config' \in Seq(Nat)
    <3>1. text + 1 \in Nat /\ Inc!Include \in Nat
      BY DEF IncludeInv, Inc!Include
    <3>2. /\ <<text + 1>> \in Seq(Nat) /\ <<Inc!Include, text + 1>> \in Seq(Nat)
          /\ <<text + 1, Inc!Include>> \in Seq(Nat)
      BY <3>1
    <3> QED
      BY <2>1, <3>1, <3>2
  <2>3. (Inc!HasInclude(config) => OnTop(config))'
    <3>1. CASE config' = <<text + 1>>
      <4>1. text + 1 # Inc!Include /\ Len(config') = 1 /\ config'[1] = text + 1
        BY <3>1 DEF IncludeInv, Inc!Include
      <4>2. ~Inc!HasInclude(config)'
        BY <4>1 DEF Inc!HasInclude, Inc!Contains, Inc!Include
      <4> QED
        BY <4>2
    <3>2. CASE config' = <<Inc!Include, text + 1>>
      <4>1. config'[1] = Inc!Include
        BY <3>2
      <4> QED
        BY <4>1 DEF OnTop, Inc!Include
    <3>3. CASE config' = <<text + 1, Inc!Include>>
      BY <2>1, <3>3 DEF OnTop, Inc!Include
    <3> QED
      BY <2>1, <3>1, <3>2, <3>3
  <2> QED
    BY <1>2, <2>1, <2>2, <2>3 DEF IncludeInv, Calm, Provisioned
<1> QED
  BY <1>1, <1>2 DEF Outside

LEMMA IncludeNext ==
  ASSUME Serial, ~Editing, KeyInv, IncludeInv, [PNext]_pvars
  PROVE  IncludeInv'
<1>1. CASE UNCHANGED pvars
  BY <1>1, IncludeUnchanged
<1>2. ASSUME NEW p \in Procs, NEW o \in Ops, Start(p, o) PROVE IncludeInv'
  BY <1>2, StartInclude
<1>3. ASSUME NEW p \in Procs,
             \/ KeyStep(p) \/ CreateBlock(p) \/ WriteBlock(p)
             \/ IncludeStep(p) \/ Return(p) \/ Die(p)
      PROVE  IncludeInv'
  BY <1>3, KeyStepInclude, BlockInclude, EnsureInclude, DieInclude
<1> QED
  BY <1>1, <1>2, <1>3, OutsideInclude DEF PNext

(* When `devc up` returns, `ssh devc.<name>` gets in: provision's keys,     *)
(* secrets, Host block and Include fit together.                            *)
THEOREM UpConnects ==
  ASSUME Serial, ~Editing
  PROVE  PSpec => []SSHReady
<1>1. PInit => KeyInv /\ IncludeInv
  BY KeyInit, IncludeInit DEF PInit
<1>2. KeyInv /\ IncludeInv /\ [PNext]_pvars => KeyInv' /\ IncludeInv'
  BY KeysOnly, KeysNext, IncludeNext
<1>3. IncludeInv => SSHReady
  BY DEF IncludeInv, Provisioned, OnTop, Good, SSHReady
<1> QED
  BY <1>1, <1>2, <1>3, PTL DEF PSpec

----------------------------------------------------------------------------
(* The user's text while a process saves it: what is read stays as it was   *)
(* until a backup has it, and only then the config is emptied.              *)
Backing == {"create_backup", "write_backup"}

Saved(p) ==
  /\ step[p] \in Backing => config # <<>>
  /\ step[p] \in Backing \cup {"truncate"} => seen[p] = config /\ ~Inc!HasInclude(config)
  /\ step[p] = "truncate" /\ config # <<>> => \E t \in 0..Seconds : backup[t] = config
  /\ step[p] = "write" => config = <<>>

(* A config without devc's line is the user's own, and up to date.          *)
Own == config # <<>> /\ ~Inc!HasInclude(config) => text \in Inc!Versions(config)

TextInv ==
  /\ clock \in 0..Seconds /\ backup \in [0..Seconds -> Seq(Nat)]
  /\ \A p \in Procs : Saved(p)
  /\ Own /\ TextKept

LEMMA EmptyHasNothing == /\ Inc!Versions(<<>>) = {} /\ ~Inc!HasInclude(<<>>)
BY DEF Inc!Versions, Inc!ToSet, Inc!HasInclude, Inc!Contains

LEMMA TextInit == PInit => TextInv
<1> SUFFICES ASSUME PInit PROVE TextInv
  OBVIOUS
<1>1. 0 \in 0..Seconds
  BY ProvisionAssumption
<1>2. backup \in [0..Seconds -> Seq(Nat)]
  BY DEF PInit, Inc!Init
<1> QED
  BY <1>1, <1>2, EmptyHasNothing DEF PInit, Inc!Init, TextInv, Saved, Backing, Own, TextKept, Inc!TextKept

(* What the files of the ssh config say does not change.                    *)
LEMMA TextUnchanged == TextInv /\ UNCHANGED sshvars => TextInv'
BY DEF TextInv, Saved, Own, TextKept, Inc!TextKept, Inc!Versions, Inc!ToSet,
       Inc!HasInclude, Inc!Contains, Inc!Include, sshvars

LEMMA TextClock ==
  ASSUME TextInv, UNCHANGED <<config, backup, text, step, seen>>, clock' \in 0..Seconds
  PROVE  TextInv'
BY DEF TextInv, Saved, Own, TextKept, Inc!TextKept, Inc!Versions, Inc!ToSet,
       Inc!HasInclude, Inc!Contains, Inc!Include

LEMMA TextIncludeStep ==
  ASSUME IncludeInv, TextInv, NEW p \in Procs, IncludeStep(p)
  PROVE  TextInv'
<1>1. /\ \A q \in Procs : q # p => step[q] = "idle"
      /\ step \in [Procs -> Saving] /\ config \in Seq(Nat) /\ seen \in [Procs -> Seq(Nat)]
  BY Alone DEF IncludeStep, IncludeInv
<1>2. CASE Inc!Read(p)
  <2>1. /\ UNCHANGED <<config, backup, clock, text>>
        /\ \A q \in Procs : q # p => step'[q] = "idle"
        /\ Inc!HasInclude(config) => step'[p] = "idle"
        /\ ~Inc!HasInclude(config) =>
             /\ seen'[p] = config
             /\ step'[p] = IF config = <<>> THEN "truncate" ELSE "create_backup"
    BY <1>1, <1>2 DEF Inc!Read, Inc!Goto
  <2>2. Own' /\ TextKept'
    BY <2>1 DEF TextInv, Own, TextKept, Inc!TextKept, Inc!Versions, Inc!ToSet,
                Inc!HasInclude, Inc!Contains, Inc!Include
  <2>3. Inc!HasInclude(config)' <=> Inc!HasInclude(config)
    BY <2>1 DEF Inc!HasInclude, Inc!Contains, Inc!Include
  <2>4. \A q \in Procs : Saved(q)'
    BY <2>1, <2>3 DEF Saved, Backing
  <2> QED
    BY <2>1, <2>2, <2>4 DEF TextInv
<1>3. CASE Inc!CreateBackup(p, clock)
  <2>1. /\ UNCHANGED <<config, clock, text, seen>> /\ backup' = [backup EXCEPT ![clock] = <<>>]
        /\ step[p] = "create_backup" /\ step' = [step EXCEPT ![p] = "write_backup"]
    BY <1>3 DEF Inc!CreateBackup, Inc!Goto
  <2>2. Inc!HasInclude(config)' <=> Inc!HasInclude(config)
    BY <2>1 DEF Inc!HasInclude, Inc!Contains, Inc!Include
  <2>3. config # <<>> /\ ~Inc!HasInclude(config) /\ text \in Inc!Versions(config)
    BY <2>1 DEF TextInv, Saved, Own, Backing
  <2>4. text' \in Inc!Versions(config)'
    BY <2>1, <2>3 DEF Inc!Versions, Inc!ToSet, Inc!Include
  <2>5. Own' /\ TextKept'
    BY <2>4 DEF Own, TextKept, Inc!TextKept
  <2>6. \A q \in Procs : Saved(q)'
    BY <1>1, <2>1, <2>2 DEF TextInv, Saved, Backing
  <2>7. backup' \in [0..Seconds -> Seq(Nat)]
    BY <2>1 DEF TextInv
  <2> QED
    BY <2>1, <2>5, <2>6, <2>7 DEF TextInv
<1>4. CASE Inc!WriteBackup(p, clock)
  <2>1. /\ UNCHANGED <<config, clock, text, seen>> /\ backup' = [backup EXCEPT ![clock] = seen[p]]
        /\ step[p] = "write_backup" /\ step' = [step EXCEPT ![p] = "truncate"]
    BY <1>4 DEF Inc!WriteBackup, Inc!Goto
  <2>2. Inc!HasInclude(config)' <=> Inc!HasInclude(config)
    BY <2>1 DEF Inc!HasInclude, Inc!Contains, Inc!Include
  <2>3. /\ config # <<>> /\ ~Inc!HasInclude(config) /\ text \in Inc!Versions(config)
        /\ seen[p] = config
    BY <2>1 DEF TextInv, Saved, Own, Backing
  <2>4. text' \in Inc!Versions(config)'
    BY <2>1, <2>3 DEF Inc!Versions, Inc!ToSet, Inc!Include
  <2>5. Own' /\ TextKept'
    BY <2>4 DEF Own, TextKept, Inc!TextKept
  <2>6. backup' \in [0..Seconds -> Seq(Nat)] /\ clock' \in 0..Seconds /\ backup'[clock] = config
    BY <1>1, <2>1, <2>3 DEF TextInv
  <2>7. \A q \in Procs : Saved(q)'
    BY <1>1, <2>1, <2>2, <2>3, <2>6 DEF TextInv, Saved, Backing
  <2> QED
    BY <2>5, <2>6, <2>7 DEF TextInv
<1>5. CASE Inc!Truncate(p)
  <2>1. /\ UNCHANGED <<backup, clock, text, seen>> /\ config' = <<>>
        /\ step[p] = "truncate" /\ step' = [step EXCEPT ![p] = "write"]
    BY <1>5 DEF Inc!Truncate, Inc!Goto
  <2>2. ~Inc!HasInclude(config)'
    BY <2>1 DEF Inc!HasInclude, Inc!Contains
  <2>3. \E t \in 0..Seconds : text # 0 => text \in Inc!Versions(backup[t])
    <3>1. CASE config = <<>>
      BY <3>1, EmptyHasNothing, ProvisionAssumption DEF TextInv, TextKept, Inc!TextKept
    <3>2. CASE config # <<>>
      BY <2>1, <3>2 DEF TextInv, Saved, Own
    <3> QED
      BY <3>1, <3>2
  <2>4. TextKept'
    BY <2>1, <2>3 DEF TextKept, Inc!TextKept, Inc!Versions, Inc!ToSet, Inc!Include
  <2>5. \A q \in Procs : Saved(q)'
    BY <1>1, <2>1, <2>2 DEF Saved, Backing
  <2> QED
    BY <2>1, <2>4, <2>5 DEF TextInv, Own
<1>6. CASE Inc!Write(p)
  <2>1. /\ UNCHANGED <<backup, clock, text>> /\ config' = <<Inc!Include>> \o seen[p]
        /\ step[p] = "write" /\ step' = [step EXCEPT ![p] = "idle"]
        /\ \A q \in Procs : step'[q] = "idle"
    BY <1>1, <1>6 DEF Inc!Write, Inc!Finish, Inc!Goto
  <2>2. Inc!HasInclude(config)'
    <3>1. seen[p] \in Seq(Nat) /\ Inc!Include \in Nat
      BY <1>1 DEF Inc!Include
    <3>2. 1 \in 1..Len(config') /\ config'[1] = Inc!Include
      BY <2>1, <3>1
    <3> QED
      BY <3>2 DEF Inc!HasInclude, Inc!Contains, Inc!Include
  <2>3. config = <<>> /\ TextKept
    BY <2>1 DEF TextInv, Saved
  <2>4. \E t \in 0..Seconds : text # 0 => text \in Inc!Versions(backup[t])
    BY <2>3, EmptyHasNothing, ProvisionAssumption DEF TextKept, Inc!TextKept
  <2>5. TextKept'
    BY <2>1, <2>4 DEF TextKept, Inc!TextKept, Inc!Versions, Inc!ToSet, Inc!Include
  <2>6. \A q \in Procs : Saved(q)'
    BY <2>1 DEF Saved, Backing
  <2> QED
    BY <2>1, <2>2, <2>5, <2>6 DEF TextInv, Own
<1> QED
  BY <1>2, <1>3, <1>4, <1>5, <1>6 DEF IncludeStep

LEMMA TextDie ==
  ASSUME IncludeInv, TextInv, NEW p \in Procs, Die(p)
  PROVE  TextInv'
<1>1. CASE step[p] = "idle"
  BY <1>1, TextUnchanged DEF Die
<1>2. CASE step[p] # "idle"
  <2>1. /\ UNCHANGED <<config, backup, clock, text>>
        /\ \A q \in Procs : step'[q] = "idle"
    BY <1>2, Alone DEF Die, Inc!Crash, Inc!Finish, Inc!Goto, IncludeInv
  <2>2. \A q \in Procs : Saved(q)'
    BY <2>1 DEF Saved, Backing
  <2>3. Own' /\ TextKept'
    BY <2>1 DEF TextInv, Own, TextKept, Inc!TextKept, Inc!Versions, Inc!ToSet,
                Inc!HasInclude, Inc!Contains, Inc!Include
  <2> QED
    BY <2>1, <2>2, <2>3 DEF TextInv
<1> QED
  BY <1>1, <1>2

LEMMA TextOutside ==
  ASSUME ~Editing, IncludeInv, TextInv, Outside
  PROVE  TextInv'
<1>1. CASE Inc!Tick
  <2>1. clock' \in 0..Seconds
    BY <1>1, ProvisionAssumption DEF Inc!Tick, TextInv
  <2> QED
    BY <1>1, <2>1, TextClock DEF Inc!Tick
<1>2. CASE Inc!Edit /\ Calm
  <2>1. /\ UNCHANGED <<backup, clock, step, seen>> /\ text' = text + 1 /\ text \in Nat
        /\ config' \in {<<text + 1>>, <<Inc!Include, text + 1>>, <<text + 1, Inc!Include>>}
        /\ \A q \in Procs : step'[q] = "idle"
    BY <1>2 DEF Inc!Edit, Calm, IncludeInv, Provisioned
  <2>2. text' # 0 /\ \E i \in DOMAIN config' : config'[i] = text'
    <3>1. CASE config' = <<text + 1>>
      BY <2>1, <3>1
    <3>2. CASE config' = <<Inc!Include, text + 1>>
      <4>1. 2 \in DOMAIN config' /\ config'[2] = text'
        BY <2>1, <3>2
      <4> QED
        BY <2>1, <4>1
    <3>3. CASE config' = <<text + 1, Inc!Include>>
      BY <2>1, <3>3
    <3> QED
      BY <2>1, <3>1, <3>2, <3>3
  <2>3. text' \in Inc!Versions(config)'
    BY <2>2 DEF Inc!Versions, Inc!ToSet, Inc!Include
  <2>4. \A q \in Procs : Saved(q)'
    BY <2>1 DEF Saved, Backing
  <2> QED
    BY <2>1, <2>3, <2>4 DEF TextInv, Own, TextKept, Inc!TextKept
<1> QED
  BY <1>1, <1>2 DEF Outside

LEMMA TextNext ==
  ASSUME ~Editing, IncludeInv, TextInv, [PNext]_pvars
  PROVE  TextInv'
<1>1. CASE UNCHANGED sshvars
  BY <1>1, TextUnchanged
<1>2. CASE \E p \in Procs : IncludeStep(p) \/ Die(p)
  BY <1>2, TextIncludeStep, TextDie
<1>3. CASE Outside
  BY <1>3, TextOutside
<1> QED
  BY <1>1, <1>2, <1>3 DEF PNext, pvars, Start, KeyStep, CreateBlock, WriteBlock, Return

LEMMA TextHolds ==
  ASSUME Serial, ~Editing
  PROVE  PSpec => [](IncludeInv /\ TextInv)
<1>1. PInit => KeyInv /\ IncludeInv /\ TextInv
  BY KeyInit, IncludeInit, TextInit DEF PInit
<1>2. KeyInv /\ IncludeInv /\ TextInv /\ [PNext]_pvars => KeyInv' /\ IncludeInv' /\ TextInv'
  BY KeysOnly, KeysNext, IncludeNext, TextNext
<1> QED
  BY <1>1, <1>2, PTL DEF PSpec

(* EnsureInclude never loses the user's text, whenever a process dies: it   *)
(* is in ~/.ssh/config or in one of the backups.                            *)
THEOREM UserTextKept ==
  ASSUME Serial, ~Editing
  PROVE  PSpec => []TextKept
<1>1. TextInv => TextKept
  BY DEF TextInv
<1> QED
  BY <1>1, TextHolds, PTL
=============================================================================
