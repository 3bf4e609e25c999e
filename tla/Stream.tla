------------------------------- MODULE Stream -------------------------------
(***************************************************************************)
(* What a forwarded connection promises to its two ends: a stream of units *)
(* in each direction.  A side reads what the other has sent, in order; it  *)
(* reads a clean end only after all of it, unless the sender was cut off;  *)
(* it sees an error only when the sender has left.                         *)
(***************************************************************************)
EXTENDS Naturals

Sides == {"client", "program"}
Other(d) == IF d = "client" THEN "program" ELSE "client"

VARIABLES
  sent,    \* sent[d]: units that side d has written
  ended,   \* ended[d]: how d's writing ended: no, eof, cut
  open,    \* open[d]: side d has not left
  got,     \* got[d]: units of d's that the other side has read
  heard    \* heard[d]: what the other side knows of d's end: nothing, eof, error

svars == <<sent, ended, open, got, heard>>

Init ==
  /\ sent = [d \in Sides |-> 0]
  /\ ended = [d \in Sides |-> "no"]
  /\ open = [d \in Sides |-> TRUE]
  /\ got = [d \in Sides |-> 0]
  /\ heard = [d \in Sides |-> "nothing"]

Send(d) ==
  /\ ended[d] = "no"
  /\ sent' = [sent EXCEPT ![d] = @ + 1]
  /\ UNCHANGED <<ended, open, got, heard>>

(* A side has no more to say, and goes on reading.                          *)
HalfClose(d) ==
  /\ ended[d] = "no"
  /\ ended' = [ended EXCEPT ![d] = "eof"]
  /\ UNCHANGED <<sent, open, got, heard>>

(* A side leaves: it has said all it had to say, or is cut off.             *)
Leave(d) ==
  /\ open[d]
  /\ open' = [open EXCEPT ![d] = FALSE]
  /\ ended' \in {[ended EXCEPT ![d] = how] : how \in {"eof", "cut"}}
  /\ UNCHANGED <<sent, got, heard>>

(* What it said last is lost after it has left.                             *)
CutOff(d) ==
  /\ ~open[d]
  /\ ended' = [ended EXCEPT ![d] = "cut"]
  /\ UNCHANGED <<sent, open, got, heard>>

Deliver(d) ==
  /\ open[Other(d)] /\ heard[d] = "nothing"
  /\ got[d] < sent[d]
  /\ got' = [got EXCEPT ![d] = @ + 1]
  /\ UNCHANGED <<sent, ended, open, heard>>

End(d) ==
  /\ open[Other(d)] /\ heard[d] = "nothing"
  /\ ended[d] = "cut" \/ (ended[d] = "eof" /\ got[d] = sent[d])
  /\ heard' = [heard EXCEPT ![d] = "eof"]
  /\ UNCHANGED <<sent, ended, open, got>>

(* The connection breaks, whatever of the sender's was still on its way.     *)
Break(d) ==
  /\ heard[d] = "nothing" /\ ~open[d]
  /\ heard' = [heard EXCEPT ![d] = "error"]
  /\ ended' \in {ended, [ended EXCEPT ![d] = "cut"]}
  /\ UNCHANGED <<sent, open, got>>

Next ==
  \E d \in Sides : \/ Send(d) \/ HalfClose(d) \/ Leave(d) \/ CutOff(d)
                   \/ Deliver(d) \/ End(d) \/ Break(d)

Spec == Init /\ [][Next]_svars
=============================================================================
