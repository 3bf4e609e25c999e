---------------------------- MODULE BridgeProofs ----------------------------
(***************************************************************************)
(* A forwarded connection is a stream in each direction, for any amount of *)
(* data and any buffers: every step of Bridge is a step of Stream or none. *)
(***************************************************************************)
EXTENDS Bridge, TLAPS

(* A unit is counted once wherever it is, and none is lost on its way to a  *)
(* side that is there unless the sender was cut off.                        *)
Passed(d) == got[d] + out[d] + held[d] + in[d]

Conserved(d) ==
  /\ Passed(d) <= sent[d]
  /\ ended[d] # "cut" /\ open[Other(d)] => Passed(d) = sent[d]

(* Who has left has ended, and only who has left was cut off.               *)
Left(d) == (~open[d] => ended[d] # "no") /\ (ended[d] = "cut" => ~open[d])

(* The other side is told of an end only when there is one, and nothing of  *)
(* d's is left with the agent but what d was cut off from.                  *)
ToldTruly(d) ==
  eof[d] /\ open[Other(d)] =>
    ended[d] # "no" /\ (ended[d] = "cut" \/ (in[d] = 0 /\ held[d] = 0))

(* A goroutine that has stopped copying to a side that is there has copied  *)
(* everything.                                                              *)
Drained(d) ==
  copier[d] \in {"shut", "done"} =>
    /\ copier[d] = "done" => eof[d]
    /\ open[Other(d)] => ended[d] # "no" /\ in[d] = 0 /\ held[d] = 0

BothDone == \A d \in Sides : copier[d] = "done"
NotCopying == \A d \in Sides : copier[d] = "none"
Silent == in["client"] = 0 /\ held["client"] = 0

Stages ==
  /\ ~up => ~open["client"]
  /\ at \in {"dial", "accept", "open"} => NotCopying /\ Silent /\ (up => open["client"])
  /\ at = "close_channel" => BothDone
  /\ at = "close_socket" => BothDone \/ (NotCopying /\ Silent /\ ~open["client"])

Flow(d) == Conserved(d) /\ Left(d) /\ ToldTruly(d) /\ Drained(d)

Inv == TypeOK /\ Stages /\ \A d \in Sides : Flow(d)

LEMMA SidesFacts ==
  /\ "client" \in Sides /\ "program" \in Sides
  /\ \A d \in Sides : Other(d) \in Sides /\ Other(d) # d /\ Other(Other(d)) = d
  /\ \A d, e \in Sides : e = d \/ e = Other(d)
BY DEF Sides, Other

LEMMA InitInv == Init => Inv
<1> SUFFICES ASSUME Init PROVE Inv
  OBVIOUS
<1>1. TypeOK
  BY BridgeAssumption DEF Init, TypeOK, None
<1>2. Stages
  BY DEF Init, Stages, NotCopying, Silent, None, Sides
<1>3. ASSUME NEW d \in Sides
      PROVE  Flow(d)
  BY SidesFacts DEF Init, Flow, Conserved, Passed, Left, ToldTruly, Drained, None
<1> QED
  BY <1>1, <1>2, <1>3 DEF Inv

----------------------------------------------------------------------------
(* The steps of the two ends.                                               *)
LEMMA SendKeepsInv ==
  ASSUME Inv, NEW d \in Sides, Send(d)
  PROVE  Inv'
<1> USE SidesFacts, BridgeAssumption DEF Send, flow, ends, Talks
<1>1. TypeOK'
  BY DEF Inv, TypeOK, Flow, Conserved, Passed
<1>2. Stages'
  BY DEF Inv, TypeOK, Stages, NotCopying, BothDone, Silent
<1>3. ASSUME NEW e \in Sides
      PROVE  Flow(e)'
  <2>1. Conserved(e)'
    BY DEF Inv, TypeOK, Flow, Conserved, Passed
  <2>2. Left(e)'
    BY DEF Inv, TypeOK, Flow, Left
  <2>3. ToldTruly(e)'
    BY DEF Inv, TypeOK, Flow, ToldTruly, Drained
  <2>4. Drained(e)'
    BY DEF Inv, TypeOK, Flow, Drained, Conserved
  <2> QED
    BY <2>1, <2>2, <2>3, <2>4 DEF Flow
<1> QED
  BY <1>1, <1>2, <1>3 DEF Inv

LEMMA HalfCloseKeepsInv ==
  ASSUME Inv, NEW d \in Sides, HalfClose(d)
  PROVE  Inv'
<1> USE SidesFacts, BridgeAssumption DEF HalfClose, flow, ends, Talks
<1>1. TypeOK'
  BY DEF Inv, TypeOK, Flow, Conserved, Passed
<1>2. Stages'
  BY DEF Inv, TypeOK, Stages, NotCopying, BothDone, Silent
<1>3. ASSUME NEW e \in Sides
      PROVE  Flow(e)'
  <2>1. Conserved(e)'
    BY DEF Inv, TypeOK, Flow, Conserved, Passed
  <2>2. Left(e)'
    BY DEF Inv, TypeOK, Flow, Left
  <2>3. ToldTruly(e)'
    BY DEF Inv, TypeOK, Flow, ToldTruly, Drained
  <2>4. Drained(e)'
    BY DEF Inv, TypeOK, Flow, Drained, Conserved
  <2> QED
    BY <2>1, <2>2, <2>3, <2>4 DEF Flow
<1> QED
  BY <1>1, <1>2, <1>3 DEF Inv

LEMMA CloseKeepsInv ==
  ASSUME Inv, NEW d \in Sides, Close(d)
  PROVE  Inv'
<1> USE SidesFacts, BridgeAssumption DEF Close, flow, ends, Talks
<1>1. TypeOK'
  BY DEF Inv, TypeOK, Flow, Conserved, Passed
<1>2. Stages'
  BY DEF Inv, TypeOK, Stages, NotCopying, BothDone, Silent
<1>3. ASSUME NEW e \in Sides
      PROVE  Flow(e)'
  <2>1. Conserved(e)'
    BY DEF Inv, TypeOK, Flow, Conserved, Passed, Left
  <2>2. Left(e)'
    BY DEF Inv, TypeOK, Flow, Left
  <2>3. ToldTruly(e)'
    BY DEF Inv, TypeOK, Flow, ToldTruly, Drained, Left, Stages
  <2>4. Drained(e)'
    BY DEF Inv, TypeOK, Flow, Drained, Conserved
  <2> QED
    BY <2>1, <2>2, <2>3, <2>4 DEF Flow
<1> QED
  BY <1>1, <1>2, <1>3 DEF Inv

LEMMA ReceiveKeepsInv ==
  ASSUME Inv, NEW d \in Sides, Receive(d)
  PROVE  Inv'
<1> USE SidesFacts, BridgeAssumption DEF Receive, flow, ends
<1>1. TypeOK'
  <2>1. got[d] \in 0..Units /\ out[d] \in 0..Window /\ out[d] > 0
    BY DEF Inv, TypeOK
  <2>2. got[d] + out[d] <= sent[d] /\ sent[d] \in 0..Units
    BY DEF Inv, TypeOK, Flow, Conserved, Passed
  <2>3. got[d] + 1 \in 0..Units /\ out[d] - 1 \in 0..Window
    BY <2>1, <2>2
  <2> QED
    BY <2>3 DEF Inv, TypeOK
<1>2. Stages'
  BY DEF Inv, TypeOK, Stages, NotCopying, BothDone, Silent
<1>3. ASSUME NEW e \in Sides
      PROVE  Flow(e)'
  <2>1. Conserved(e)'
    BY DEF Inv, TypeOK, Flow, Conserved, Passed
  <2>2. Left(e)'
    BY DEF Inv, TypeOK, Flow, Left
  <2>3. ToldTruly(e)'
    BY DEF Inv, TypeOK, Flow, ToldTruly, Drained
  <2>4. Drained(e)'
    BY DEF Inv, TypeOK, Flow, Drained, Conserved
  <2> QED
    BY <2>1, <2>2, <2>3, <2>4 DEF Flow
<1> QED
  BY <1>1, <1>2, <1>3 DEF Inv

LEMMA ReceiveEndKeepsInv ==
  ASSUME Inv, NEW d \in Sides, ReceiveEnd(d)
  PROVE  Inv'
<1> USE SidesFacts, BridgeAssumption DEF ReceiveEnd, flow, ends
<1>1. TypeOK'
  BY DEF Inv, TypeOK, Flow, Conserved, Passed
<1>2. Stages'
  BY DEF Inv, TypeOK, Stages, NotCopying, BothDone, Silent
<1>3. ASSUME NEW e \in Sides
      PROVE  Flow(e)'
  <2>1. Conserved(e)'
    BY DEF Inv, TypeOK, Flow, Conserved, Passed
  <2>2. Left(e)'
    BY DEF Inv, TypeOK, Flow, Left
  <2>3. ToldTruly(e)'
    BY DEF Inv, TypeOK, Flow, ToldTruly, Drained
  <2>4. Drained(e)'
    BY DEF Inv, TypeOK, Flow, Drained, Conserved
  <2> QED
    BY <2>1, <2>2, <2>3, <2>4 DEF Flow
<1> QED
  BY <1>1, <1>2, <1>3 DEF Inv

LEMMA ResetKeepsInv ==
  ASSUME Inv, Reset
  PROVE  Inv'
<1> USE SidesFacts, BridgeAssumption DEF Reset, flow, ends, Talks, CutOff
<1>1. TypeOK'
  BY DEF Inv, TypeOK, Flow, Conserved, Passed
<1>2. Stages'
  BY DEF Inv, TypeOK, Stages, NotCopying, BothDone, Silent
<1>3. ASSUME NEW e \in Sides
      PROVE  Flow(e)'
  <2>1. Conserved(e)'
    BY DEF Inv, TypeOK, Flow, Conserved, Passed
  <2>2. Left(e)'
    BY DEF Inv, TypeOK, Flow, Left
  <2>3. ToldTruly(e)'
    BY DEF Inv, TypeOK, Flow, ToldTruly, Drained
  <2>4. Drained(e)'
    BY DEF Inv, TypeOK, Flow, Drained, Conserved
  <2> QED
    BY <2>1, <2>2, <2>3, <2>4 DEF Flow
<1> QED
  BY <1>1, <1>2, <1>3 DEF Inv

LEMMA LoseKeepsInv ==
  ASSUME Inv, Lose
  PROVE  Inv'
<1> USE SidesFacts, BridgeAssumption DEF Lose, flow, ends, CutOff
<1>1. TypeOK'
  <2>1. CASE open["client"]
    <3>1. PICK k \in 0..in["client"] :
            /\ open' = [open EXCEPT !["client"] = FALSE]
            /\ in' = [in EXCEPT !["client"] = k]
            /\ ended' = [ended EXCEPT !["client"] =
                           IF @ = "eof" /\ k = in["client"] THEN "eof" ELSE "cut"]
            /\ UNCHANGED <<sent, got, heard, held, out>>
      BY <2>1
    <3>2. k \in 0..Window
      BY DEF Inv, TypeOK
    <3>3. in' \in [Sides -> 0..Window]
      BY <3>1, <3>2 DEF Inv, TypeOK
    <3>4. ended' \in [Sides -> {"no", "eof", "cut"}]
      BY <3>1 DEF Inv, TypeOK
    <3>5. open' \in [Sides -> BOOLEAN]
      BY <3>1 DEF Inv, TypeOK
    <3> QED
      BY <3>1, <3>3, <3>4, <3>5 DEF Inv, TypeOK
  <2>2. CASE ~open["client"]
    BY <2>2 DEF Inv, TypeOK
  <2> QED
    BY <2>1, <2>2
<1>2. Stages'
  BY DEF Inv, TypeOK, Stages, NotCopying, BothDone, Silent
<1>3. ASSUME NEW e \in Sides
      PROVE  Flow(e)'
  <2>1. Conserved(e)'
    BY DEF Inv, TypeOK, Flow, Conserved, Passed
  <2>2. Left(e)'
    BY DEF Inv, TypeOK, Flow, Left
  <2>3. ToldTruly(e)'
    BY DEF Inv, TypeOK, Flow, ToldTruly, Drained
  <2>4. Drained(e)'
    BY DEF Inv, TypeOK, Flow, Drained, Conserved
  <2> QED
    BY <2>1, <2>2, <2>3, <2>4 DEF Flow
<1> QED
  BY <1>1, <1>2, <1>3 DEF Inv

LEMMA ReadKeepsInv ==
  ASSUME Inv, NEW d \in Sides, Read(d)
  PROVE  Inv'
<1> USE SidesFacts, BridgeAssumption DEF Read, flow, ends
<1>1. TypeOK'
  BY DEF Inv, TypeOK, Flow, Conserved, Passed
<1>2. Stages'
  BY DEF Inv, TypeOK, Stages, NotCopying, BothDone, Silent
<1>3. ASSUME NEW e \in Sides
      PROVE  Flow(e)'
  <2>1. Conserved(e)'
    BY DEF Inv, TypeOK, Flow, Conserved, Passed
  <2>2. Left(e)'
    BY DEF Inv, TypeOK, Flow, Left
  <2>3. ToldTruly(e)'
    BY DEF Inv, TypeOK, Flow, ToldTruly, Drained
  <2>4. Drained(e)'
    BY DEF Inv, TypeOK, Flow, Drained, Conserved
  <2> QED
    BY <2>1, <2>2, <2>3, <2>4 DEF Flow
<1> QED
  BY <1>1, <1>2, <1>3 DEF Inv

LEMMA ReadEndsKeepsInv ==
  ASSUME Inv, NEW d \in Sides, ReadEnds(d)
  PROVE  Inv'
<1> USE SidesFacts, BridgeAssumption DEF ReadEnds, flow, ends
<1>1. TypeOK'
  BY DEF Inv, TypeOK, Flow, Conserved, Passed
<1>2. Stages'
  BY DEF Inv, TypeOK, Stages, NotCopying, BothDone, Silent
<1>3. ASSUME NEW e \in Sides
      PROVE  Flow(e)'
  <2>1. Conserved(e)'
    BY DEF Inv, TypeOK, Flow, Conserved, Passed
  <2>2. Left(e)'
    BY DEF Inv, TypeOK, Flow, Left
  <2>3. ToldTruly(e)'
    BY DEF Inv, TypeOK, Flow, ToldTruly, Drained
  <2>4. Drained(e)'
    BY DEF Inv, TypeOK, Flow, Drained, Conserved
  <2> QED
    BY <2>1, <2>2, <2>3, <2>4 DEF Flow
<1> QED
  BY <1>1, <1>2, <1>3 DEF Inv

LEMMA WriteKeepsInv ==
  ASSUME Inv, NEW d \in Sides, Write(d)
  PROVE  Inv'
<1> USE SidesFacts, BridgeAssumption DEF Write, flow, ends
<1>1. TypeOK'
  BY DEF Inv, TypeOK, Flow, Conserved, Passed
<1>2. Stages'
  BY DEF Inv, TypeOK, Stages, NotCopying, BothDone, Silent
<1>3. ASSUME NEW e \in Sides
      PROVE  Flow(e)'
  <2>1. Conserved(e)'
    BY DEF Inv, TypeOK, Flow, Conserved, Passed
  <2>2. Left(e)'
    BY DEF Inv, TypeOK, Flow, Left
  <2>3. ToldTruly(e)'
    BY DEF Inv, TypeOK, Flow, ToldTruly, Drained
  <2>4. Drained(e)'
    BY DEF Inv, TypeOK, Flow, Drained, Conserved
  <2> QED
    BY <2>1, <2>2, <2>3, <2>4 DEF Flow
<1> QED
  BY <1>1, <1>2, <1>3 DEF Inv

LEMMA WriteFailsKeepsInv ==
  ASSUME Inv, NEW d \in Sides, WriteFails(d)
  PROVE  Inv'
<1> USE SidesFacts, BridgeAssumption DEF WriteFails, flow, ends
<1>1. TypeOK'
  BY DEF Inv, TypeOK, Flow, Conserved, Passed
<1>2. Stages'
  BY DEF Inv, TypeOK, Stages, NotCopying, BothDone, Silent
<1>3. ASSUME NEW e \in Sides
      PROVE  Flow(e)'
  <2>1. Conserved(e)'
    BY DEF Inv, TypeOK, Flow, Conserved, Passed
  <2>2. Left(e)'
    BY DEF Inv, TypeOK, Flow, Left
  <2>3. ToldTruly(e)'
    BY DEF Inv, TypeOK, Flow, ToldTruly, Drained
  <2>4. Drained(e)'
    BY DEF Inv, TypeOK, Flow, Drained, Conserved
  <2> QED
    BY <2>1, <2>2, <2>3, <2>4 DEF Flow
<1> QED
  BY <1>1, <1>2, <1>3 DEF Inv

LEMMA ShutKeepsInv ==
  ASSUME Inv, NEW d \in Sides, Shut(d)
  PROVE  Inv'
<1> USE SidesFacts, BridgeAssumption DEF Shut, flow, ends
<1>1. TypeOK'
  BY DEF Inv, TypeOK, Flow, Conserved, Passed
<1>2. Stages'
  BY DEF Inv, TypeOK, Stages, NotCopying, BothDone, Silent
<1>3. ASSUME NEW e \in Sides
      PROVE  Flow(e)'
  <2>1. Conserved(e)'
    BY DEF Inv, TypeOK, Flow, Conserved, Passed
  <2>2. Left(e)'
    BY DEF Inv, TypeOK, Flow, Left
  <2>3. ToldTruly(e)'
    BY DEF Inv, TypeOK, Flow, ToldTruly, Drained
  <2>4. Drained(e)'
    BY DEF Inv, TypeOK, Flow, Drained, Conserved
  <2> QED
    BY <2>1, <2>2, <2>3, <2>4 DEF Flow
<1> QED
  BY <1>1, <1>2, <1>3 DEF Inv

LEMMA DialKeepsInv ==
  ASSUME Inv, Dial
  PROVE  Inv'
<1> USE SidesFacts, BridgeAssumption DEF Dial, flow, ends
<1>1. TypeOK'
  BY DEF Inv, TypeOK, Flow, Conserved, Passed
<1>2. Stages'
  BY DEF Inv, TypeOK, Stages, NotCopying, BothDone, Silent
<1>3. ASSUME NEW e \in Sides
      PROVE  Flow(e)'
  <2>1. Conserved(e)'
    BY DEF Inv, TypeOK, Flow, Conserved, Passed
  <2>2. Left(e)'
    BY DEF Inv, TypeOK, Flow, Left
  <2>3. ToldTruly(e)'
    BY DEF Inv, TypeOK, Flow, ToldTruly, Drained
  <2>4. Drained(e)'
    BY DEF Inv, TypeOK, Flow, Drained, Conserved
  <2> QED
    BY <2>1, <2>2, <2>3, <2>4 DEF Flow
<1> QED
  BY <1>1, <1>2, <1>3 DEF Inv

LEMMA AcceptKeepsInv ==
  ASSUME Inv, Accept
  PROVE  Inv'
<1> USE SidesFacts, BridgeAssumption DEF Accept, flow, ends, StartCopy
<1>1. TypeOK'
  BY DEF Inv, TypeOK, Flow, Conserved, Passed
<1>2. Stages'
  BY DEF Inv, TypeOK, Stages, NotCopying, BothDone, Silent
<1>3. ASSUME NEW e \in Sides
      PROVE  Flow(e)'
  <2>1. Conserved(e)'
    BY DEF Inv, TypeOK, Flow, Conserved, Passed
  <2>2. Left(e)'
    BY DEF Inv, TypeOK, Flow, Left
  <2>3. ToldTruly(e)'
    BY DEF Inv, TypeOK, Flow, ToldTruly, Drained
  <2>4. Drained(e)'
    BY DEF Inv, TypeOK, Flow, Drained, Conserved
  <2> QED
    BY <2>1, <2>2, <2>3, <2>4 DEF Flow
<1> QED
  BY <1>1, <1>2, <1>3 DEF Inv

LEMMA OpenChannelKeepsInv ==
  ASSUME Inv, OpenChannel
  PROVE  Inv'
<1> USE SidesFacts, BridgeAssumption DEF OpenChannel, flow, ends, StartCopy
<1>1. TypeOK'
  BY DEF Inv, TypeOK, Flow, Conserved, Passed
<1>2. Stages'
  BY DEF Inv, TypeOK, Stages, NotCopying, BothDone, Silent
<1>3. ASSUME NEW e \in Sides
      PROVE  Flow(e)'
  <2>1. Conserved(e)'
    BY DEF Inv, TypeOK, Flow, Conserved, Passed, Left, Stages
  <2>2. Left(e)'
    BY DEF Inv, TypeOK, Flow, Left
  <2>3. ToldTruly(e)'
    BY DEF Inv, TypeOK, Flow, ToldTruly, Drained, Left, Stages
  <2>4. Drained(e)'
    BY DEF Inv, TypeOK, Flow, Drained, Conserved
  <2> QED
    BY <2>1, <2>2, <2>3, <2>4 DEF Flow
<1> QED
  BY <1>1, <1>2, <1>3 DEF Inv

LEMMA WaitKeepsInv ==
  ASSUME Inv, Wait
  PROVE  Inv'
<1> USE SidesFacts, BridgeAssumption DEF Wait, flow, ends
<1>1. TypeOK'
  BY DEF Inv, TypeOK, Flow, Conserved, Passed
<1>2. Stages'
  BY DEF Inv, TypeOK, Stages, NotCopying, BothDone, Silent
<1>3. ASSUME NEW e \in Sides
      PROVE  Flow(e)'
  <2>1. Conserved(e)'
    BY DEF Inv, TypeOK, Flow, Conserved, Passed
  <2>2. Left(e)'
    BY DEF Inv, TypeOK, Flow, Left
  <2>3. ToldTruly(e)'
    BY DEF Inv, TypeOK, Flow, ToldTruly, Drained
  <2>4. Drained(e)'
    BY DEF Inv, TypeOK, Flow, Drained, Conserved
  <2> QED
    BY <2>1, <2>2, <2>3, <2>4 DEF Flow
<1> QED
  BY <1>1, <1>2, <1>3 DEF Inv

LEMMA CloseChannelKeepsInv ==
  ASSUME Inv, CloseChannel
  PROVE  Inv'
<1> USE SidesFacts, BridgeAssumption DEF CloseChannel, flow, ends
<1>1. TypeOK'
  BY DEF Inv, TypeOK, Flow, Conserved, Passed
<1>2. Stages'
  BY DEF Inv, TypeOK, Stages, NotCopying, BothDone, Silent
<1>3. ASSUME NEW e \in Sides
      PROVE  Flow(e)'
  <2>1. Conserved(e)'
    BY DEF Inv, TypeOK, Flow, Conserved, Passed
  <2>2. Left(e)'
    BY DEF Inv, TypeOK, Flow, Left
  <2>3. ToldTruly(e)'
    BY DEF Inv, TypeOK, Flow, ToldTruly, Drained, Left, Stages, BothDone, Silent
  <2>4. Drained(e)'
    BY DEF Inv, TypeOK, Flow, Drained, Conserved
  <2> QED
    BY <2>1, <2>2, <2>3, <2>4 DEF Flow
<1> QED
  BY <1>1, <1>2, <1>3 DEF Inv

LEMMA CloseSocketKeepsInv ==
  ASSUME Inv, CloseSocket
  PROVE  Inv'
<1> USE SidesFacts, BridgeAssumption DEF CloseSocket, flow, ends, SocketCloses
<1>1. TypeOK'
  BY DEF Inv, TypeOK, Flow, Conserved, Passed
<1>2. Stages'
  BY DEF Inv, TypeOK, Stages, NotCopying, BothDone, Silent
<1>3. ASSUME NEW e \in Sides
      PROVE  Flow(e)'
  <2>1. Conserved(e)'
    BY DEF Inv, TypeOK, Flow, Conserved, Passed
  <2>2. Left(e)'
    BY DEF Inv, TypeOK, Flow, Left
  <2>3. ToldTruly(e)'
    BY DEF Inv, TypeOK, Flow, ToldTruly, Drained, Left, Stages, BothDone, Silent
  <2>4. Drained(e)'
    BY DEF Inv, TypeOK, Flow, Drained, Conserved
  <2> QED
    BY <2>1, <2>2, <2>3, <2>4 DEF Flow
<1> QED
  BY <1>1, <1>2, <1>3 DEF Inv

LEMMA AgentExitsKeepsInv ==
  ASSUME Inv, AgentExits
  PROVE  Inv'
<1> USE SidesFacts, BridgeAssumption DEF AgentExits, flow, ends, SocketCloses
<1>1. TypeOK'
  BY DEF Inv, TypeOK, Flow, Conserved, Passed
<1>2. Stages'
  BY DEF Inv, TypeOK, Stages, NotCopying, BothDone, Silent
<1>3. ASSUME NEW e \in Sides
      PROVE  Flow(e)'
  <2>1. Conserved(e)'
    BY DEF Inv, TypeOK, Flow, Conserved, Passed
  <2>2. Left(e)'
    BY DEF Inv, TypeOK, Flow, Left, Stages
  <2>3. ToldTruly(e)'
    BY DEF Inv, TypeOK, Flow, ToldTruly, Drained, Left, Stages, BothDone, Silent
  <2>4. Drained(e)'
    BY DEF Inv, TypeOK, Flow, Drained, Conserved
  <2> QED
    BY <2>1, <2>2, <2>3, <2>4 DEF Flow
<1> QED
  BY <1>1, <1>2, <1>3 DEF Inv

----------------------------------------------------------------------------
LEMMA InvStep ==
  ASSUME Inv, [Next]_vars
  PROVE  Inv'
<1>1. CASE UNCHANGED vars
  BY <1>1 DEF Inv, TypeOK, Stages, NotCopying, BothDone, Silent, Flow, Conserved, Passed, Left,
              ToldTruly, Drained, vars, ends, flow
<1>2. ASSUME NEW d \in Sides, Copy(d)
      PROVE  Inv'
  BY <1>2, ReadKeepsInv, ReadEndsKeepsInv, WriteKeepsInv, WriteFailsKeepsInv, ShutKeepsInv
     DEF Copy
<1>3. CASE Handler
  BY <1>3, DialKeepsInv, AcceptKeepsInv, OpenChannelKeepsInv, WaitKeepsInv,
     CloseChannelKeepsInv, CloseSocketKeepsInv DEF Handler
<1> QED
  BY <1>1, <1>2, <1>3, SendKeepsInv, HalfCloseKeepsInv, CloseKeepsInv, ReceiveKeepsInv,
     ReceiveEndKeepsInv, ResetKeepsInv, LoseKeepsInv, AgentExitsKeepsInv DEF Next

(* What a receiver sees is a step of the stream.                            *)
LEMMA Receptions ==
  ASSUME Inv, NEW d \in Sides, Receive(d) \/ ReceiveEnd(d)
  PROVE  S!Deliver(d) \/ S!End(d)
<1>1. S!Other(d) = Other(d) /\ Other(d) \in Sides
  BY SidesFacts DEF S!Other, Other
<1>2. CASE Receive(d)
  <2>1. got[d] < sent[d]
    <3>1. out[d] > 0 /\ Passed(d) <= sent[d]
      BY <1>2 DEF Receive, Inv, Flow, Conserved
    <3>2. got[d] \in Nat /\ out[d] \in Nat /\ held[d] \in Nat /\ in[d] \in Nat /\ sent[d] \in Nat
      BY DEF Inv, TypeOK
    <3> QED
      BY <3>1, <3>2 DEF Passed
  <2> QED
    BY <1>1, <1>2, <2>1 DEF Receive, S!Deliver
<1>3. CASE ReceiveEnd(d)
  <2>1. ended[d] = "cut" \/ (ended[d] = "eof" /\ got[d] = sent[d])
    <3>1. ended[d] \in {"eof", "cut"} /\ (ended[d] = "cut" \/ (in[d] = 0 /\ held[d] = 0))
      BY <1>3 DEF ReceiveEnd, Inv, TypeOK, Flow, ToldTruly
    <3>2. out[d] = 0 /\ (ended[d] # "cut" => Passed(d) = sent[d])
      BY <1>3 DEF ReceiveEnd, Inv, Flow, Conserved
    <3>3. got[d] \in Nat
      BY DEF Inv, TypeOK
    <3> QED
      BY <3>1, <3>2, <3>3 DEF Passed
  <2> QED
    BY <1>1, <1>3, <2>1 DEF ReceiveEnd, flow, S!End
<1> QED
  BY <1>2, <1>3

(* When the socket is closed with data unread, the client has left.         *)
LEMMA SocketBreaks ==
  ASSUME Inv, CloseSocket \/ AgentExits
  PROVE  UNCHANGED S!svars \/ S!Break("client") \/ S!CutOff("client")
<1>1. in["program"] > 0 => ~open["client"]
  <2>1. CASE CloseSocket
    BY <2>1, SidesFacts DEF CloseSocket, Inv, TypeOK, Stages, BothDone, Flow, Drained, Other
  <2>2. CASE AgentExits
    BY <2>2 DEF AgentExits, Inv, Stages
  <2> QED
    BY <2>1, <2>2
<1>2. ended' = ended \/ (AgentExits /\ ended' = [ended EXCEPT !["client"] = "cut"])
  BY DEF CloseSocket, AgentExits
<1>3. AgentExits => ~open["client"]
  BY DEF AgentExits, Inv, Stages
<1>4. UNCHANGED <<sent, open, got>>
  BY DEF CloseSocket, AgentExits, SocketCloses
<1>5. \/ heard' = heard
      \/ /\ heard["client"] = "nothing" /\ in["program"] > 0
         /\ heard' = [heard EXCEPT !["client"] = "error"]
  BY DEF CloseSocket, AgentExits, SocketCloses
<1> QED
  BY <1>1, <1>2, <1>3, <1>4, <1>5 DEF S!svars, S!Break, S!CutOff

LEMMA StepRefines ==
  ASSUME Inv, [Next]_vars
  PROVE  [S!Next]_S!svars
<1> USE SidesFacts DEF S!Sides, Sides
<1>1. ASSUME NEW d \in Sides, Send(d) \/ HalfClose(d) \/ Close(d)
      PROVE  S!Next
  BY <1>1 DEF Send, HalfClose, Close, Talks, ends, flow, S!Next, S!Send, S!HalfClose, S!Leave
<1>2. ASSUME NEW d \in Sides, Receive(d) \/ ReceiveEnd(d)
      PROVE  S!Next
  BY <1>2, Receptions DEF S!Next
<1>3. CASE Reset
  BY <1>3 DEF Reset, Talks, CutOff, S!Next, S!Leave
<1>4. CASE Lose
  BY <1>4 DEF Lose, CutOff, ends, S!Next, S!Leave, S!svars
<1>5. ASSUME NEW d \in Sides, Copy(d)
      PROVE  UNCHANGED S!svars
  BY <1>5 DEF Copy, Read, ReadEnds, Write, WriteFails, Shut, ends, S!svars
<1>6. CASE Dial \/ Accept \/ Wait \/ CloseChannel
  BY <1>6 DEF Dial, Accept, StartCopy, Wait, CloseChannel, ends, S!svars
<1>7. CASE OpenChannel
  BY <1>7 DEF OpenChannel, StartCopy, ends, Inv, Stages, S!Next, S!Leave, S!svars
<1>8. CASE CloseSocket \/ AgentExits
  BY <1>8, SocketBreaks DEF S!Next
<1>9. CASE UNCHANGED vars
  BY <1>9 DEF vars, ends, S!svars
<1> QED
  BY <1>1, <1>2, <1>3, <1>4, <1>5, <1>6, <1>7, <1>8, <1>9 DEF Next, Handler

(* bridge is a stream in each direction: what one side sends the other reads *)
(* in order and at most once, a clean end comes only after all of it unless *)
(* the sender was cut off, and an error only when the sender has left.      *)
THEOREM BridgeIsStream == Spec => ImplementsStream
<1>1. Init => S!Init
  BY DEF Init, None, S!Init, S!Sides, Sides
<1> QED
  BY <1>1, InitInv, InvStep, StepRefines, PTL DEF Spec, ImplementsStream, S!Spec
=============================================================================
