------------------------- MODULE AgentSessionProofs -------------------------
(***************************************************************************)
(* Proofs about one connection of the in-container ssh server.  The        *)
(* argument follows a packet's number from the client to the request loop: *)
(* the mux and the queues keep the order in which the client sent, so when *)
(* the loop claims the command slot, everything the client asked for       *)
(* before is behind it and nothing that came later is.                     *)
(***************************************************************************)
EXTENDS AgentSession, TLAPS

(* The packets of a queue or of the wire, and their numbers.                *)
Entries(q) == {q[i] : i \in DOMAIN q}
Nums(q) == {m.n : m \in Entries(q)}
Ascending(q) == \A i, j \in DOMAIN q : i < j => q[i].n < q[j].n

Packet == [ch : Sessions, kind : AllKinds, n : Numbers]

(* What TypeOK says and what it leaves out: queue is a function, and a      *)
(* client sends on a channel only the packets it is said to send there.     *)
Queues ==
  /\ queue \in [Sessions -> Seq(Packet)]
  /\ \A s \in Sessions :
       /\ queue[s] \in Seq([ch : {s}, kind : Kinds[s] \ {"close"}, n : Numbers])
       /\ Len(queue[s]) <= QueueCap

Wires ==
  /\ log \in Seq([ch : Sessions, kind : AllKinds]) /\ Len(log) <= Packets
  /\ wire \in Seq(Packet) /\ \A m \in Entries(wire) : m.kind \in Kinds[m.ch]

Rests ==
  /\ open \in [Sessions -> BOOLEAN]
  /\ loop \in [Sessions -> 0..Over]
  /\ started \in [Sessions -> Numbers \cup {0}]
  /\ pty \in [Sessions -> BOOLEAN]
  /\ env \in [Sessions -> SUBSET Numbers]
  /\ slot \in [Sessions -> Numbers \cup {0}]
  /\ size \in [Sessions -> Numbers \cup {0}]
  /\ cmd \in [Sessions -> Cmds]
  /\ snap \in [Sessions -> [pty : BOOLEAN, env : SUBSET Numbers, sock : BOOLEAN]]
  /\ child \in [Sessions -> {"none", "running", "ended"}]
  /\ held \in [Sessions -> BOOLEAN]
  /\ unread \in [Sessions -> BOOLEAN]
  /\ status \in [Sessions -> Nat]
  /\ conn \in {"up", "lost", "cancelled", "closed", "exited"}
  /\ sock \in BOOLEAN

Typed == Queues /\ Wires /\ Rests

(* A packet under way is the one the client sent with its number.           *)
Genuine(q) == \A m \in Entries(q) : /\ m.n \in DOMAIN log
                                    /\ log[m.n].ch = m.ch
                                    /\ log[m.n].kind = m.kind

(* What a channel has in its queue precedes what the mux has not read, and  *)
(* both follow the packet that claimed the command slot.                    *)
InOrder ==
  /\ Genuine(wire) /\ Ascending(wire)
  /\ \A s \in Sessions :
       /\ Genuine(queue[s]) /\ Ascending(queue[s])
       /\ \A m \in Entries(queue[s]) : m.ch = s
       /\ \A n \in Nums(queue[s]) : \A k \in Nums(wire) : n < k
       /\ \A n \in Nums(queue[s]) \cup Nums(wire) : started[s] < n
       /\ started[s] # 0 => /\ started[s] \in DOMAIN log
                            /\ log[started[s]].ch = s

(* Packet n has not been taken by the loop of s: it waits in the queue, or  *)
(* is still to come, or was lost with the connection behind all that waits. *)
Ahead(s, n) ==
  \/ n \in Nums(queue[s])
  \/ /\ started[s] < n
     /\ \A k \in Nums(queue[s]) : k < n
     /\ conn = "up" => n \in Nums(wire)

(* No variable and no pty-req is skipped by the loop.                       *)
NothingSkipped ==
  \A s \in Sessions :
    /\ \A n \in Sent(s, "env") : n \in env[s] \/ Ahead(s, n)
    /\ \A n \in Sent(s, "pty") : pty[s] \/ Ahead(s, n)
    /\ pty[s] => Sent(s, "pty") # {}

(* The command slot and the goroutine that runs the command.                *)
OneCommand ==
  \A s \in Sessions :
    /\ started[s] = 0 <=> cmd[s] = "none"
    /\ status[s] = IF cmd[s] = "done" THEN 1 ELSE 0
    /\ cmd[s] \in {"none", "snapshot", "build", "launch"} => child[s] = "none"
    /\ cmd[s] \in {"join", "exit", "done"} => child[s] # "running"

ConnInv ==
  /\ Typed /\ InOrder /\ NothingSkipped /\ OneCommand
  /\ EarlierRequestsCount /\ AgentOutlivesSession

----------------------------------------------------------------------------
(* Queues: what is put at the end and taken at the front.                   *)

LEMMA EntriesOf ==
  ASSUME NEW S, NEW q \in Seq(S)
  PROVE  Entries(q) \subseteq S
BY DEF Entries

LEMMA PutLast ==
  ASSUME NEW S, NEW q \in Seq(S), NEW m \in S
  PROVE  /\ Append(q, m) \in Seq(S)
         /\ Entries(Append(q, m)) = Entries(q) \cup {m}
         /\ Nums(Append(q, m)) = Nums(q) \cup {m.n}
<1> DEFINE a == Append(q, m)
<1>1. /\ a \in Seq(S) /\ Len(q) \in Nat
      /\ DOMAIN q = 1..Len(q) /\ DOMAIN a = 1..(Len(q) + 1)
      /\ \A i \in 1..Len(q) : a[i] = q[i]
      /\ a[Len(q) + 1] = m
  OBVIOUS
<1> HIDE DEF a
<1>2. Entries(a) = Entries(q) \cup {m}
  BY <1>1 DEF Entries
<1>3. Nums(a) = Nums(q) \cup {m.n}
  BY <1>2 DEF Nums
<1> QED BY <1>1, <1>2, <1>3 DEF a

LEMMA PutLastAscends ==
  ASSUME NEW S, NEW q \in Seq(S), NEW m \in S, Ascending(q), \A k \in Nums(q) : k < m.n
  PROVE  Ascending(Append(q, m))
<1> DEFINE a == Append(q, m)
<1>1. /\ Len(q) \in Nat
      /\ DOMAIN q = 1..Len(q) /\ DOMAIN a = 1..(Len(q) + 1)
      /\ \A i \in 1..Len(q) : a[i] = q[i]
      /\ a[Len(q) + 1] = m
  OBVIOUS
<1> HIDE DEF a
<1>2. \A i \in 1..Len(q) : q[i].n < m.n
  BY <1>1 DEF Nums, Entries
<1>3. Ascending(a)
  <2> SUFFICES ASSUME NEW i \in DOMAIN a, NEW j \in DOMAIN a, i < j
               PROVE  a[i].n < a[j].n
    BY DEF Ascending
  <2>1. i \in 1..Len(q)
    BY <1>1
  <2>2. CASE j \in 1..Len(q)
    BY <2>1, <2>2, <1>1 DEF Ascending
  <2>3. CASE j = Len(q) + 1
    BY <2>1, <2>3, <1>1, <1>2
  <2> QED BY <1>1, <2>2, <2>3
<1> QED BY <1>3 DEF a

LEMMA TakeFirst ==
  ASSUME NEW S, NEW q \in Seq(S), q # <<>>, \A m \in S : m.n \in Nat, Ascending(q)
  PROVE  /\ Head(q) \in S /\ Head(q) \in Entries(q) /\ Head(q).n \in Nums(q)
         /\ Tail(q) \in Seq(S) /\ Len(Tail(q)) = Len(q) - 1 /\ Ascending(Tail(q))
         /\ Entries(Tail(q)) \subseteq Entries(q)
         /\ Nums(Tail(q)) = Nums(q) \ {Head(q).n}
         /\ \A k \in Nums(Tail(q)) : Head(q).n < k
<1> DEFINE t == Tail(q)
           h == Head(q)
<1>1. /\ Len(q) \in Nat /\ Len(q) # 0
      /\ DOMAIN q = 1..Len(q) /\ DOMAIN t = 1..(Len(q) - 1)
      /\ \A i \in 1..(Len(q) - 1) : t[i] = q[i + 1]
      /\ h = q[1] /\ h \in S
      /\ t \in Seq(S) /\ Len(t) = Len(q) - 1
  OBVIOUS
<1>2. \A i \in DOMAIN q : q[i] \in S /\ q[i].n \in Nat
  OBVIOUS
<1> HIDE DEF t, h
<1>3. h \in Entries(q) /\ h.n \in Nums(q)
  BY <1>1 DEF Entries, Nums
<1>a. \A i \in DOMAIN t : i \in Nat /\ i + 1 \in DOMAIN q /\ 1 \in DOMAIN q /\ 1 < i + 1
                          /\ t[i] = q[i + 1]
  BY <1>1
<1>4. Ascending(t)
  <2> SUFFICES ASSUME NEW i \in DOMAIN t, NEW j \in DOMAIN t, i < j
               PROVE  t[i].n < t[j].n
    BY DEF Ascending
  <2>1. i + 1 < j + 1
    BY <1>a
  <2> QED BY <1>a, <2>1 DEF Ascending
<1>5. Entries(t) \subseteq Entries(q)
  BY <1>a DEF Entries
<1>6. \A k \in Nums(t) : h.n < k
  <2> SUFFICES ASSUME NEW i \in DOMAIN t PROVE h.n < t[i].n
    BY DEF Nums, Entries
  <2> QED BY <1>1, <1>a DEF Ascending
<1>7. \A k \in Nums(q) : k = h.n \/ k \in Nums(t)
  <2> SUFFICES ASSUME NEW i \in DOMAIN q, i # 1 PROVE q[i].n \in Nums(t)
    BY <1>1 DEF Nums, Entries
  <2>1. i - 1 \in DOMAIN t /\ t[i - 1] = q[i]
    BY <1>1
  <2> QED BY <2>1 DEF Nums, Entries
<1>8. Nums(t) \subseteq Nums(q)
  BY <1>5 DEF Nums
<1>9. h.n \notin Nums(t)
  BY <1>6, <1>1
<1> QED BY <1>1, <1>3, <1>4, <1>5, <1>6, <1>7, <1>8, <1>9 DEF t, h

----------------------------------------------------------------------------
(* Types.                                                                   *)

LEMMA TypesFollow == Typed => TypeOK
BY DEF Typed, TypeOK, Queues, Wires, Rests, Packet

LEMMA Numeric ==
  /\ Packets \in Nat
  /\ Numbers \subseteq Nat \ {0} /\ Numbers \subseteq 0..Over
  /\ 0 \in 0..Over /\ Over \in 0..Over
  /\ \A m \in Packet : m.n \in Nat
BY AgentAssumption DEF Numbers, Over, Packet

LEMMA InitTyped == Init => Typed
<1> SUFFICES ASSUME Init PROVE Typed
  OBVIOUS
<1>1. Queues
  BY AgentAssumption DEF Init, Queues
<1>2. Wires
  BY Numeric DEF Init, Wires, Entries
<1>3. Rests
  BY Numeric DEF Init, Rests, Cmds, NoSnap
<1> QED BY <1>1, <1>2, <1>3 DEF Typed

LEMMA QueuesTake ==
  ASSUME Queues, NEW s \in Sessions, NEW kinds, Takes(s, kinds)
  PROVE  /\ Queues'
         /\ queue[s] # <<>>
         /\ queue'[s] = Tail(queue[s])
         /\ \A t \in Sessions : t # s => queue'[t] = queue[t]
         /\ Head(queue[s]).n \in Numbers /\ Head(queue[s]).kind \in kinds
         /\ Head(queue[s]).kind \in Kinds[s] /\ Head(queue[s]).ch = s
<1> DEFINE P == [ch : {s}, kind : Kinds[s] \ {"close"}, n : Numbers]
           q == queue[s]
<1>1. q \in Seq(P) /\ q \in Seq(Packet) /\ Len(q) <= QueueCap
  BY DEF Queues
<1>2. q # <<>> /\ queue' = [queue EXCEPT ![s] = Tail(q)] /\ Head(q).kind \in kinds
  BY DEF Takes, Put
<1>3. Head(q) \in P /\ Tail(q) \in Seq(P)
  <2> HIDE DEF P, q
  <2> QED BY <1>1, <1>2
<1>4. Tail(q) \in Seq(Packet)
  BY <1>1, <1>2
<1>5. Len(Tail(q)) <= QueueCap
  <2>1. Len(Tail(q)) = Len(q) - 1 /\ Len(q) \in Nat
    BY <1>1, <1>2
  <2> QED BY <2>1, <1>1, AgentAssumption
<1>6. Queues'
  BY <1>2, <1>3, <1>4, <1>5 DEF Queues
<1>7. queue'[s] = Tail(q) /\ \A t \in Sessions : t # s => queue'[t] = queue[t]
  BY <1>2 DEF Queues
<1> QED BY <1>2, <1>3, <1>6, <1>7

LEMMA TypedSend ==
  ASSUME Typed, NEW s \in Sessions, NEW kind \in Kinds[s], Send(s, kind)
  PROVE  Typed'
<1> DEFINE m == [ch |-> s, kind |-> kind, n |-> Len(log) + 1]
<1> USE DEF Typed
<1>1. Queues' /\ Rests'
  BY DEF Send, Queues, Rests, loopVars, sizeVars, cmdVars
<1>2. kind \in AllKinds
  BY AgentAssumption
<1>3. Len(log) \in Nat /\ Len(log) + 1 \in Numbers
  BY Numeric DEF Send, Wires, Numbers
<1>4. log' \in Seq([ch : Sessions, kind : AllKinds]) /\ Len(log') <= Packets
  BY <1>2, <1>3, Numeric DEF Send, Wires, Numbers
<1>5. m \in Packet
  BY <1>2, <1>3 DEF Packet
<1>6. wire' \in Seq(Packet) /\ Entries(wire') = Entries(wire) \cup {m}
  BY <1>5, PutLast DEF Send, Wires
<1>7. Wires'
  BY <1>4, <1>6 DEF Wires
<1> QED BY <1>1, <1>7

LEMMA TypedDeliver ==
  ASSUME Typed, Deliver
  PROVE  Typed'
<1> DEFINE m == Head(wire)
<1> USE DEF Typed
<1>1. /\ wire \in Seq(Packet) /\ wire # <<>> /\ wire' = Tail(wire) /\ log' = log
      /\ \A e \in Entries(wire) : e.kind \in Kinds[e.ch]
  BY DEF Deliver, Wires
<1>2. m \in Packet /\ m \in Entries(wire)
  BY <1>1 DEF Entries
<1>3. wire' \in Seq(Packet) /\ Entries(wire') \subseteq Entries(wire)
  BY <1>1 DEF Entries
<1>4. Wires'
  BY <1>1, <1>3 DEF Wires
<1>5. m.ch \in Sessions /\ m.kind \in Kinds[m.ch] /\ m.n \in Numbers
  BY <1>1, <1>2 DEF Packet
<1>6. CASE m.kind = "close"
  <2>1. Rests'
    BY <1>5, <1>6 DEF Deliver, Rests, Put, sizeVars, cmdVars
  <2>2. Queues'
    BY <1>6 DEF Deliver, Queues
  <2> QED BY <1>4, <2>1, <2>2
<1>7. CASE m.kind # "close"
  <2> DEFINE P == [ch : {m.ch}, kind : Kinds[m.ch] \ {"close"}, n : Numbers]
             q == queue[m.ch]
  <2>1. Rests'
    BY <1>7 DEF Deliver, Rests, sizeVars, cmdVars
  <2>2. Len(q) < QueueCap /\ queue' = [queue EXCEPT ![m.ch] = Append(q, m)]
    BY <1>7 DEF Deliver, Put
  <2>3. m = [ch |-> m.ch, kind |-> m.kind, n |-> m.n]
    BY <1>2 DEF Packet
  <2>4. m \in P
    BY <2>3, <1>5, <1>7
  <2>5. q \in Seq(P) /\ q \in Seq(Packet) /\ Len(q) \in Nat
    BY <1>5 DEF Queues
  <2>6. Append(q, m) \in Seq(P) /\ Append(q, m) \in Seq(Packet)
    <3> HIDE DEF P, q, m
    <3> QED BY <2>4, <2>5, <1>2
  <2>7. Len(Append(q, m)) <= QueueCap
    BY <2>2, <2>5, AgentAssumption
  <2>8. Queues'
    BY <1>5, <2>2, <2>6, <2>7 DEF Queues
  <2> QED BY <1>4, <2>1, <2>8
<1> QED BY <1>6, <1>7

LEMMA TypedLoop ==
  ASSUME Typed, NEW s \in Sessions, LoopStep(s)
  PROVE  Typed'
<1> USE DEF Typed
<1>1. CASE HandleEnv(s)
  <2>1. Queues' /\ Head(queue[s]).n \in Numbers
    BY <1>1, QueuesTake DEF HandleEnv
  <2> QED BY <1>1, <2>1 DEF HandleEnv, Wires, Rests, Put, clientVars, sizeVars, cmdVars
<1>2. CASE HandleSize(s)
  <2>1. Queues' /\ Head(queue[s]).n \in Numbers
    BY <1>2, QueuesTake DEF HandleSize
  <2> QED BY <1>2, <2>1, Numeric DEF HandleSize, Wires, Rests, Put, clientVars, cmdVars
<1>3. CASE PublishSize(s)
  BY <1>3, Numeric DEF PublishSize, Queues, Wires, Rests, Put, clientVars, cmdVars
<1>4. CASE HandleAgent(s)
  <2>1. Queues'
    BY <1>4, QueuesTake DEF HandleAgent
  <2> QED BY <1>4, <2>1 DEF HandleAgent, Wires, Rests, clientVars, sizeVars, cmdVars
<1>5. CASE HandleStart(s)
  <2>1. Queues' /\ Head(queue[s]).n \in Numbers
    BY <1>5, QueuesTake DEF HandleStart
  <2> QED BY <1>5, <2>1 DEF HandleStart, Wires, Rests, Put, Cmds, clientVars, sizeVars
<1>6. CASE LoopEnds(s)
  BY <1>6, Numeric DEF LoopEnds, Queues, Wires, Rests, Put, clientVars, sizeVars, cmdVars
<1> QED BY <1>1, <1>2, <1>3, <1>4, <1>5, <1>6 DEF LoopStep

LEMMA TypedCommand ==
  ASSUME Typed, NEW s \in Sessions,
         CommandStep(s) \/ ApplySize(s) \/ OutputFails(s)
  PROVE  Typed'
<1> USE DEF Typed
<1>1. UNCHANGED <<log, wire, queue, open, loop, started, pty, env, conn, sock>>
  BY DEF CommandStep, TakeSnapshot, Build, Launch, OutputEnds, Wait, ClosePty, Exit,
     ApplySize,
     OutputFails, clientVars, loopVars
<1>2. Queues' /\ Wires'
  BY <1>1 DEF Queues, Wires
<1> DEFINE Snaps == [pty : BOOLEAN, env : SUBSET Numbers, sock : BOOLEAN]
<1>3. CASE TakeSnapshot(s)
  <2>1. env[s] \in SUBSET Numbers /\ TakesPty(s) \in BOOLEAN
    BY DEF TakesPty, Rests
  <2>2. [NoSnap EXCEPT !.pty = TakesPty(s), !.env = env[s]] \in Snaps
    BY <2>1 DEF NoSnap
  <2>3. snap' \in [Sessions -> Snaps]
    BY <1>3, <2>2 DEF TakeSnapshot, Put, Rests
  <2> QED BY <1>1, <1>2, <1>3, <2>3 DEF TakeSnapshot, Rests, Put, Cmds, sizeVars
<1>4. CASE Build(s)
  <2>1. snap[s] \in Snaps /\ sock \in BOOLEAN
    BY DEF Rests
  <2>2. [snap[s] EXCEPT !.sock = sock] \in Snaps
    BY <2>1
  <2>3. snap' \in [Sessions -> Snaps]
    BY <1>4, <2>2 DEF Build, Rests
  <2> QED BY <1>1, <1>2, <1>4, <2>3 DEF Build, Rests, Put, Cmds, sizeVars
<1>5. CASE Launch(s)
  BY <1>1, <1>2, <1>5 DEF Launch, Rests, Put, Cmds, sizeVars
<1>6. CASE OutputEnds(s) \/ OutputFails(s)
  BY <1>1, <1>2, <1>6 DEF OutputEnds, OutputFails, Rests, Put, Cmds, sizeVars
<1>7. CASE Wait(s)
  BY <1>1, <1>2, <1>7 DEF Wait, Rests, Put, Cmds, sizeVars
<1>8. CASE ClosePty(s)
  BY <1>1, <1>2, <1>8 DEF ClosePty, Rests, Put, Cmds, sizeVars
<1>9. CASE Exit(s)
  BY <1>1, <1>2, <1>9 DEF Exit, Rests, Put, Cmds, sizeVars
<1>10. CASE ApplySize(s)
  BY <1>1, <1>2, <1>10 DEF ApplySize, Rests, Put, cmdVars
<1> QED BY <1>3, <1>4, <1>5, <1>6, <1>7, <1>8, <1>9, <1>10 DEF CommandStep

Processes(s) ==
  \/ ChildForks(s) \/ ChildEnds(s) \/ DescendantEnds(s)
  \/ ChildWrites(s) \/ ClientReads(s)

LEMMA TypedProcesses ==
  ASSUME Typed, NEW s \in Sessions, Processes(s)
  PROVE  Typed'
BY DEF Processes, ChildForks, ChildEnds, DescendantEnds, ChildWrites, ClientReads, Typed,
   Queues, Wires, Rests, Put,
   clientVars, loopVars, sizeVars

LEMMA TypedDown ==
  ASSUME Typed, Disconnect \/ Teardown
  PROVE  Typed'
<1> USE DEF Typed
<1>1. CASE Disconnect
  <2>1. Wires'
    BY <1>1 DEF Disconnect, Wires, Entries
  <2> QED BY <1>1, <2>1 DEF Disconnect, Queues, Rests, sizeVars, cmdVars
<1>2. CASE Cancel \/ CloseAgentForward
  BY <1>2 DEF Cancel, CloseAgentForward, Queues, Wires, Rests, clientVars, loopVars,
     sizeVars,
     cmdVars
<1>3. CASE AgentExits
  BY <1>3 DEF AgentExits, Queues, Wires, Rests, clientVars, loopVars, sizeVars
<1> QED BY <1>1, <1>2, <1>3 DEF Teardown

LEMMA TypedNext ==
  ASSUME Typed, [Next]_vars
  PROVE  Typed'
<1>1. CASE UNCHANGED vars
  BY <1>1 DEF vars, clientVars, loopVars, sizeVars, cmdVars, Typed, Queues, Wires, Rests
<1>2. CASE Next
  BY <1>2, TypedSend, TypedDeliver, TypedLoop, TypedCommand, TypedProcesses, TypedDown
     DEF Next, Processes
<1> QED BY <1>1, <1>2

(* Serve's mux loop stops when a channel's request queue is full, so no      *)
(* queue outgrows its bound, and it holds only requests of that channel     *)
(* that the client is said to send; the session state has its types.        *)
THEOREM AgentTypes == Spec => []TypeOK
<1>1. Init => Typed
  BY InitTyped
<1>2. Typed /\ [Next]_vars => Typed'
  BY TypedNext
<1>3. Typed => TypeOK
  BY TypesFollow
<1> QED BY <1>1, <1>2, <1>3, PTL DEF Spec

----------------------------------------------------------------------------
(* Order.                                                                   *)

(* The packets of s are in order.                                           *)
Channel(s) ==
  /\ Genuine(queue[s]) /\ Ascending(queue[s])
  /\ \A m \in Entries(queue[s]) : m.ch = s
  /\ \A n \in Nums(queue[s]) : \A k \in Nums(wire) : n < k
  /\ \A n \in Nums(queue[s]) \cup Nums(wire) : started[s] < n
  /\ started[s] # 0 => /\ started[s] \in DOMAIN log
                       /\ log[started[s]].ch = s

LEMMA SendLogs ==
  ASSUME Typed, NEW s \in Sessions, NEW kind \in Kinds[s], Send(s, kind)
  PROVE  /\ Len(log) \in Nat /\ Len(log) + 1 \in Numbers
         /\ DOMAIN log = 1..Len(log) /\ DOMAIN log' = 1..(Len(log) + 1)
         /\ \A n \in DOMAIN log : log'[n] = log[n]
         /\ log'[Len(log) + 1] = [ch |-> s, kind |-> kind]
<1>1. kind \in AllKinds
  BY AgentAssumption
<1>2. log \in Seq([ch : Sessions, kind : AllKinds])
  BY DEF Typed, Wires
<1>3. log' = Append(log, [ch |-> s, kind |-> kind]) /\ Len(log) < Packets
  BY DEF Send
<1>4. [ch |-> s, kind |-> kind] \in [ch : Sessions, kind : AllKinds]
  BY <1>1
<1> QED BY <1>2, <1>3, <1>4, Numeric DEF Numbers

LEMMA OrderSend ==
  ASSUME Typed, InOrder, NEW s \in Sessions, NEW kind \in Kinds[s], Send(s, kind)
  PROVE  InOrder'
<1> DEFINE m == [ch |-> s, kind |-> kind, n |-> Len(log) + 1]
<1>1. /\ Len(log) \in Nat /\ Len(log) + 1 \in Numbers
      /\ DOMAIN log = 1..Len(log) /\ DOMAIN log' = 1..(Len(log) + 1)
      /\ \A n \in DOMAIN log : log'[n] = log[n]
      /\ log'[Len(log) + 1] = [ch |-> s, kind |-> kind]
  BY SendLogs
<1>2. m \in Packet /\ wire \in Seq(Packet) /\ wire' = Append(wire, m)
  BY <1>1, AgentAssumption DEF Send, Packet, Typed, Wires
<1>3. m.n = Len(log) + 1 /\ m.ch = s /\ m.kind = kind
  OBVIOUS
<1> HIDE DEF m
<1>4. /\ Entries(wire') = Entries(wire) \cup {m}
      /\ Nums(wire') = Nums(wire) \cup {m.n}
  BY <1>2, PutLast
<1>5. \A k \in Nums(wire) : k \in DOMAIN log /\ k < m.n
  BY <1>1, <1>3 DEF InOrder, Genuine, Nums
<1>6. Ascending(wire')
  BY <1>2, <1>5, PutLastAscends DEF InOrder
<1>7. ASSUME NEW q, Genuine(q)
      PROVE  \A e \in Entries(q) : /\ e.n \in DOMAIN log'
                                   /\ log'[e.n].ch = e.ch
                                   /\ log'[e.n].kind = e.kind
  BY <1>1, <1>7 DEF Genuine
<1>8. Genuine(wire)'
  BY <1>1, <1>3, <1>4, <1>7 DEF InOrder, Genuine
<1>9. UNCHANGED <<queue, started>>
  BY DEF Send, loopVars
<1>10. ASSUME NEW t \in Sessions PROVE Channel(t)'
  <2>1. Channel(t)
    BY DEF InOrder, Channel
  <2>2. Genuine(queue[t])'
    BY <2>1, <1>7, <1>9 DEF Genuine, Channel
  <2>3. \A n \in Nums(queue[t]) : n < m.n
    BY <2>1, <1>1, <1>3 DEF Channel, Genuine, Nums
  <2>4. started[t] < m.n
    <3>1. CASE started[t] = 0
      BY <3>1, <1>1, <1>3
    <3>2. CASE started[t] # 0
      BY <2>1, <3>2, <1>1, <1>3 DEF Channel
    <3> QED BY <3>1, <3>2
  <2> QED BY <2>1, <2>2, <2>3, <2>4, <1>1, <1>4, <1>9 DEF Channel
<1> QED BY <1>6, <1>8, <1>10 DEF InOrder, Channel

LEMMA OrderDeliver ==
  ASSUME Typed, InOrder, Deliver
  PROVE  InOrder'
<1> DEFINE m == Head(wire)
<1>1. /\ wire \in Seq(Packet) /\ wire # <<>> /\ wire' = Tail(wire)
      /\ UNCHANGED <<log, started>>
  BY DEF Deliver, Typed, Wires
<1>2. /\ m \in Packet /\ m \in Entries(wire) /\ m.n \in Nums(wire)
      /\ Ascending(wire') /\ Entries(wire') \subseteq Entries(wire)
      /\ Nums(wire') = Nums(wire) \ {m.n}
      /\ \A k \in Nums(wire') : m.n < k
  BY <1>1, Numeric, TakeFirst DEF InOrder
<1>3. /\ log[m.n].ch = m.ch /\ log[m.n].kind = m.kind /\ m.n \in DOMAIN log
      /\ m.ch \in Sessions /\ m.n \in Nat
  BY <1>2, Numeric DEF InOrder, Genuine, Packet
<1>4. \A t \in Sessions : t = m.ch /\ m.kind # "close" => queue'[t] = Append(queue[t], m)
  BY <1>3 DEF Deliver, Typed, Queues, Put
<1>5. \A t \in Sessions : t # m.ch \/ m.kind = "close" => queue'[t] = queue[t]
  BY <1>3 DEF Deliver, Typed, Queues, Put
<1> HIDE DEF m
<1>6. Genuine(wire)'
  BY <1>1, <1>2 DEF InOrder, Genuine
<1>7. ASSUME NEW t \in Sessions PROVE Channel(t)'
  <2>1. Channel(t)
    BY DEF InOrder, Channel
  <2>2. CASE t # m.ch \/ m.kind = "close"
    BY <2>1, <2>2, <1>1, <1>2, <1>5 DEF Channel, Genuine
  <2>3. CASE t = m.ch /\ m.kind # "close"
    <3>1. queue[t] \in Seq(Packet) /\ queue'[t] = Append(queue[t], m)
      BY <1>4, <2>3 DEF Typed, Queues
    <3>2. \A k \in Nums(queue[t]) : k < m.n
      BY <2>1, <1>2 DEF Channel
    <3>3. /\ Ascending(queue'[t])
          /\ Entries(queue'[t]) = Entries(queue[t]) \cup {m}
          /\ Nums(queue'[t]) = Nums(queue[t]) \cup {m.n}
      BY <2>1, <3>1, <3>2, <1>2, PutLast, PutLastAscends DEF Channel
    <3>4. Genuine(queue[t])'
      BY <2>1, <3>3, <1>1, <1>3 DEF Channel, Genuine
    <3> QED BY <2>1, <2>3, <3>3, <3>4, <1>1, <1>2 DEF Channel
  <2> QED BY <2>2, <2>3
<1> QED BY <1>2, <1>6, <1>7 DEF InOrder, Channel

LEMMA TakeOrdered ==
  ASSUME Typed, InOrder, NEW s \in Sessions, NEW kinds, Takes(s, kinds)
  PROVE  /\ Ascending(queue'[s]) /\ Entries(queue'[s]) \subseteq Entries(queue[s])
         /\ Nums(queue'[s]) = Nums(queue[s]) \ {Head(queue[s]).n}
         /\ \A k \in Nums(queue'[s]) : Head(queue[s]).n < k
         /\ \A t \in Sessions : t # s => queue'[t] = queue[t]
         /\ Head(queue[s]).n \in Nums(queue[s])
         /\ Head(queue[s]).n \in DOMAIN log
         /\ log[Head(queue[s]).n].ch = s
         /\ log[Head(queue[s]).n].kind = Head(queue[s]).kind
         /\ Head(queue[s]).kind \in kinds
         /\ Head(queue[s]).n \in Numbers
<1>1. queue[s] \in Seq(Packet)
  BY DEF Typed, Queues
<1>2. /\ queue[s] # <<>> /\ queue'[s] = Tail(queue[s])
      /\ \A t \in Sessions : t # s => queue'[t] = queue[t]
      /\ Head(queue[s]).kind \in kinds /\ Head(queue[s]).n \in Numbers
  BY QueuesTake DEF Typed
<1>3. Ascending(queue[s])
  BY DEF InOrder
<1>4. /\ Head(queue[s]) \in Entries(queue[s]) /\ Head(queue[s]).n \in Nums(queue[s])
      /\ Ascending(Tail(queue[s])) /\ Entries(Tail(queue[s])) \subseteq Entries(queue[s])
      /\ Nums(Tail(queue[s])) = Nums(queue[s]) \ {Head(queue[s]).n}
      /\ \A k \in Nums(Tail(queue[s])) : Head(queue[s]).n < k
  BY <1>1, <1>2, <1>3, Numeric, TakeFirst
<1> QED BY <1>2, <1>4 DEF InOrder, Genuine

LEMMA OrderTake ==
  ASSUME Typed, InOrder, NEW s \in Sessions, NEW kinds, Takes(s, kinds),
         UNCHANGED <<log, wire, started>>
  PROVE  InOrder'
<1>1. /\ Ascending(queue'[s]) /\ Entries(queue'[s]) \subseteq Entries(queue[s])
      /\ Nums(queue'[s]) \subseteq Nums(queue[s])
      /\ \A t \in Sessions : t # s => queue'[t] = queue[t]
  BY TakeOrdered
<1>2. ASSUME NEW t \in Sessions PROVE Channel(t)'
  <2>1. Channel(t)
    BY DEF InOrder, Channel
  <2> QED BY <1>1, <2>1 DEF Channel, Genuine
<1>3. Genuine(wire)' /\ Ascending(wire)'
  BY DEF InOrder, Genuine, Ascending, Entries
<1> QED BY <1>2, <1>3 DEF InOrder, Channel

LEMMA OrderStart ==
  ASSUME Typed, InOrder, NEW s \in Sessions, HandleStart(s)
  PROVE  InOrder'
<1>1. Takes(s, {"run", "sftp", "other"}) /\ UNCHANGED <<log, wire>>
  BY DEF HandleStart, clientVars
<1>2. CASE started' = started
  BY <1>1, <1>2, OrderTake
<1>3. CASE started' # started
  <2> DEFINE h == Head(queue[s])
  <2>1. started' = [started EXCEPT ![s] = h.n] /\ started[s] = 0
    BY <1>3 DEF HandleStart, Put
  <2>2. /\ Ascending(queue'[s]) /\ Entries(queue'[s]) \subseteq Entries(queue[s])
        /\ Nums(queue'[s]) = Nums(queue[s]) \ {h.n}
        /\ \A k \in Nums(queue'[s]) : h.n < k
        /\ \A t \in Sessions : t # s => queue'[t] = queue[t]
        /\ h.n \in Nums(queue[s]) /\ h.n \in DOMAIN log /\ log[h.n].ch = s
    BY <1>1, TakeOrdered
  <2> HIDE DEF h
  <2>3. started'[s] = h.n /\ \A t \in Sessions : t # s => started'[t] = started[t]
    BY <2>1 DEF Typed, Rests
  <2>4. ASSUME NEW t \in Sessions PROVE Channel(t)'
    <3>1. Channel(t)
      BY DEF InOrder, Channel
    <3>2. CASE t # s
      BY <1>1, <2>2, <2>3, <3>1, <3>2 DEF Channel, Genuine
    <3>3. CASE t = s
      BY <1>1, <2>2, <2>3, <3>1, <3>3 DEF Channel, Genuine
    <3> QED BY <3>2, <3>3
  <2>5. Genuine(wire)' /\ Ascending(wire)'
    BY <1>1 DEF InOrder, Genuine, Ascending, Entries
  <2> QED BY <2>4, <2>5 DEF InOrder, Channel
<1> QED BY <1>2, <1>3

LEMMA OrderKept ==
  ASSUME InOrder, UNCHANGED <<log, queue, started>>, wire' \in {wire, <<>>}
  PROVE  InOrder'
<1>1. CASE wire' = wire
  BY <1>1 DEF InOrder, Genuine, Ascending, Entries, Nums
<1>2. CASE wire' = <<>>
  <2>1. Entries(wire') = {} /\ Nums(wire') = {}
    BY <1>2 DEF Entries, Nums
  <2> QED BY <1>2, <2>1 DEF InOrder, Genuine, Ascending
<1> QED BY <1>1, <1>2

(* Every step but those that move a packet leaves the packets where they    *)
(* are, and only Disconnect loses some.                                     *)
Still == UNCHANGED <<log, wire, queue, started, pty, env>> /\ (conn' = "up" => conn = "up")

LEMMA Moves ==
  ASSUME [Next]_vars
  PROVE  \/ \E s \in Sessions : \/ \E kind \in Kinds[s] : Send(s, kind)
                                \/ HandleEnv(s) \/ HandleSize(s) \/ HandleAgent(s)
                                \/ HandleStart(s)
         \/ Deliver \/ Disconnect \/ Still
<1>1. CASE UNCHANGED vars
  BY <1>1 DEF vars, clientVars, loopVars, Still
<1>2. ASSUME NEW s \in Sessions, PublishSize(s) \/ LoopEnds(s)
      PROVE  Still
  BY <1>2 DEF PublishSize, LoopEnds, Still, clientVars
<1>3. ASSUME NEW s \in Sessions,
             CommandStep(s) \/ ApplySize(s) \/ OutputFails(s) \/ Processes(s)
      PROVE  Still
  BY <1>3 DEF CommandStep, TakeSnapshot, Build, Launch, OutputEnds, Wait, ClosePty, Exit,
     ApplySize, OutputFails, Processes, ChildForks, ChildEnds, DescendantEnds, ChildWrites,
     ClientReads, Still, clientVars,
     loopVars
<1>4. CASE Teardown
  BY <1>4 DEF Teardown, Cancel, CloseAgentForward, AgentExits, Still, clientVars, loopVars
<1> QED BY <1>1, <1>2, <1>3, <1>4 DEF Next, LoopStep, Processes

LEMMA OrderNext ==
  ASSUME Typed, InOrder, [Next]_vars
  PROVE  InOrder'
<1>1. ASSUME NEW s \in Sessions, HandleEnv(s) \/ HandleSize(s) \/ HandleAgent(s)
      PROVE  InOrder'
  BY <1>1, OrderTake DEF HandleEnv, HandleSize, HandleAgent, clientVars
<1>2. Disconnect \/ Still => InOrder'
  BY OrderKept DEF Disconnect, Still
<1> QED BY <1>1, <1>2, Moves, OrderSend, OrderDeliver, OrderStart

----------------------------------------------------------------------------
(* Nothing is skipped.                                                      *)

LEMMA SentWhen ==
  ASSUME Typed, NEW s \in Sessions, NEW kind \in Kinds[s], Send(s, kind),
         NEW t \in Sessions, NEW k
  PROVE  /\ Sent(t, k) \subseteq Sent(t, k)'
         /\ \A n \in Sent(t, k)' : n \in Sent(t, k) \/ n = Len(log) + 1
<1>1. PICK l \in Nat : /\ l = Len(log)
                     /\ DOMAIN log = 1..l /\ DOMAIN log' = 1..(l + 1)
                     /\ \A n \in DOMAIN log : log'[n] = log[n]
  BY SendLogs
<1>2. /\ \A n \in DOMAIN log : n \in DOMAIN log' /\ log'[n] = log[n]
      /\ \A n \in DOMAIN log' : n \in DOMAIN log \/ n = l + 1
  BY <1>1
<1> QED BY <1>1, <1>2 DEF Sent

LEMMA SkippedSend ==
  ASSUME Typed, InOrder, NothingSkipped, InOrder', NEW s \in Sessions,
         NEW kind \in Kinds[s], Send(s, kind)
  PROVE  NothingSkipped'
<1> DEFINE l == Len(log) + 1
<1>1. l \in Numbers
  BY SendLogs
<1>2. UNCHANGED <<queue, started, pty, env, conn>>
  BY DEF Send, loopVars
<1>3. Nums(wire) \subseteq Nums(wire') /\ l \in Nums(wire')
  <2> DEFINE m == [ch |-> s, kind |-> kind, n |-> l]
  <2>1. m \in Packet /\ wire \in Seq(Packet) /\ wire' = Append(wire, m) /\ m.n = l
    BY <1>1, AgentAssumption DEF Send, Packet, Typed, Wires
  <2> HIDE DEF m, l
  <2> QED BY <2>1, PutLast
<1> HIDE DEF l
<1>4. ASSUME NEW t \in Sessions, NEW n, Ahead(t, n) \/ n = l
      PROVE  Ahead(t, n)'
  <2>1. CASE Ahead(t, n)
    BY <2>1, <1>2, <1>3 DEF Ahead
  <2>2. CASE n = l
    <3>1. n \in Nums(wire')
      BY <2>2, <1>3
    <3> QED BY <3>1 DEF Ahead, InOrder
  <2> QED BY <1>4, <2>1, <2>2
<1>5. ASSUME NEW t \in Sessions
      PROVE  /\ \A n \in Sent(t, "env")' : n \in env'[t] \/ Ahead(t, n)'
             /\ \A n \in Sent(t, "pty")' : pty'[t] \/ Ahead(t, n)'
             /\ pty'[t] => Sent(t, "pty")' # {}
  <2>1. \A k : /\ Sent(t, k) \subseteq Sent(t, k)'
               /\ \A n \in Sent(t, k)' : n \in Sent(t, k) \/ n = l
    BY SentWhen DEF l
  <2> QED BY <2>1, <1>2, <1>4 DEF NothingSkipped
<1> QED BY <1>5 DEF NothingSkipped

LEMMA SkippedDeliver ==
  ASSUME Typed, InOrder, NothingSkipped, InOrder', Deliver
  PROVE  NothingSkipped'
<1> DEFINE m == Head(wire)
<1>1. /\ wire \in Seq(Packet) /\ wire # <<>> /\ wire' = Tail(wire)
      /\ UNCHANGED <<log, started, pty, env, conn>> /\ conn = "up"
  BY DEF Deliver, Typed, Wires
<1>2. /\ m \in Packet /\ m \in Entries(wire) /\ Nums(wire') = Nums(wire) \ {m.n}
  BY <1>1, Numeric, TakeFirst DEF InOrder
<1>3. log[m.n].ch = m.ch /\ log[m.n].kind = m.kind /\ m.ch \in Sessions
  BY <1>2 DEF InOrder, Genuine, Packet
<1>4. \A t \in Sessions : t = m.ch /\ m.kind # "close" => queue'[t] = Append(queue[t], m)
  BY <1>3 DEF Deliver, Typed, Queues, Put
<1>5. \A t \in Sessions : t # m.ch \/ m.kind = "close" => queue'[t] = queue[t]
  BY <1>3 DEF Deliver, Typed, Queues, Put
<1> HIDE DEF m
<1>6. ASSUME NEW t \in Sessions
      PROVE  /\ Nums(queue[t]) \subseteq Nums(queue'[t])
             /\ t = m.ch /\ m.kind # "close" => m.n \in Nums(queue'[t])
  <2>1. CASE t # m.ch \/ m.kind = "close"
    BY <2>1, <1>5
  <2>2. CASE t = m.ch /\ m.kind # "close"
    <3>1. queue[t] \in Seq(Packet)
      BY DEF Typed, Queues
    <3>2. queue'[t] = Append(queue[t], m)
      BY <2>2, <1>4
    <3>3. Nums(Append(queue[t], m)) = Nums(queue[t]) \cup {m.n}
      BY <3>1, <1>2, PutLast
    <3> QED BY <3>2, <3>3
  <2> QED BY <2>1, <2>2
<1>7. ASSUME NEW t \in Sessions, NEW k \in {"env", "pty"}, NEW n \in Sent(t, k), Ahead(t, n)
      PROVE  Ahead(t, n)'
  <2>1. CASE n \in Nums(queue[t])
    BY <2>1, <1>6 DEF Ahead
  <2>2. CASE n = m.n
    BY <2>2, <1>3, <1>6 DEF Ahead, Sent
  <2>3. CASE n \in Nums(wire) /\ n # m.n
    BY <2>3, <1>2 DEF Ahead, InOrder
  <2> QED BY <1>7, <1>1, <2>1, <2>2, <2>3 DEF Ahead
<1>8. \A t, k : Sent(t, k)' = Sent(t, k)
  BY <1>1 DEF Sent
<1>9. ASSUME NEW t \in Sessions
      PROVE  /\ \A n \in Sent(t, "env")' : n \in env'[t] \/ Ahead(t, n)'
             /\ \A n \in Sent(t, "pty")' : pty'[t] \/ Ahead(t, n)'
             /\ pty'[t] => Sent(t, "pty")' # {}
  BY <1>1, <1>7, <1>8 DEF NothingSkipped
<1> QED BY <1>9 DEF NothingSkipped

(* Taking the packet h leaves the others ahead, whether it claims the slot  *)
(* or not.                                                                  *)
LEMMA TakeAhead ==
  ASSUME Typed, InOrder, NEW s \in Sessions, NEW kinds, Takes(s, kinds),
         UNCHANGED <<wire, conn>>,

         \A t \in Sessions : started'[t] = started[t] \/ (t = s /\ started'[t] = Head(queue[s]).n),
         NEW t \in Sessions, NEW n, Ahead(t, n), ~(t = s /\ n = Head(queue[s]).n)
  PROVE  Ahead(t, n)'
<1>1. /\ Nums(queue'[s]) = Nums(queue[s]) \ {Head(queue[s]).n}
      /\ \A r \in Sessions : r # s => queue'[r] = queue[r]
      /\ Head(queue[s]).n \in Nums(queue[s])
  BY TakeOrdered
<1>2. CASE n \in Nums(queue[t])
  BY <1>1, <1>2 DEF Ahead
<1>3. CASE n \notin Nums(queue[t])
  BY <1>1, <1>3 DEF Ahead
<1> QED BY <1>2, <1>3

LEMMA SkippedTake ==
  ASSUME Typed, InOrder, NothingSkipped, NEW s \in Sessions,
         HandleEnv(s) \/ HandleSize(s) \/ HandleAgent(s) \/ HandleStart(s)
  PROVE  NothingSkipped'
<1> DEFINE h == Head(queue[s])
<1>1. PICK kinds : /\ Takes(s, kinds)
                   /\ "env" \in kinds => HandleEnv(s)
                   /\ "pty" \in kinds => HandleSize(s)
  <2>1. \E kinds \in {{"env"}, {"pty", "window"}, {"agent"}, {"run", "sftp", "other"}} :
          /\ Takes(s, kinds)
          /\ kinds = {"env"} => HandleEnv(s)
          /\ kinds = {"pty", "window"} => HandleSize(s)
    BY DEF HandleEnv, HandleSize, HandleAgent, HandleStart
  <2> QED BY <2>1
<1>2. UNCHANGED <<log, wire, conn>>
  BY DEF HandleEnv, HandleSize, HandleAgent, HandleStart, clientVars
<1>3. \A t \in Sessions : started'[t] = started[t] \/ (t = s /\ started'[t] = h.n)
  BY DEF HandleEnv, HandleSize, HandleAgent, HandleStart, Put, Typed, Rests
<1>4. /\ log[h.n].ch = s /\ log[h.n].kind = h.kind /\ h.n \in DOMAIN log /\ h.kind \in kinds
  BY <1>1, TakeOrdered
<1>5. /\ h.kind = "env" => env'[s] = env[s] \cup {h.n}
      /\ h.kind = "pty" => pty'[s] = TRUE
  BY <1>1, <1>4 DEF HandleEnv, HandleSize, Put, Typed, Rests
<1>6. \A t \in Sessions : /\ env[t] \subseteq env'[t]
                          /\ pty[t] => pty'[t]
                          /\ pty'[t] => pty[t] \/ (t = s /\ h.kind = "pty")
  BY DEF HandleEnv, HandleSize, HandleAgent, HandleStart, Put, Typed, Rests
<1> HIDE DEF h
<1>7. ASSUME NEW t \in Sessions, NEW n, Ahead(t, n), ~(t = s /\ n = h.n)
      PROVE  Ahead(t, n)'
  BY <1>1, <1>2, <1>3, <1>7, TakeAhead DEF h
<1>8. \A t, k : Sent(t, k)' = Sent(t, k)
  BY <1>2 DEF Sent
<1>9. ASSUME NEW t \in Sessions
      PROVE  /\ \A n \in Sent(t, "env")' : n \in env'[t] \/ Ahead(t, n)'
             /\ \A n \in Sent(t, "pty")' : pty'[t] \/ Ahead(t, n)'
             /\ pty'[t] => Sent(t, "pty")' # {}
  <2>1. ASSUME NEW n \in Sent(t, "env") PROVE n \in env'[t] \/ Ahead(t, n)'
    <3>1. CASE t = s /\ n = h.n
      BY <3>1, <1>4, <1>5 DEF Sent
    <3>2. CASE ~(t = s /\ n = h.n)
      BY <3>2, <1>6, <1>7 DEF NothingSkipped
    <3> QED BY <3>1, <3>2
  <2>2. ASSUME NEW n \in Sent(t, "pty") PROVE pty'[t] \/ Ahead(t, n)'
    <3>1. CASE t = s /\ n = h.n
      BY <3>1, <1>4, <1>5 DEF Sent
    <3>2. CASE ~(t = s /\ n = h.n)
      BY <3>2, <1>6, <1>7 DEF NothingSkipped
    <3> QED BY <3>1, <3>2
  <2>3. pty'[t] => Sent(t, "pty") # {}
    BY <1>4, <1>6 DEF Sent, NothingSkipped
  <2> QED BY <2>1, <2>2, <2>3, <1>8
<1> QED BY <1>9 DEF NothingSkipped

LEMMA SkippedKept ==
  ASSUME NothingSkipped, Disconnect \/ Still
  PROVE  NothingSkipped'
<1>1. UNCHANGED <<log, queue, started, pty, env>>
  BY DEF Disconnect, Still
<1>2. conn' = "up" => wire' = wire /\ conn = "up"
  BY DEF Disconnect, Still
<1>3. \A t, k : Sent(t, k)' = Sent(t, k)
  BY <1>1 DEF Sent
<1>4. ASSUME NEW t \in Sessions, NEW n, Ahead(t, n) PROVE Ahead(t, n)'
  BY <1>1, <1>2, <1>4 DEF Ahead
<1>5. ASSUME NEW t \in Sessions
      PROVE  /\ \A n \in Sent(t, "env")' : n \in env'[t] \/ Ahead(t, n)'
             /\ \A n \in Sent(t, "pty")' : pty'[t] \/ Ahead(t, n)'
             /\ pty'[t] => Sent(t, "pty")' # {}
  BY <1>1, <1>3, <1>4 DEF NothingSkipped
<1> QED BY <1>5 DEF NothingSkipped

LEMMA SkippedNext ==
  ASSUME Typed, InOrder, NothingSkipped, InOrder', [Next]_vars
  PROVE  NothingSkipped'
BY Moves, SkippedSend, SkippedDeliver, SkippedTake, SkippedKept

----------------------------------------------------------------------------
(* The command.                                                             *)

LEMMA CommandNext ==
  ASSUME Typed, OneCommand, [Next]_vars
  PROVE  OneCommand'
<1> USE DEF OneCommand
<1>1. CASE UNCHANGED vars
  BY <1>1 DEF vars, loopVars, cmdVars
<1>2. ASSUME NEW s \in Sessions, NEW kind \in Kinds[s], Send(s, kind) PROVE OneCommand'
  BY <1>2 DEF Send, loopVars, cmdVars
<1>3. CASE Deliver \/ Disconnect \/ Cancel \/ CloseAgentForward
  BY <1>3 DEF Deliver, Disconnect, Cancel, CloseAgentForward, loopVars, cmdVars
<1>4. CASE AgentExits
  BY <1>4 DEF AgentExits, loopVars
<1>5. ASSUME NEW s \in Sessions, LoopStep(s) PROVE OneCommand'

  <2>1. CASE HandleEnv(s) \/ HandleSize(s) \/ PublishSize(s) \/ HandleAgent(s) \/ LoopEnds(s)
    BY <2>1 DEF HandleEnv, HandleSize, PublishSize, HandleAgent, LoopEnds, cmdVars
  <2>2. CASE HandleStart(s) /\ started' = started
    <3>1. CASE cmd' = cmd
      BY <2>2, <3>1 DEF HandleStart
    <3>2. CASE cmd' # cmd
      <4>1. started[s] = 0 /\ started' = [started EXCEPT ![s] = Head(queue[s]).n]
        BY <2>2, <3>2 DEF HandleStart, Put
      <4>2. Head(queue[s]).n \in Numbers
        BY <2>2, QueuesTake DEF HandleStart, Typed
      <4> QED BY <2>2, <4>1, <4>2, Numeric DEF Typed, Rests
    <3> QED BY <3>1, <3>2
  <2>3. CASE HandleStart(s) /\ started' # started
    <3>1. /\ started' = [started EXCEPT ![s] = Head(queue[s]).n]
          /\ cmd' = [cmd EXCEPT ![s] = "snapshot"]
          /\ started[s] = 0 /\ UNCHANGED <<child, status>>
      BY <2>3 DEF HandleStart, Put
    <3>2. Head(queue[s]).n # 0
      BY <2>3, QueuesTake, Numeric DEF HandleStart, Typed
    <3> HIDE DEF OneCommand
    <3>3. cmd[s] = "none" /\ status[s] = 0 /\ child[s] = "none"
      BY <3>1 DEF OneCommand
    <3> QED BY <3>1, <3>2, <3>3 DEF OneCommand, Typed, Rests
  <2> QED BY <1>5, <2>1, <2>2, <2>3 DEF LoopStep
<1>6. ASSUME NEW s \in Sessions, CommandStep(s) \/ OutputFails(s) PROVE OneCommand'
  <2>1. UNCHANGED started
    BY <1>6 DEF CommandStep, TakeSnapshot, Build, Launch, OutputEnds, Wait, ClosePty, Exit,
       OutputFails, loopVars
  <2>2. CASE TakeSnapshot(s) \/ Build(s)
    BY <2>1, <2>2 DEF TakeSnapshot, Build, Put, Typed, Rests
  <2>3. CASE Launch(s)
    BY <2>1, <2>3 DEF Launch, Put, Typed, Rests
  <2>4. CASE OutputEnds(s) \/ OutputFails(s) \/ Wait(s)
    BY <2>1, <2>4 DEF OutputEnds, OutputFails, Wait, Put, Typed, Rests
  <2>5. CASE ClosePty(s) \/ Exit(s)
    BY <2>1, <2>5 DEF ClosePty, Exit, Put, Typed, Rests
  <2> QED BY <1>6, <2>2, <2>3, <2>4, <2>5 DEF CommandStep
<1>7. ASSUME NEW s \in Sessions, ApplySize(s) PROVE OneCommand'
  BY <1>7 DEF ApplySize, loopVars, cmdVars
<1>8. ASSUME NEW s \in Sessions, Processes(s) PROVE OneCommand'
  BY <1>8 DEF Processes, ChildForks, ChildEnds, DescendantEnds, ChildWrites, ClientReads,
     loopVars, Put, Typed, Rests
<1> QED BY <1>1, <1>2, <1>3, <1>4, <1>5, <1>6, <1>7, <1>8 DEF Next, Teardown, Processes

(* What the command is built from stays, but for the address of the socket. *)
LEMMA BuiltFrom ==
  ASSUME Typed, [Next]_vars, NEW s \in Sessions
  PROVE  \/ /\ snap'[s].pty = snap[s].pty /\ snap'[s].env = snap[s].env
            /\ cmd'[s] \notin {"none", "snapshot"} => cmd[s] \notin {"none", "snapshot"}
         \/ TakeSnapshot(s)
<1> DEFINE Same == /\ snap'[s].pty = snap[s].pty /\ snap'[s].env = snap[s].env
                   /\ cmd'[s] \notin {"none", "snapshot"} =>
                        cmd[s] \notin {"none", "snapshot"}
<1>1. CASE UNCHANGED vars
  BY <1>1 DEF vars, cmdVars
<1>2. CASE Deliver \/ Disconnect \/ Teardown
  BY <1>2 DEF Deliver, Disconnect, Teardown, Cancel, CloseAgentForward, AgentExits, cmdVars
<1>3. ASSUME NEW t \in Sessions, NEW kind \in Kinds[t], Send(t, kind) PROVE Same
  BY <1>3 DEF Send, cmdVars
<1>4. ASSUME NEW t \in Sessions, LoopStep(t) PROVE Same
  BY <1>4 DEF LoopStep, HandleEnv, HandleSize, PublishSize, HandleAgent, HandleStart,
     LoopEnds,
     cmdVars, Put, Typed, Rests
<1>5. ASSUME NEW t \in Sessions, TakeSnapshot(t) PROVE Same \/ t = s
  BY <1>5 DEF TakeSnapshot, Put, Typed, Rests
<1>6. ASSUME NEW t \in Sessions, Build(t) PROVE Same
  <2>1. snap' = snap \/ snap' = [snap EXCEPT ![t].sock = sock]
    BY <1>6 DEF Build
  <2>2. snap'[s].pty = snap[s].pty /\ snap'[s].env = snap[s].env
    BY <2>1 DEF Typed, Rests
  <2> QED BY <1>6, <2>2 DEF Build, Put, Typed, Rests
<1>7. ASSUME NEW t \in Sessions,

             Launch(t) \/ OutputEnds(t) \/ OutputFails(t) \/ Wait(t) \/ ClosePty(t) \/ Exit(t)
      PROVE  Same
  BY <1>7 DEF Launch, OutputEnds, OutputFails, Wait, ClosePty, Exit, Put, Typed, Rests
<1>8. ASSUME NEW t \in Sessions, ApplySize(t) \/ Processes(t) PROVE Same
  BY <1>8 DEF ApplySize, Processes, ChildForks, ChildEnds, DescendantEnds, ChildWrites,
     ClientReads, cmdVars
<1> QED BY <1>1, <1>2, <1>3, <1>4, <1>5, <1>6, <1>7, <1>8
        DEF Next, CommandStep, Processes

(* Once the command slot is claimed, neither the packet that claimed it nor *)
(* what was sent before it changes.                                         *)
LEMMA EarlierStays ==
  ASSUME Typed, InOrder, OneCommand, [Next]_vars,
         NEW s \in Sessions, cmd[s] # "none"
  PROVE  /\ started'[s] = started[s] /\ log'[started[s]] = log[started[s]]
         /\ \A k : Earlier(s, k)' = Earlier(s, k) /\ Sent(s, k) \subseteq Sent(s, k)'
<1>1. started[s] # 0 /\ started[s] \in DOMAIN log
  BY DEF OneCommand, InOrder
<1>2. started'[s] = started[s]
  <2>1. ASSUME NEW t \in Sessions,
               HandleEnv(t) \/ HandleSize(t) \/ HandleAgent(t) \/ HandleStart(t)
        PROVE  started'[s] = started[s]
    BY <1>1, <2>1 DEF HandleEnv, HandleSize, HandleAgent, HandleStart, Put, Typed, Rests
  <2>2. ASSUME NEW t \in Sessions, NEW kind \in Kinds[t], Send(t, kind)
        PROVE  started'[s] = started[s]
    BY <2>2 DEF Send, loopVars
  <2>3. Deliver \/ Disconnect \/ Still => started' = started
    BY DEF Deliver, Disconnect, Still
  <2> QED BY <2>1, <2>2, <2>3, Moves
<1>3. CASE log' = log
  BY <1>1, <1>2, <1>3 DEF Earlier, Sent
<1>4. ASSUME NEW t \in Sessions, NEW kind \in Kinds[t], Send(t, kind)
      PROVE  /\ log'[started[s]] = log[started[s]]
             /\ \A k : Earlier(s, k)' = Earlier(s, k) /\ Sent(s, k) \subseteq Sent(s, k)'
  <2>1. PICK l \in Nat : /\ l = Len(log)
                         /\ DOMAIN log = 1..l /\ DOMAIN log' = 1..(l + 1)
                         /\ \A n \in DOMAIN log : log'[n] = log[n]
    BY <1>4, SendLogs
  <2>2. \A k : /\ Sent(s, k) \subseteq Sent(s, k)'
               /\ \A n \in Sent(s, k)' : n \in Sent(s, k) \/ n = l + 1
    BY <1>4, <2>1, SentWhen
  <2>3. ~(l + 1 < started[s])
    BY <1>1, <2>1
  <2> QED BY <1>1, <1>2, <2>1, <2>2, <2>3 DEF Earlier
<1>5. log' = log \/ \E t \in Sessions : \E kind \in Kinds[t] : Send(t, kind)
  BY Moves DEF HandleEnv, HandleSize, HandleAgent, HandleStart, Deliver, Disconnect, Still,
     clientVars
<1> QED BY <1>2, <1>3, <1>4, <1>5

LEMMA EarlierNext ==
  ASSUME Typed, InOrder, NothingSkipped, OneCommand, EarlierRequestsCount, [Next]_vars
  PROVE  EarlierRequestsCount'
<1> SUFFICES ASSUME NEW s \in Sessions, cmd'[s] \notin {"none", "snapshot"}
             PROVE  /\ Earlier(s, "env")' \subseteq snap'[s].env
                    /\ log'[started'[s]].kind = "run" /\ Earlier(s, "pty")' # {}
                         => snap'[s].pty
                    /\ snap'[s].pty => Sent(s, "pty")' # {}
  BY DEF EarlierRequestsCount
<1>1. CASE TakeSnapshot(s)
  <2>1. cmd[s] = "snapshot"
    BY <1>1 DEF TakeSnapshot
  <2>2. /\ started'[s] = started[s] /\ log'[started[s]] = log[started[s]]
        /\ \A k : Earlier(s, k)' = Earlier(s, k) /\ Sent(s, k) \subseteq Sent(s, k)'
    BY <2>1, EarlierStays
  <2>3. snap'[s].pty = TakesPty(s) /\ snap'[s].env = env[s]
    BY <1>1 DEF TakeSnapshot, Put, Typed, Rests, NoSnap
  <2>4. ASSUME NEW n, n < started[s], n \in Nat PROVE ~Ahead(s, n)
    <3>1. started[s] \in Nat
      <4>1. started \in [Sessions -> Numbers \cup {0}]
        BY DEF Typed, Rests
      <4>2. started[s] \in Numbers \cup {0}
        BY <4>1
      <4>3. \A k \in Numbers : k \in Nat
        BY DEF Numbers
      <4> QED BY <4>2, <4>3
    <3>2. n \in Nums(queue[s]) => started[s] < n
      BY DEF InOrder
    <3> QED BY <2>4, <3>1, <3>2 DEF Ahead
  <2>5. \A k : \A n \in Earlier(s, k) : n \in Sent(s, k) /\ n < started[s] /\ n \in Nat
    BY DEF Earlier, Sent, Typed, Wires
  <2>6. Earlier(s, "env") \subseteq env[s]
    BY <2>4, <2>5 DEF NothingSkipped
  <2>7. Earlier(s, "pty") # {} => pty[s]
    BY <2>4, <2>5 DEF NothingSkipped
  <2>8. pty[s] => Sent(s, "pty") # {}
    BY DEF NothingSkipped
  <2> QED BY <2>2, <2>3, <2>6, <2>7, <2>8 DEF TakesPty
<1>2. CASE ~TakeSnapshot(s)
  <2>1. /\ snap'[s].pty = snap[s].pty /\ snap'[s].env = snap[s].env
        /\ cmd[s] \notin {"none", "snapshot"}
    BY <1>2, BuiltFrom
  <2>2. /\ started'[s] = started[s] /\ log'[started[s]] = log[started[s]]
        /\ \A k : Earlier(s, k)' = Earlier(s, k) /\ Sent(s, k) \subseteq Sent(s, k)'
    BY <2>1, EarlierStays
  <2> QED BY <2>1, <2>2 DEF EarlierRequestsCount
<1> QED BY <1>1, <1>2

LEMMA SocketNext ==
  ASSUME Typed, AgentOutlivesSession, [Next]_vars
  PROVE  AgentOutlivesSession'
<1> SUFFICES ASSUME NEW s \in Sessions, snap'[s].sock, conn' = "up"
             PROVE  sock'
  BY DEF AgentOutlivesSession
<1>1. conn = "up"
  BY DEF Next, Send, Deliver, LoopStep, HandleEnv, HandleSize, PublishSize, HandleAgent,
     HandleStart, LoopEnds, CommandStep, TakeSnapshot, Build, Launch, OutputEnds,
     OutputFails,
     Wait, ClosePty, Exit, ApplySize, ChildForks, ChildEnds, DescendantEnds, ChildWrites,
     ClientReads, Disconnect,
     Teardown, Cancel, CloseAgentForward, AgentExits, vars
<1>3. sock => sock'
  <2>1. sock' = sock \/ \E t \in Sessions : HandleAgent(t)
    BY DEF Next, Send, Deliver, LoopStep, HandleEnv, HandleSize, PublishSize, HandleStart,
       LoopEnds, CommandStep, TakeSnapshot, Build, Launch, OutputEnds, OutputFails, Wait,
       ClosePty, Exit, ApplySize, ChildForks, ChildEnds, DescendantEnds, ChildWrites,
       ClientReads, Disconnect, Teardown,
       Cancel, CloseAgentForward, AgentExits, vars
  <2>2. ASSUME NEW t \in Sessions, HandleAgent(t) PROVE sock => sock'
    <3>1. sock' = TRUE \/ sock' = sock
      BY <2>2 DEF HandleAgent
    <3> QED BY <3>1
  <2> QED BY <2>1, <2>2
<1>2. snap[s].sock \/ sock
  <2>1. CASE snap' = snap
    BY <2>1
  <2>2. ASSUME NEW t \in Sessions, TakeSnapshot(t) PROVE snap[s].sock
    BY <2>2 DEF TakeSnapshot, Put, NoSnap, Typed, Rests
  <2>3. ASSUME NEW t \in Sessions, Build(t) PROVE snap[s].sock \/ sock
    BY <2>3 DEF Build, Typed, Rests
  <2>4. snap' = snap \/ \E t \in Sessions : TakeSnapshot(t) \/ Build(t)
    BY DEF Next, Send, Deliver, LoopStep, HandleEnv, HandleSize, PublishSize, HandleAgent,
       HandleStart, LoopEnds, CommandStep, Launch, OutputEnds, OutputFails, Wait, ClosePty,
       Exit, ApplySize, ChildForks, ChildEnds, DescendantEnds, ChildWrites, ClientReads,
       Disconnect, Teardown, Cancel,
       CloseAgentForward, AgentExits, vars, cmdVars
  <2> QED BY <2>1, <2>2, <2>3, <2>4
<1> QED BY <1>1, <1>2, <1>3 DEF AgentOutlivesSession

----------------------------------------------------------------------------
(* The results.                                                             *)

LEMMA InitConn == Init => ConnInv
<1> SUFFICES ASSUME Init PROVE ConnInv
  OBVIOUS
<1>1. Typed
  BY InitTyped
<1>2. Entries(<<>>) = {} /\ Nums(<<>>) = {} /\ DOMAIN log = {}
  BY DEF Entries, Nums, Init
<1>3. InOrder /\ NothingSkipped
  BY <1>2 DEF Init, InOrder, NothingSkipped, Genuine, Ascending, Sent
<1>4. OneCommand /\ EarlierRequestsCount /\ AgentOutlivesSession
  BY DEF Init, OneCommand, EarlierRequestsCount, AgentOutlivesSession, NoSnap
<1> QED BY <1>1, <1>3, <1>4 DEF ConnInv

LEMMA ConnNext == ConnInv /\ [Next]_vars => ConnInv'
<1> SUFFICES ASSUME ConnInv, [Next]_vars PROVE ConnInv'
  OBVIOUS
<1>1. Typed' /\ InOrder'
  BY TypedNext, OrderNext DEF ConnInv
<1>2. NothingSkipped' /\ OneCommand'
  BY <1>1, SkippedNext, CommandNext DEF ConnInv
<1>3. EarlierRequestsCount' /\ AgentOutlivesSession'
  BY EarlierNext, SocketNext DEF ConnInv
<1> QED BY <1>1, <1>2, <1>3 DEF ConnInv

LEMMA ConnHolds == Spec => []ConnInv
BY InitConn, ConnNext, PTL DEF Spec

(* The command goroutine builds its command from session state that the     *)
(* request loop keeps changing (session.go, handleSession and start); still *)
(* every env and pty-req that the client sent before the shell, exec or     *)
(* sftp request is in what it starts with, and no pty that nobody asked     *)
(* for, whatever the client sends afterwards and however slow the goroutine *)
(* is.                                                                      *)
THEOREM EarlierRequestsHonoured == Spec => []EarlierRequestsCount
<1>1. ConnInv => EarlierRequestsCount
  BY DEF ConnInv
<1> QED BY <1>1, ConnHolds, PTL

(* spawn lets one goroutine of a session run a command, and that goroutine  *)
(* sends one exit-status, after the command's process has ended.            *)
THEOREM EndReportedOnce == Spec => []ExitStatusOnce
<1>1. ConnInv => ExitStatusOnce
  BY DEF ConnInv, OneCommand, ExitStatusOnce
<1> QED BY <1>1, ConnHolds, PTL

(* The connection's ssh-agent socket (agentfwd.go) is there as long as the  *)
(* connection is, for every session that was given its path, though the     *)
(* session that asked for it may be long gone.                              *)
THEOREM SocketOutlivesSessions == Spec => []AgentOutlivesSession
<1>1. ConnInv => AgentOutlivesSession
  BY DEF ConnInv
<1> QED BY <1>1, ConnHolds, PTL

=============================================================================
