------------------------ MODULE RemoteForwardsProofs ------------------------
(***************************************************************************)
(* What holds of a connection's remote forwards for any number of          *)
(* requests, addresses, ports and connections.                             *)
(***************************************************************************)
EXTENDS RemoteForwards, TLAPS

(* The requests taken up, and the one at work.                              *)
InOrder ==
  /\ Len(asked) <= Requests
  /\ \A n \in bound : n \in 1..handled /\ bindPort[n] \in Ports
  /\ at # "idle" => target = handled /\ handled # 0

(* Two open listeners never have one key.                                   *)
Distinct == \A n, m \in bound : Key(n) = Key(m) => n = m

(* What is tracked is open, under the port that it bound.                   *)
TrackedOpen == \A k \in Keys : ln[k] # 0 => ln[k] \in bound /\ Key(ln[k]) = k

(* A listener that the handler is still working on is not tracked yet.      *)
Working ==
  at \in {"reply", "register"} => target \in bound /\ \A k \in Keys : ln[k] # target

(* What a cancel was for is closed before it is answered.                   *)
Closing ==
  at = "close" => \A n \in bound : Key(n) # <<asked[target].addr, asked[target].port>>

Listeners ==
  InOrder /\ Distinct /\ TrackedOpen /\ Working /\ EveryListenerTracked /\ Closing

Said(kind, n) == \E i \in DOMAIN sent : sent[i] = [kind |-> kind, n |-> n]

(* Nothing is said of a request yet to come, and nothing is accepted before *)
(* the forward was granted.                                                 *)
Told ==
  /\ \A i \in DOMAIN sent : sent[i].n \in 1..handled
  /\ at = "register" => Said("granted", target)
  /\ \A n \in accepting : Said("granted", n)
  /\ \A c \in Conns : tcp[c].is = "accepted" => Said("granted", tcp[c].ln)

(* How many requests were answered: all those taken up, unless the handler  *)
(* is yet to answer the last.                                               *)
Answers == IF at \in {"reply", "close"} THEN handled - 1 ELSE handled

(* The answers are those to the first requests, and the request at work is  *)
(* of the kind that its answer will be for.                                 *)
Replied ==
  /\ \A i \in DOMAIN sent : IsAnswer(i) => sent[i].n <= Answers
  /\ \A n \in Numbers : n <= Answers => Answered(n)
  /\ at = "reply" => asked[target].kind = "forward"
  /\ at = "close" => asked[target].kind = "cancel"
  /\ AnswersInOrder

Inv == TypeOK /\ Listeners /\ Told /\ Replied /\ CancelReleases /\ OpenAnnounced

----------------------------------------------------------------------------
LEMMA NumbersFacts ==
  /\ Requests \in Nat /\ 0 \notin Numbers
  /\ \A n \in Numbers : n \in Nat /\ n # 0
BY ForwardAssumption DEF Numbers

LEMMA InitInv == Init => Inv
BY ForwardAssumption DEF Init, Inv, TypeOK, Listeners, InOrder, Distinct, TrackedOpen, Working,
   EveryListenerTracked, Closing, Told, CancelReleases, OpenAnnounced, Position, Replied, Answers,
   AnswersInOrder, IsAnswer, Answered, Numbers

Conn == [is : {"none", "queued", "accepted", "opened", "reset"}, ln : Numbers \cup {0}]

LEMMA ConnMoves ==
  ASSUME TypeOK, NEW c \in Conns, NEW s \in {"accepted", "opened", "reset"},
         tcp' = [tcp EXCEPT ![c].is = s]
  PROVE  /\ tcp' \in [Conns -> Conn] /\ tcp'[c].is = s /\ tcp'[c].ln = tcp[c].ln
         /\ \A d \in Conns : d # c => tcp'[d] = tcp[d]
<1>1. tcp \in [Conns -> Conn]
  BY DEF TypeOK, Conn
<1>2. tcp' = [tcp EXCEPT ![c] = [tcp[c] EXCEPT !.is = s]]
  OBVIOUS
<1>3. [tcp[c] EXCEPT !.is = s] \in Conn
  BY <1>1 DEF Conn
<1> QED
  BY <1>1, <1>2, <1>3 DEF Conn

LEMMA TypeStep ==
  ASSUME Inv, [Next]_vars
  PROVE  TypeOK'
<1> USE NumbersFacts DEF Inv
<1>1. ASSUME NEW kind \in {"forward", "cancel"}, NEW addr \in Addrs, NEW port \in Ports \cup {0},
             Ask(kind, addr, port)
      PROVE  TypeOK'
  BY <1>1 DEF Ask, TypeOK
<1>2. ASSUME NEW kind \in {"forward", "cancel"}, Takes(kind)
      PROVE  /\ handled' \in 0..Len(asked) /\ target' \in Numbers /\ handled + 1 \in Numbers
             /\ handled + 1 \in DOMAIN asked
  <2>1. handled \in Nat /\ handled < Len(asked) /\ Len(asked) \in Nat /\ Len(asked) <= Requests
    BY <1>2 DEF Takes, TypeOK, Listeners, InOrder
  <2> QED
    BY <1>2, <2>1 DEF Takes, TypeOK, Numbers
<1>3. ASSUME NEW port \in Ports, Listen(port)
      PROVE  TypeOK'
  BY <1>2, <1>3 DEF Listen, TypeOK, Takes
<1>4. CASE ListenFails
  BY <1>2, <1>4 DEF ListenFails, TypeOK, Tell, Takes
<1>5. at # "idle" => target \in Numbers
  BY DEF TypeOK, Listeners, InOrder, Numbers
<1>6. CASE ReplyGranted
  BY <1>5, <1>6 DEF ReplyGranted, Tell, TypeOK
<1>7. CASE Register
  BY <1>5, <1>7 DEF Register, TypeOK
<1>8. CASE Cancel
  BY <1>2, <1>8 DEF Cancel, TypeOK, Takes
<1>9. CASE ReplyCancelled
  BY <1>5, <1>9 DEF ReplyCancelled, Tell, TypeOK
<1>10. ASSUME NEW c \in Conns, NEW n \in Numbers, Connect(c, n)
       PROVE  TypeOK'
  BY <1>10 DEF Connect, TypeOK
<1>11. ASSUME NEW c \in Conns, Accept(c) \/ Reset(c)
       PROVE  TypeOK'
  <2>1. tcp' \in [Conns -> Conn]
    BY <1>11, ConnMoves DEF Accept, Reset
  <2> QED
    BY <1>11, <2>1 DEF Accept, Reset, TypeOK, Conn
<1>12. ASSUME NEW c \in Conns, Open(c)
       PROVE  TypeOK'
  <2>1. tcp' \in [Conns -> Conn]
    BY <1>12, ConnMoves DEF Open
  <2>2. tcp[c].ln \in Numbers
    <3>1. Said("granted", tcp[c].ln)
      BY <1>12 DEF Open, Told
    <3> QED
      BY <3>1 DEF Said, TypeOK
  <2> DEFINE Msg == [kind : {"granted", "refused", "cancelled", "open"}, n : Numbers]
             new == [kind |-> "open", n |-> tcp[c].ln]
  <2>3. sent' \in Seq(Msg)
    <3>1. sent \in Seq(Msg) /\ new \in Msg
      BY <2>2 DEF TypeOK
    <3>2. sent' = Append(sent, new) \/ sent' = sent
      BY <1>12 DEF Open, Tell
    <3> HIDE DEF Msg, new
    <3> QED
      BY <3>1, <3>2
  <2> QED
    BY <1>12, <2>1, <2>3 DEF Open, TypeOK, Conn
<1>13. CASE Disconnect \/ Return
  BY <1>13 DEF Disconnect, Return, TypeOK
<1>14. CASE CloseAll
  BY <1>14 DEF CloseAll, TypeOK
<1>15. CASE UNCHANGED vars
  BY <1>15 DEF vars, TypeOK
<1>16. ASSUME NEW n \in Numbers, AcceptFails(n)
       PROVE  TypeOK'
  BY <1>16 DEF AcceptFails, TypeOK
<1> QED
  BY <1>1, <1>3, <1>4, <1>6, <1>7, <1>8, <1>9, <1>10, <1>11, <1>12, <1>13, <1>14, <1>15, <1>16
     DEF Next, Handler

(* A key is that of the same request as before.                             *)
LEMMA KeyStays ==
  ASSUME NEW n, asked'[n] = asked[n], bindPort'[n] = bindPort[n]
  PROVE  Key(n)' = Key(n)
BY DEF Key

LEMMA AskedTyped ==
  ASSUME TypeOK, NEW n \in DOMAIN asked
  PROVE  asked[n].addr \in Addrs /\ asked[n].port \in Ports \cup {0}
<1> DEFINE Req == [kind : {"forward", "cancel"}, addr : Addrs, port : Ports \cup {0}]
<1>1. asked \in Seq(Req)
  BY DEF TypeOK
<1>2. asked[n] \in Req
  <2> HIDE DEF Req
  <2> QED
    BY <1>1
<1> QED
  BY <1>2

LEMMA KeyTyped ==
  ASSUME TypeOK, InOrder, NEW n \in bound
  PROVE  /\ Key(n) \in Keys /\ n \in Numbers /\ n \in DOMAIN asked /\ n \in Nat /\ n # 0
<1>1. n \in 1..handled /\ handled \in Nat /\ handled <= Len(asked) /\ Len(asked) \in Nat
  BY DEF TypeOK, InOrder
<1>2. n \in 1..Len(asked) /\ Len(asked) <= Requests
  BY <1>1 DEF InOrder
<1>3. n \in DOMAIN asked /\ n \in Numbers
  BY <1>2, NumbersFacts DEF Numbers, TypeOK
<1>4. Key(n) \in Keys
  BY <1>3, AskedTyped DEF Key, Keys, InOrder
<1> QED
  BY <1>3, <1>4, NumbersFacts

LEMMA AskListeners ==
  ASSUME TypeOK, Listeners, NEW kind \in {"forward", "cancel"}, NEW addr \in Addrs,
         NEW port \in Ports \cup {0}, Ask(kind, addr, port)
  PROVE  Listeners' /\ \A n \in DOMAIN asked : asked'[n] = asked[n]
<1>1. /\ \A n \in DOMAIN asked : asked'[n] = asked[n]
      /\ Len(asked') <= Requests
  BY NumbersFacts DEF Ask, TypeOK
<1>2. \A n \in bound : Key(n)' = Key(n)
  BY <1>1, KeyTyped, KeyStays DEF Ask, Listeners
<1>3. at = "close" => target \in DOMAIN asked
  BY DEF TypeOK, Listeners, InOrder
<1> QED
  BY <1>1, <1>2, <1>3 DEF Ask, Listeners, InOrder, Distinct, TrackedOpen, Working, EveryListenerTracked, Closing

LEMMA TakesFacts ==
  ASSUME TypeOK, Listeners, NEW kind, Takes(kind)
  PROVE  /\ at = "idle" /\ handled' = handled + 1 /\ target' = handled + 1
         /\ handled \in Nat /\ handled + 1 \notin bound /\ handled + 1 \in Numbers
         /\ handled + 1 \in DOMAIN asked /\ asked[handled + 1].kind = kind
         /\ \A n \in bound : n \in 1..(handled + 1) /\ n # handled + 1
<1>1. handled \in Nat /\ Len(asked) \in Nat /\ handled < Len(asked) /\ Len(asked) <= Requests
  BY DEF Takes, TypeOK, Listeners, InOrder
<1> QED
  BY <1>1, NumbersFacts DEF Takes, TypeOK, Listeners, InOrder, Numbers

LEMMA ListenListeners ==
  ASSUME TypeOK, Listeners, NEW port \in Ports, Listen(port)
  PROVE  Listeners'
<1>0. PICK new \in Nat : new = handled + 1
  BY TakesFacts DEF Listen
<1>1. /\ at = "idle" /\ target' = new /\ new \notin bound /\ new \in Numbers /\ handled' = new
      /\ new \in DOMAIN asked /\ handled \in Nat
      /\ \A n \in bound : n \in 1..new /\ n # new
  BY <1>0, TakesFacts DEF Listen
<1>2. /\ bound' = bound \cup {new} /\ at' = "reply" /\ asked' = asked /\ ln' = ln
      /\ bindPort' = [bindPort EXCEPT ![new] = port]
  BY <1>0 DEF Listen
<1>3. /\ bindPort'[new] = port /\ Key(new)' = <<asked[new].addr, port>>
      /\ \A n \in bound : bindPort'[n] = bindPort[n]
  <2>1. bindPort' \in [Numbers -> Ports \cup {0}] /\ bindPort'[new] = port
    BY <1>1, <1>2 DEF TypeOK
  <2>2. \A n \in bound : bindPort'[n] = bindPort[n]
    BY <1>1, <1>2, KeyTyped DEF TypeOK, Listeners
  <2> QED
    BY <1>2, <2>1, <2>2 DEF Key
<1>4. \A n \in bound : Key(n)' = Key(n)
  BY <1>2, <1>3, KeyStays
<1>5. \A n \in bound : Key(n) # Key(new)'
  BY <1>0, <1>3 DEF Listen, Free
<1>6. InOrder'
  BY <1>1, <1>2, <1>3 DEF Listeners, InOrder
<1>7. Distinct'
  <2> SUFFICES ASSUME NEW n \in bound', NEW m \in bound', Key(n)' = Key(m)' PROVE n = m
    BY DEF Distinct
  <2>1. CASE n \in bound /\ m \in bound
    BY <1>4, <2>1 DEF Listeners, Distinct
  <2>2. CASE n \in bound /\ m = new
    BY <1>4, <1>5, <2>2
  <2>3. CASE n = new /\ m \in bound
    BY <1>4, <1>5, <2>3
  <2> QED
    BY <1>2, <2>1, <2>2, <2>3
<1>8. TrackedOpen'
  BY <1>2, <1>4 DEF Listeners, TrackedOpen
<1>9. Working'
  BY <1>1, <1>2, NumbersFacts DEF Listeners, TrackedOpen, Working
<1>10. EveryListenerTracked' /\ Closing'
  BY <1>1, <1>2, <1>4 DEF Listeners, EveryListenerTracked, Closing
<1> QED
  BY <1>6, <1>7, <1>8, <1>9, <1>10 DEF Listeners

LEMMA RegisterListeners ==
  ASSUME TypeOK, Listeners, Register
  PROVE  Listeners'
<1>1. /\ target \in bound /\ \A k \in Keys : ln[k] # target
      /\ ln' = [ln EXCEPT ![Key(target)] = target] /\ at' = "idle"
      /\ UNCHANGED <<asked, handled, target, bindPort, bound>>
  BY DEF Register, Listeners, Working
<1>2. Key(target) \in Keys /\ \A n \in bound : Key(n)' = Key(n)
  BY <1>1, KeyTyped, KeyStays DEF Listeners
<1>3. ln[Key(target)] = 0
  BY <1>1, <1>2 DEF Listeners, TrackedOpen, Distinct
<1>4. ln'[Key(target)] = target /\ \A k \in Keys \ {Key(target)} : ln'[k] = ln[k]
  BY <1>1, <1>2 DEF TypeOK
<1>5. TrackedOpen'
  BY <1>1, <1>2, <1>4 DEF Listeners, TrackedOpen
<1>6. EveryListenerTracked'
  <2> SUFFICES ASSUME NEW n \in bound PROVE ln'[Key(n)] = n
    BY <1>1, <1>2 DEF EveryListenerTracked
  <2>1. CASE n = target
    BY <2>1, <1>2, <1>4
  <2>2. CASE n # target
    <3>1. ln[Key(n)] = n
      BY <2>2 DEF Listeners, EveryListenerTracked
    <3>2. n # 0 /\ Key(n) \in Keys
      BY KeyTyped DEF Listeners
    <3> QED
      BY <1>3, <1>4, <3>1, <3>2
  <2> QED
    BY <2>1, <2>2
<1> QED
  BY <1>1, <1>2, <1>5, <1>6 DEF Listeners, InOrder, Distinct, Working, Closing

LEMMA CancelListeners ==
  ASSUME TypeOK, Listeners, Cancel
  PROVE  Listeners'
<1> DEFINE key == <<asked[handled + 1].addr, asked[handled + 1].port>>
<1>1. /\ at = "idle" /\ target' = handled + 1 /\ handled' = handled + 1 /\ handled \in Nat
      /\ handled + 1 \in DOMAIN asked /\ \A n \in bound : n \in 1..(handled + 1)
  BY TakesFacts DEF Cancel
<1>2. /\ ln' = [ln EXCEPT ![key] = 0] /\ bound' = bound \ {ln[key]} /\ at' = "close"
      /\ UNCHANGED <<asked, bindPort>>
  BY DEF Cancel
<1>3. key \in Keys
  BY <1>1, AskedTyped DEF Keys
<1>4. key = <<asked[target'].addr, asked[target'].port>>
  BY <1>1
<1> HIDE DEF key
<1>5. ln'[key] = 0 /\ \A k \in Keys \ {key} : ln'[k] = ln[k]
  BY <1>2, <1>3 DEF TypeOK
<1>6. \A n : Key(n)' = Key(n)
  BY <1>2 DEF Key
<1>7. \A n \in bound : Key(n) = key => n = ln[key]
  BY <1>1, KeyTyped DEF Listeners, TrackedOpen, EveryListenerTracked
<1>8. Closing'
  BY <1>2, <1>4, <1>6, <1>7 DEF Closing
<1>9. InOrder'
  BY <1>1, <1>2 DEF Listeners, InOrder
<1>10. TrackedOpen'
  BY <1>2, <1>3, <1>5, <1>6 DEF Listeners, TrackedOpen
<1>11. EveryListenerTracked'
  <2> SUFFICES ASSUME NEW n \in bound, n # ln[key] PROVE ln'[Key(n)] = n
    BY <1>2, <1>6 DEF EveryListenerTracked
  <2>1. ln[Key(n)] = n /\ Key(n) \in Keys
    BY <1>1, KeyTyped DEF Listeners, EveryListenerTracked
  <2> QED
    BY <1>5, <2>1
<1>12. Distinct' /\ Working'
  BY <1>2, <1>6 DEF Listeners, Distinct, Working
<1> QED
  BY <1>8, <1>9, <1>10, <1>11, <1>12 DEF Listeners

LEMMA CloseAllListeners ==
  ASSUME TypeOK, Listeners, CloseAll
  PROVE  Listeners'
<1>1. /\ bound' = bound \ {ln[k] : k \in Keys} /\ ln' = [k \in Keys |-> 0]
      /\ UNCHANGED <<asked, handled, at, target, bindPort>>
  BY DEF CloseAll
<1>2. \A n : Key(n)' = Key(n)
  BY <1>1 DEF Key
<1>3. InOrder' /\ Distinct' /\ TrackedOpen' /\ Closing'
  BY <1>1, <1>2 DEF Listeners, InOrder, Distinct, TrackedOpen, Closing
<1>4. Working'
  <2> SUFFICES ASSUME at \in {"reply", "register"}
               PROVE  target \in bound' /\ \A k \in Keys : ln'[k] # target
    BY <1>1 DEF Working
  <2>1. target \in bound /\ \A k \in Keys : ln[k] # target
    BY DEF Listeners, Working
  <2>2. target # 0
    BY <2>1, KeyTyped DEF Listeners
  <2> QED
    BY <1>1, <2>1, <2>2
<1>5. EveryListenerTracked'
  BY <1>1, <1>2, KeyTyped DEF Listeners, EveryListenerTracked
<1> QED
  BY <1>3, <1>4, <1>5 DEF Listeners

LEMMA ListenersStep ==
  ASSUME TypeOK, Listeners, [Next]_vars
  PROVE  Listeners'
<1> USE DEF Listeners
<1>1. CASE ListenFails
  <2>1. /\ at = "idle" /\ handled' = handled + 1 /\ handled \in Nat
        /\ \A n \in bound : n \in 1..(handled + 1)
        /\ UNCHANGED <<asked, at, bindPort, bound, ln>>
    BY <1>1, TakesFacts DEF ListenFails
  <2>2. \A n : Key(n)' = Key(n)
    BY <2>1 DEF Key
  <2> QED
    BY <2>1, <2>2 DEF InOrder, Distinct, TrackedOpen, Working, EveryListenerTracked, Closing
<1>2. CASE ReplyGranted \/ ReplyCancelled
  <2>1. /\ UNCHANGED <<asked, handled, target, bindPort, bound, ln>>
        /\ \/ at = "reply" /\ at' = "register"
           \/ at = "close" /\ at' = "idle"
    BY <1>2 DEF ReplyGranted, ReplyCancelled
  <2>2. \A n : Key(n)' = Key(n)
    BY <2>1 DEF Key
  <2> QED
    BY <2>1, <2>2 DEF InOrder, Distinct, TrackedOpen, Working, EveryListenerTracked, Closing
<1>3. CASE UNCHANGED <<asked, handled, at, target, bindPort, bound, ln>>
  <2>1. \A n : Key(n)' = Key(n)
    BY <1>3 DEF Key
  <2> QED
    BY <1>3, <2>1 DEF InOrder, Distinct, TrackedOpen, Working, EveryListenerTracked, Closing
<1>4. ASSUME NEW c \in Conns, NEW n \in Numbers, Connect(c, n) \/ Accept(c) \/ Reset(c) \/ Open(c)
      PROVE  UNCHANGED <<asked, handled, at, target, bindPort, bound, ln>>
  BY <1>4 DEF Connect, Accept, Reset, Open
<1> HIDE DEF Listeners
<1>5. ASSUME NEW c \in Conns, Accept(c) \/ Reset(c) \/ Open(c)
      PROVE  UNCHANGED <<asked, handled, at, target, bindPort, bound, ln>>
  BY <1>5 DEF Accept, Reset, Open
<1>6. Disconnect \/ Return \/ UNCHANGED vars => UNCHANGED <<asked, handled, at, target, bindPort, bound, ln>>
  BY DEF Disconnect, Return, vars
<1>7. ASSUME NEW n \in Numbers, AcceptFails(n)
      PROVE  UNCHANGED <<asked, handled, at, target, bindPort, bound, ln>>
  BY <1>7 DEF AcceptFails
<1> QED
  BY <1>1, <1>2, <1>3, <1>4, <1>5, <1>6, <1>7, AskListeners, ListenListeners, RegisterListeners,
     CancelListeners, CloseAllListeners DEF Next, Handler

----------------------------------------------------------------------------
(* What is sent, and when; what a request bound is settled once it was      *)
(* taken up.                                                                *)
Speaks ==
  \/ sent' = sent
  \/ \E kind \in {"granted", "refused", "cancelled", "open"}, n \in 1..handled' :
       /\ sent' = Append(sent, [kind |-> kind, n |-> n])
       /\ kind = "cancelled" => at = "close" /\ n = target
       /\ kind = "open" => Said("granted", n)

Settled ==
  \A n \in 1..handled :
    /\ asked'[n] = asked[n] /\ bindPort'[n] = bindPort[n] /\ (n \in bound' => n \in bound)

LEMMA StepFacts ==
  ASSUME Inv, [Next]_vars
  PROVE  Speaks /\ Settled /\ handled' \in Nat /\ handled <= handled'
<1> USE DEF Inv
<1>1. handled \in Nat /\ \A n \in 1..handled : n \in DOMAIN asked /\ n \in Numbers /\ n # handled + 1
  BY NumbersFacts DEF TypeOK, Listeners, InOrder, Numbers
<1>2. at # "idle" => target \in 1..handled
  BY <1>1 DEF Listeners, InOrder
<1>3. ASSUME NEW n, Said("granted", n)
      PROVE  n \in 1..handled
  BY <1>3 DEF Said, Told
<1>4. ASSUME NEW kind \in {"forward", "cancel"}, NEW addr \in Addrs, NEW port \in Ports \cup {0},
             Ask(kind, addr, port)
      PROVE  Speaks /\ Settled /\ handled' \in Nat /\ handled <= handled'
  BY <1>1, <1>4, AskListeners DEF Ask, Speaks, Settled
<1>5. ASSUME NEW port \in Ports, Listen(port)
      PROVE  Speaks /\ Settled /\ handled' \in Nat /\ handled <= handled'
  <2>1. handled' = handled + 1
    BY <1>5, TakesFacts DEF Listen
  <2>2. Settled
    BY <1>1, <1>5 DEF Listen, Settled, TypeOK
  <2> QED
    BY <1>1, <1>5, <2>1, <2>2 DEF Listen, Speaks
<1>6. CASE ListenFails
  <2>1. handled' = handled + 1 /\ handled + 1 \in 1..handled'
    BY <1>1, <1>6, TakesFacts DEF ListenFails
  <2> QED
    BY <1>1, <1>6, <2>1 DEF ListenFails, Tell, Speaks, Settled
<1>7. CASE ReplyGranted \/ ReplyCancelled
  BY <1>1, <1>2, <1>7 DEF ReplyGranted, ReplyCancelled, Tell, Speaks, Settled
<1>8. CASE Register \/ CloseAll \/ Disconnect \/ Return \/ UNCHANGED vars
  BY <1>1, <1>8 DEF Register, CloseAll, Disconnect, Return, vars, Speaks, Settled
<1>9. CASE Cancel
  BY <1>1, <1>9, TakesFacts DEF Cancel, Speaks, Settled
<1>10. ASSUME NEW c \in Conns, NEW n \in Numbers, Connect(c, n)
       PROVE  Speaks /\ Settled /\ handled' \in Nat /\ handled <= handled'
  BY <1>1, <1>10 DEF Connect, Speaks, Settled
<1>11. ASSUME NEW c \in Conns, Accept(c) \/ Reset(c)
       PROVE  Speaks /\ Settled /\ handled' \in Nat /\ handled <= handled'
  BY <1>1, <1>11 DEF Accept, Reset, Speaks, Settled
<1>12. ASSUME NEW c \in Conns, Open(c)
       PROVE  Speaks /\ Settled /\ handled' \in Nat /\ handled <= handled'
  <2>1. Said("granted", tcp[c].ln) /\ tcp[c].ln \in 1..handled
    BY <1>3, <1>12 DEF Open, Told
  <2> QED
    BY <1>1, <1>12, <2>1 DEF Open, Tell, Speaks, Settled
<1>13. ASSUME NEW n \in Numbers, AcceptFails(n)
       PROVE  Speaks /\ Settled /\ handled' \in Nat /\ handled <= handled'
  BY <1>1, <1>13 DEF AcceptFails, Speaks, Settled
<1> QED
  BY <1>4, <1>5, <1>6, <1>7, <1>8, <1>9, <1>10, <1>11, <1>12, <1>13 DEF Next, Handler

LEMMA SentGrows ==
  ASSUME TypeOK, NEW msg, sent' = Append(sent, msg)
  PROVE  /\ DOMAIN sent' = DOMAIN sent \cup {Len(sent) + 1}
         /\ \A i \in DOMAIN sent : i \in Nat /\ i < Len(sent) + 1 /\ sent'[i] = sent[i]
         /\ sent'[Len(sent) + 1] = msg
BY DEF TypeOK

LEMMA SaidStays ==
  ASSUME TypeOK, Speaks, NEW kind, NEW n, Said(kind, n)
  PROVE  Said(kind, n)'
BY SentGrows DEF Speaks, Said

LEMMA ToldStep ==
  ASSUME Inv, [Next]_vars
  PROVE  Told'
<1> USE DEF Inv
<1>1. Speaks /\ handled \in Nat /\ handled' \in Nat /\ handled <= handled'
  BY StepFacts DEF TypeOK
<1>2. \A i \in DOMAIN sent' : sent'[i].n \in 1..handled'
  <2>1. CASE sent' = sent
    BY <1>1, <2>1 DEF Told
  <2>2. CASE sent' # sent
    <3>1. PICK kind \in {"granted", "refused", "cancelled", "open"}, n \in 1..handled' :
            sent' = Append(sent, [kind |-> kind, n |-> n])
      BY <1>1, <2>2 DEF Speaks
    <3> QED
      BY <1>1, <3>1, SentGrows DEF Told
  <2> QED
    BY <2>1, <2>2
<1>3. at' = "register" => Said("granted", target)'
  <2>1. CASE ReplyGranted
    BY <2>1, SentGrows DEF ReplyGranted, Tell, Said
  <2>2. CASE ~ReplyGranted
    <3>1. at' = "register" => at = "register" /\ target' = target
      BY <2>2 DEF Next, Handler, vars, Ask, Takes, Listen, ListenFails, Register, Cancel, ReplyCancelled,
                  Connect, Accept, AcceptFails, Reset, Open, Disconnect, CloseAll, Return
    <3> QED
      BY <1>1, <3>1, SaidStays DEF Told, Said
  <2> QED
    BY <2>1, <2>2
<1>4. \A n \in accepting' : n \in accepting \/ (at = "register" /\ n = target)
  BY DEF Next, Handler, vars, Ask, Listen, ListenFails, ReplyGranted, Register, Cancel, ReplyCancelled,
         Connect, Accept, AcceptFails, Reset, Open, Disconnect, CloseAll, Return
<1>5. \A n \in accepting' : Said("granted", n)'
  BY <1>1, <1>4, SaidStays DEF Told
<1>6. ASSUME NEW c \in Conns, tcp'[c].is = "accepted"
      PROVE  Said("granted", tcp[c].ln)'
  <2>1. tcp'[c] = tcp[c] \/ (tcp'[c].ln = tcp[c].ln /\ tcp[c].ln \in accepting)
    <3>1. ASSUME NEW d \in Conns, NEW n \in Numbers, Connect(d, n)
          PROVE  tcp'[c] = tcp[c]
      BY <1>6, <3>1 DEF Connect, TypeOK
    <3>2. ASSUME NEW d \in Conns, Reset(d) \/ Open(d)
          PROVE  tcp'[c] = tcp[c]
      BY <1>6, <3>2, ConnMoves DEF Reset, Open
    <3>3. ASSUME NEW d \in Conns, Accept(d)
          PROVE  tcp'[c] = tcp[c] \/ (tcp'[c].ln = tcp[c].ln /\ tcp[c].ln \in accepting)
      BY <3>3, ConnMoves DEF Accept
    <3>4. tcp' = tcp \/ \E d \in Conns : Accept(d) \/ Reset(d) \/ Open(d) \/ \E n \in Numbers : Connect(d, n)
      BY DEF Next, Handler, vars, Ask, Listen, ListenFails, ReplyGranted, Register, Cancel, ReplyCancelled,
             AcceptFails, Disconnect, CloseAll, Return
    <3> QED
      BY <3>1, <3>2, <3>3, <3>4
  <2>2. PICK n : n = tcp[c].ln
    OBVIOUS
  <2>3. Said("granted", n)
    BY <1>6, <2>1, <2>2 DEF Told
  <2>4. Said("granted", n)'
    BY <1>1, <2>3, SaidStays
  <2>5. tcp'[c].ln = n
    BY <2>1, <2>2
  <2> QED
    BY <2>4, <2>5 DEF Said
<1> QED
  BY <1>2, <1>3, <1>5, <1>6 DEF Told

LEMMA CancelReleasesStep ==
  ASSUME Inv, [Next]_vars
  PROVE  CancelReleases'
<1> USE DEF Inv
<1>1. Speaks /\ Settled
  BY StepFacts
<1> SUFFICES ASSUME NEW n \in Numbers, NEW m \in Numbers, NEW i, NEW j,
                    i \in DOMAIN sent', j \in DOMAIN sent', i < j,
                    sent'[i] = [kind |-> "granted", n |-> n],
                    sent'[j] = [kind |-> "cancelled", n |-> m],
                    Key(n)' = <<asked'[m].addr, asked'[m].port>>
             PROVE  n \notin bound'
  BY DEF CancelReleases, Position
<1>2. CASE i \in DOMAIN sent /\ j \in DOMAIN sent
  <2>1. sent'[i] = sent[i] /\ sent'[j] = sent[j]
    BY <1>1, <1>2, SentGrows DEF Speaks
  <2>2. n \in 1..handled /\ m \in 1..handled
    BY <1>2, <2>1 DEF Told
  <2>3. Key(n) = <<asked[m].addr, asked[m].port>>
    BY <1>1, <2>2 DEF Settled, Key
  <2> QED
    BY <1>1, <1>2, <2>1, <2>2, <2>3 DEF CancelReleases, Position, Settled
<1>3. CASE ~(i \in DOMAIN sent /\ j \in DOMAIN sent)
  <2>1. PICK kind \in {"granted", "refused", "cancelled", "open"}, k \in 1..handled' :
          /\ sent' = Append(sent, [kind |-> kind, n |-> k])
          /\ kind = "cancelled" => at = "close" /\ k = target
    BY <1>1, <1>3 DEF Speaks
  <2>2. i \in DOMAIN sent /\ j = Len(sent) + 1
    <3>1. /\ Len(sent) \in Nat /\ DOMAIN sent' = DOMAIN sent \cup {Len(sent) + 1}
          /\ \A l \in DOMAIN sent : l \in Nat /\ l < Len(sent) + 1
      BY <2>1, SentGrows DEF TypeOK
    <3>2. i \in DOMAIN sent \/ i = Len(sent) + 1
      BY <3>1
    <3>3. i # Len(sent) + 1
      <4> SUFFICES ASSUME i = Len(sent) + 1 PROVE FALSE
        OBVIOUS
      <4>1. j = i \/ j < i
        BY <3>1
      <4> QED
        BY <3>1, <4>1
    <3> QED
      BY <1>3, <3>1, <3>2, <3>3
  <2>3. sent'[i] = sent[i] /\ at = "close" /\ m = target
    BY <2>1, <2>2, SentGrows
  <2>4. n \in 1..handled /\ m \in 1..handled
    <3>1. n \in 1..handled
      BY <2>2, <2>3 DEF Told
    <3> QED
      BY <2>3, <3>1 DEF Listeners, InOrder, TypeOK
  <2>5. Key(n) = <<asked[target].addr, asked[target].port>>
    BY <1>1, <2>3, <2>4 DEF Settled, Key
  <2>6. n \notin bound
    BY <2>3, <2>5 DEF Listeners, Closing
  <2> QED
    BY <1>1, <2>4, <2>6 DEF Settled
<1> QED
  BY <1>2, <1>3

LEMMA OpenAnnouncedStep ==
  ASSUME Inv, [Next]_vars
  PROVE  OpenAnnounced'
<1> USE DEF Inv
<1>1. Speaks
  BY StepFacts
<1> SUFFICES ASSUME NEW n \in Numbers, NEW j \in DOMAIN sent',
                    sent'[j] = [kind |-> "open", n |-> n]
             PROVE  \E i \in DOMAIN sent' : sent'[i] = [kind |-> "granted", n |-> n] /\ i < j
  BY DEF OpenAnnounced, Position
<1>2. CASE j \in DOMAIN sent
  <2>1. sent'[j] = sent[j]
    BY <1>1, <1>2, SentGrows DEF Speaks
  <2>2. PICK i \in DOMAIN sent : sent[i] = [kind |-> "granted", n |-> n] /\ i < j
    BY <1>2, <2>1 DEF OpenAnnounced, Position
  <2> QED
    BY <1>1, <2>2, SentGrows DEF Speaks
<1>3. CASE j \notin DOMAIN sent
  <2>1. PICK kind \in {"granted", "refused", "cancelled", "open"}, k \in 1..handled' :
          /\ sent' = Append(sent, [kind |-> kind, n |-> k])
          /\ kind = "open" => Said("granted", k)
    BY <1>1, <1>3 DEF Speaks
  <2>2. j = Len(sent) + 1 /\ Said("granted", n)
    BY <1>3, <2>1, SentGrows
  <2>3. PICK i \in DOMAIN sent : sent[i] = [kind |-> "granted", n |-> n]
    BY <2>2 DEF Said
  <2> QED
    BY <2>1, <2>2, <2>3, SentGrows
<1> QED
  BY <1>2, <1>3

(* The answer that a step gives, if it gives one, is the next that is due.  *)
Fits(kind, n) == kind \in IF asked[n].kind = "forward" THEN {"granted", "refused"} ELSE {"cancelled"}

Replies ==
  \/ /\ Answers' = Answers
     /\ sent' = sent \/ \E n \in Numbers : sent' = Append(sent, [kind |-> "open", n |-> n])
  \/ \E kind \in {"granted", "refused", "cancelled"}, n \in 1..handled' :
       /\ n = Answers + 1 /\ Answers' = n
       /\ sent' = Append(sent, [kind |-> kind, n |-> n])
       /\ Fits(kind, n)'

LEMMA RepliesStep ==
  ASSUME Inv, [Next]_vars
  PROVE  /\ Replies /\ Answers \in 0..handled
         /\ at' = "reply" => asked'[target'].kind = "forward"
         /\ at' = "close" => asked'[target'].kind = "cancel"
<1> USE DEF Inv
<1>0. handled \in Nat /\ Len(asked) \in Nat /\ Len(asked) <= Requests /\ handled <= Len(asked)
  BY DEF TypeOK, Listeners, InOrder
<1>1. /\ at # "idle" => target = handled /\ handled # 0 /\ target \in DOMAIN asked
      /\ Answers \in 0..handled
  BY <1>0 DEF TypeOK, Listeners, InOrder, Answers
<1> DEFINE Kinds == /\ at' = "reply" => asked'[target'].kind = "forward"
                    /\ at' = "close" => asked'[target'].kind = "cancel"
<1>2. ASSUME UNCHANGED <<handled, at, target>>, \A n \in DOMAIN asked : asked'[n] = asked[n]
      PROVE  Answers' = Answers /\ Kinds
  BY <1>1, <1>2 DEF Answers, Replied
<1>3. ASSUME NEW kind \in {"forward", "cancel"}, NEW addr \in Addrs, NEW port \in Ports \cup {0},
             Ask(kind, addr, port)
      PROVE  Replies /\ Kinds
  BY <1>2, <1>3, AskListeners DEF Ask, Replies
<1>4. ASSUME NEW port \in Ports, Listen(port)
      PROVE  Replies /\ Kinds
  <2>1. at = "idle" /\ handled' = handled + 1 /\ target' = handled + 1 /\ asked[handled + 1].kind = "forward"
    BY <1>4, TakesFacts DEF Listen
  <2> QED
    BY <1>0, <1>4, <2>1 DEF Listen, Replies, Answers
<1>5. CASE ListenFails
  <2>1. /\ at = "idle" /\ handled' = handled + 1 /\ asked[handled + 1].kind = "forward"
        /\ at' = at /\ asked' = asked /\ sent' = Append(sent, [kind |-> "refused", n |-> handled + 1])
    BY <1>5, TakesFacts DEF ListenFails, Tell
  <2>2. Answers = handled /\ Answers' = handled + 1
    BY <1>0, <2>1 DEF Answers
  <2>3. PICK n \in 1..handled' : n = handled + 1
    BY <1>0, <2>1
  <2>4. Fits("refused", n)'
    BY <2>1, <2>3 DEF Fits
  <2> QED
    BY <1>0, <2>1, <2>2, <2>3, <2>4 DEF Replies
<1>6. CASE ReplyGranted
  <2>1. /\ at = "reply" /\ at' = "register" /\ UNCHANGED <<asked, handled, target>>
        /\ sent' = Append(sent, [kind |-> "granted", n |-> handled])
    BY <1>1, <1>6 DEF ReplyGranted, Tell
  <2>2. Answers = handled - 1 /\ Answers' = handled
    BY <1>0, <2>1 DEF Answers
  <2>3. PICK n \in 1..handled' : n = handled /\ n = Answers + 1
    BY <1>0, <1>1, <2>1, <2>2
  <2>4. Fits("granted", n)'
    BY <1>1, <2>1, <2>3 DEF Fits, Replied
  <2> QED
    BY <2>1, <2>2, <2>3, <2>4 DEF Replies
<1>7. CASE ReplyCancelled
  <2>1. /\ at = "close" /\ at' = "idle" /\ UNCHANGED <<asked, handled, target>>
        /\ sent' = Append(sent, [kind |-> "cancelled", n |-> handled])
    BY <1>1, <1>7 DEF ReplyCancelled, Tell
  <2>2. Answers = handled - 1 /\ Answers' = handled
    BY <1>0, <2>1 DEF Answers
  <2>3. PICK n \in 1..handled' : n = handled /\ n = Answers + 1
    BY <1>0, <1>1, <2>1, <2>2
  <2>4. Fits("cancelled", n)'
    BY <1>1, <2>1, <2>3 DEF Fits, Replied
  <2> QED
    BY <2>1, <2>2, <2>3, <2>4 DEF Replies
<1>8. CASE Register
  BY <1>0, <1>8 DEF Register, Replies, Answers
<1>9. CASE Cancel
  <2>1. /\ at = "idle" /\ handled' = handled + 1 /\ target' = handled + 1
        /\ asked[handled + 1].kind = "cancel" /\ at' = "close" /\ asked' = asked /\ sent' = sent
    BY <1>9, TakesFacts DEF Cancel
  <2> QED
    BY <1>0, <2>1 DEF Replies, Answers
<1>10. ASSUME NEW c \in Conns, NEW n \in Numbers, Connect(c, n)
       PROVE  Replies /\ Kinds
  BY <1>2, <1>10 DEF Connect, Replies
<1>11. ASSUME NEW c \in Conns, Accept(c) \/ Reset(c)
       PROVE  Replies /\ Kinds
  BY <1>2, <1>11 DEF Accept, Reset, Replies
<1>12. ASSUME NEW c \in Conns, Open(c)
       PROVE  Replies /\ Kinds
  <2>1. Said("granted", tcp[c].ln)
    BY <1>12 DEF Open, Told
  <2>2. tcp[c].ln \in Numbers
    BY <2>1 DEF Said, TypeOK
  <2> QED
    BY <1>2, <1>12, <2>2 DEF Open, Tell, Replies
<1>13. CASE CloseAll \/ Disconnect \/ Return \/ UNCHANGED vars
  <2>1. UNCHANGED <<asked, handled, at, target, sent>>
    BY <1>13 DEF CloseAll, Disconnect, Return, vars
  <2> QED
    BY <1>1, <1>2, <2>1 DEF Replies
<1>14. ASSUME NEW n \in Numbers, AcceptFails(n)
       PROVE  Replies /\ Kinds
  BY <1>2, <1>14 DEF AcceptFails, Replies
<1> QED
  BY <1>1, <1>3, <1>4, <1>5, <1>6, <1>7, <1>8, <1>9, <1>10, <1>11, <1>12, <1>13, <1>14
     DEF Next, Handler

LEMMA RepliedStep ==
  ASSUME Inv, [Next]_vars
  PROVE  Replied'
<1> USE DEF Inv
<1>1. /\ Settled /\ Replies /\ Answers \in 0..handled /\ handled \in Nat
      /\ at' = "reply" => asked'[target'].kind = "forward"
      /\ at' = "close" => asked'[target'].kind = "cancel"
  BY StepFacts, RepliesStep DEF TypeOK
<1>2. /\ \A i \in DOMAIN sent : sent[i].n \in 1..handled
      /\ \A i \in DOMAIN sent : IsAnswer(i) => sent[i].n <= Answers
      /\ \A n \in Numbers : n <= Answers => Answered(n)
      /\ AnswersInOrder
  BY DEF Told, Replied
<1>3. \A n \in Numbers : n \in Nat
  BY NumbersFacts
<1>4. ASSUME DOMAIN sent \subseteq DOMAIN sent', \A i \in DOMAIN sent : sent'[i] = sent[i]
      PROVE  \A n \in Numbers : n <= Answers => Answered(n)'
  BY <1>2, <1>4 DEF Answered, IsAnswer
<1> DEFINE Good(j) ==
             /\ sent'[j].kind \in IF asked'[sent'[j].n].kind = "forward" THEN {"granted", "refused"}
                                                                      ELSE {"cancelled"}
             /\ \A i \in DOMAIN sent' : IsAnswer(i)' /\ i < j => sent'[i].n < sent'[j].n
             /\ \A m \in Numbers :
                  m < sent'[j].n => \E i \in DOMAIN sent' : IsAnswer(i)' /\ i < j /\ sent'[i].n = m
<1>5. ASSUME NEW msg, sent' = Append(sent, msg), NEW j \in DOMAIN sent, IsAnswer(j)
      PROVE  Good(j)
  <2>1. /\ DOMAIN sent' = DOMAIN sent \cup {Len(sent) + 1}
        /\ \A i \in DOMAIN sent : i \in Nat /\ i < Len(sent) + 1 /\ sent'[i] = sent[i]
    BY <1>5, SentGrows
  <2>2. asked'[sent[j].n] = asked[sent[j].n]
    BY <1>1, <1>2 DEF Settled
  <2>3. \A i \in DOMAIN sent' : i < j => i \in DOMAIN sent
    <3>1. Len(sent) \in Nat /\ j \in Nat /\ j < Len(sent) + 1
      BY <2>1 DEF TypeOK
    <3>2. ~(Len(sent) + 1 < j)
      BY <3>1
    <3> QED
      BY <2>1, <3>2
  <2> QED
    BY <1>2, <1>5, <2>1, <2>2, <2>3 DEF AnswersInOrder, IsAnswer
<1>6. CASE sent' = sent
  <2>1. Answers' = Answers
    <3>1. ASSUME NEW msg, sent' = Append(sent, msg)
          PROVE  FALSE
      <4>1. Len(sent) + 1 \in DOMAIN sent /\ Len(sent) \in Nat
        BY <1>6, <3>1, SentGrows DEF TypeOK
      <4> QED
        BY <3>1, <4>1, SentGrows
    <3> QED
      BY <1>1, <3>1 DEF Replies
  <2>2. \A j \in DOMAIN sent : asked'[sent[j].n] = asked[sent[j].n]
    BY <1>1, <1>2 DEF Settled
  <2>3. AnswersInOrder'
    BY <1>2, <1>6, <2>2 DEF AnswersInOrder, IsAnswer
  <2> QED
    BY <1>1, <1>2, <1>6, <2>1, <2>3 DEF Replied, IsAnswer, Answered
<1>7. ASSUME Answers' = Answers, NEW n \in Numbers, sent' = Append(sent, [kind |-> "open", n |-> n])
      PROVE  Replied'
  <2>0. PICK last : last = Len(sent) + 1
    OBVIOUS
  <2>1. /\ DOMAIN sent' = DOMAIN sent \cup {last}
        /\ \A i \in DOMAIN sent : sent'[i] = sent[i]
        /\ ~IsAnswer(last)'
    BY <1>7, <2>0, SentGrows DEF IsAnswer
  <2>2. \A j \in DOMAIN sent' : IsAnswer(j)' => j \in DOMAIN sent /\ IsAnswer(j)
    BY <2>1 DEF IsAnswer
  <2>3. AnswersInOrder'
    BY <1>5, <1>7, <2>2 DEF AnswersInOrder
  <2> QED
    BY <1>1, <1>2, <1>4, <1>7, <2>1, <2>2, <2>3 DEF Replied
<1>8. ASSUME NEW kind \in {"granted", "refused", "cancelled"}, NEW k \in 1..handled',
             k = Answers + 1, Answers' = k,
             sent' = Append(sent, [kind |-> kind, n |-> k]), Fits(kind, k)'
      PROVE  Replied'
  <2>0. PICK new \in Nat : new = Len(sent) + 1
    BY DEF TypeOK
  <2>1. /\ DOMAIN sent' = DOMAIN sent \cup {new}
        /\ \A i \in DOMAIN sent : i \in Nat /\ i < new /\ sent'[i] = sent[i]
        /\ sent'[new].kind = kind /\ sent'[new].n = k /\ IsAnswer(new)'
    BY <1>8, <2>0, SentGrows DEF IsAnswer
  <2>2. k \in Nat /\ \A n \in Nat : n < k <=> n <= Answers
    BY <1>1, <1>8
  <2>3. \A i \in DOMAIN sent : IsAnswer(i)' <=> IsAnswer(i)
    BY <2>1 DEF IsAnswer
  <2>4. \A j \in DOMAIN sent' : IsAnswer(j)' => sent'[j].n <= k
    BY <1>1, <1>2, <1>8, <2>1, <2>3
  <2>5. \A n \in Numbers : n <= k => Answered(n)'
    <3>1. Answered(k)'
      BY <2>1 DEF Answered, IsAnswer
    <3>2. \A n \in Numbers : n <= k => n <= Answers \/ n = k
      BY <1>3, <2>2
    <3> QED
      BY <1>4, <2>1, <3>1, <3>2
  <2>6. Good(new)
    <3>1. \A i \in DOMAIN sent' : i < new => i \in DOMAIN sent
      BY <2>1, <2>2
    <3>2. \A i \in DOMAIN sent' : IsAnswer(i)' /\ i < new => sent'[i].n < k
      BY <1>1, <1>2, <2>1, <2>2, <2>3, <3>1
    <3>3. ASSUME NEW m \in Numbers, m < k
          PROVE  \E i \in DOMAIN sent' : IsAnswer(i)' /\ i < new /\ sent'[i].n = m
      <4>1. m <= Answers
        BY <1>3, <2>2, <3>3
      <4>2. PICK i \in DOMAIN sent : sent[i].n = m /\ IsAnswer(i)
        BY <1>2, <4>1 DEF Answered
      <4> QED
        BY <2>1, <2>3, <4>2
    <3> QED
      BY <1>8, <2>1, <3>2, <3>3 DEF Fits
  <2>7. AnswersInOrder'
    BY <1>5, <1>8, <2>1, <2>3, <2>6 DEF AnswersInOrder
  <2> QED
    BY <1>1, <1>8, <2>4, <2>5, <2>7 DEF Replied
<1> QED
  BY <1>1, <1>6, <1>7, <1>8 DEF Replies

----------------------------------------------------------------------------
(* What handleGlobalRequests, the accept loops and closeAll keep.           *)
THEOREM ForwardsInv == Spec => []Inv
<1>1. Inv /\ [Next]_vars => Inv'
  BY TypeStep, ListenersStep, ToldStep, RepliedStep, CancelReleasesStep, OpenAnnouncedStep DEF Inv
<1> QED
  BY <1>1, InitInv, PTL DEF Spec

(* While it listens, a socket is in the map under the port that it bound,   *)
(* or in the hand of the handler that is about to put it there:             *)
(* remoteForwards.start, cancel and closeAll.                               *)
THEOREM ListenersTracked == Spec => []EveryListenerTracked
<1>1. Inv => EveryListenerTracked
  BY DEF Inv, Listeners
<1> QED
  BY <1>1, ForwardsInv, PTL

(* A port that the client was told is released when its cancellation is     *)
(* answered: handleGlobalRequests tracks it under the port that it bound.   *)
THEOREM CancelledPortsReleased == Spec => []CancelReleases
<1>1. Inv => CancelReleases
  BY DEF Inv
<1> QED
  BY <1>1, ForwardsInv, PTL

(* No forwarded-tcpip channel precedes the answer to its request: start     *)
(* accepts only after the reply.                                            *)
THEOREM OpensAnnounced == Spec => []OpenAnnounced
<1>1. Inv => OpenAnnounced
  BY DEF Inv
<1> QED
  BY <1>1, ForwardsInv, PTL

(* The k-th reply is to the k-th request and of a kind that it can get:     *)
(* handleGlobalRequests answers each request once, on every path of start   *)
(* and cancel, before it takes the next.                                    *)
THEOREM RepliesInOrder == Spec => []AnswersInOrder
<1>1. Inv => AnswersInOrder
  BY DEF Inv, Replied
<1> QED
  BY <1>1, ForwardsInv, PTL

(* TypeOK of the remote forwards' state, with the requests within bounds.   *)
THEOREM ForwardsTyped == Spec => []TypeOK
<1>1. Inv => TypeOK
  BY DEF Inv
<1> QED
  BY <1>1, ForwardsInv, PTL
=============================================================================
