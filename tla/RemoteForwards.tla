--------------------------- MODULE RemoteForwards ---------------------------
(***************************************************************************)
(* The remote forwards (ssh -R) of one connection of the in-container ssh  *)
(* server: one goroutine answers the client's tcpip-forward and            *)
(* cancel-tcpip-forward requests in order, a goroutine per listener        *)
(* accepts, a goroutine per accepted connection opens a channel back to    *)
(* the client, and Serve's deferred closeAll shuts the listeners down.     *)
(*                                                                         *)
(* The n-th request has the number n, and so has the listener it opens.    *)
(* Requests of other types and malformed ones only get a refusal, which is *)
(* what a listen that fails gets.  The client wants every reply.           *)
(***************************************************************************)
EXTENDS Naturals, Sequences

CONSTANTS
  Addrs,      \* addresses the client asks to bind
  Ports,      \* ports in the container
  Requests,   \* requests the client sends at most
  Conns       \* connections that programs in the container make

ASSUME ForwardAssumption ==
  /\ Ports \subseteq Nat \ {0}
  /\ Requests \in Nat

VARIABLES
  asked,      \* the client's requests
  handled,    \* how many of them the handler has answered or is answering
  at,         \* where the handler is: idle, reply, register or close
  target,     \* the listener it works on
  bindPort,   \* bindPort[n]: the port that listener n bound, 0: never did
  bound,      \* the listeners that are open
  accepting,  \* the listeners that have an accept goroutine
  ln,         \* remoteForwards.ln: the tracked listener of each key, 0: none
  tcp,        \* tcp[c]: what became of connection c, and at which listener
  sent,       \* what the agent has sent to the client
  conn        \* the connection: up, lost, closed (closeAll has run), over

vars == <<asked, handled, at, target, bindPort, bound, accepting, ln, tcp, sent, conn>>

Numbers == 1..Requests
Keys == Addrs \X (Ports \cup {0})

Key(n) == <<asked[n].addr, bindPort[n]>>

TypeOK ==
  /\ asked \in Seq([kind : {"forward", "cancel"}, addr : Addrs, port : Ports \cup {0}])
  /\ handled \in 0..Len(asked)
  /\ at \in {"idle", "reply", "register", "close"}
  /\ target \in Numbers \cup {0}
  /\ bindPort \in [Numbers -> Ports \cup {0}]
  /\ bound \subseteq Numbers
  /\ accepting \subseteq Numbers
  /\ ln \in [Keys -> Numbers \cup {0}]
  /\ tcp \in [Conns -> [is : {"none", "queued", "accepted", "opened", "reset"},
                        ln : Numbers \cup {0}]]
  /\ sent \in Seq([kind : {"granted", "refused", "cancelled", "open"}, n : Numbers])
  /\ conn \in {"up", "lost", "closed", "over"}

Init ==
  /\ asked = <<>> /\ handled = 0
  /\ at = "idle" /\ target = 0
  /\ bindPort = [n \in Numbers |-> 0]
  /\ bound = {} /\ accepting = {}
  /\ ln = [k \in Keys |-> 0]
  /\ tcp = [c \in Conns |-> [is |-> "none", ln |-> 0]]
  /\ sent = <<>>
  /\ conn = "up"

Tell(kind, n) == sent' = Append(sent, [kind |-> kind, n |-> n])

----------------------------------------------------------------------------
(* The client forwards a port, 0 for any, or cancels what it believes it    *)
(* has: it names the port that the reply gave it.                           *)
Ask(kind, addr, port) ==
  /\ conn = "up"
  /\ Len(asked) < Requests
  /\ kind = "cancel" => port # 0
  /\ asked' = Append(asked, [kind |-> kind, addr |-> addr, port |-> port])
  /\ UNCHANGED <<handled, at, target, bindPort, bound, accepting, ln, tcp, sent, conn>>

(* handleGlobalRequests: requests that were queued are handled even after   *)
(* the connection is lost, for as long as the process lives.                *)
Takes(kind) ==
  /\ conn # "over"
  /\ at = "idle"
  /\ handled < Len(asked)
  /\ asked[handled + 1].kind = kind
  /\ handled' = handled + 1
  /\ target' = handled + 1

Free(addr, port) == \A n \in bound : Key(n) # <<addr, port>>

(* Mutant: connections are accepted before the reply is out.                *)
MutantListen(port) ==
  /\ Takes("forward")
  /\ LET req == asked[handled + 1]
     IN  /\ req.port \in {0, port}
         /\ Free(req.addr, port)
  /\ bindPort' = [bindPort EXCEPT ![handled + 1] = port]
  /\ bound' = bound \cup {handled + 1}
  /\ accepting' = accepting \cup {handled + 1}
  /\ at' = "reply"
  /\ UNCHANGED <<asked, ln, tcp, sent, conn>>

(* start: the kernel picks the port when the client asked for 0.            *)
Listen(port) ==
  /\ Takes("forward")
  /\ LET req == asked[handled + 1]
     IN  /\ req.port \in {0, port}
         /\ Free(req.addr, port)
  /\ bindPort' = [bindPort EXCEPT ![handled + 1] = port]
  /\ bound' = bound \cup {handled + 1}
  /\ at' = "reply"
  /\ UNCHANGED <<asked, accepting, ln, tcp, sent, conn>>

ListenFails ==
  /\ Takes("forward")
  /\ Tell("refused", handled + 1)
  /\ UNCHANGED <<asked, at, bindPort, bound, accepting, ln, tcp, conn>>

ReplyGranted ==
  /\ conn # "over"
  /\ at = "reply"
  /\ Tell("granted", target)
  /\ at' = "register"
  /\ UNCHANGED <<asked, handled, target, bindPort, bound, accepting, ln, tcp, conn>>

(* Mutant: the forward is tracked under the port that the client asked for. *)
MutantRegister ==
  /\ conn # "over"
  /\ at = "register"
  /\ ln' = [ln EXCEPT ![<<asked[target].addr, asked[target].port>>] = target]
  /\ accepting' = accepting \cup {target}
  /\ at' = "idle"
  /\ UNCHANGED <<asked, handled, target, bindPort, bound, tcp, sent, conn>>

(* The forward is tracked under the port actually bound, then accepts.      *)
Register ==
  /\ conn # "over"
  /\ at = "register"
  /\ ln' = [ln EXCEPT ![Key(target)] = target]
  /\ accepting' = accepting \cup {target}
  /\ at' = "idle"
  /\ UNCHANGED <<asked, handled, target, bindPort, bound, tcp, sent, conn>>

(* Mutant: a forward that is not there is not answered.                     *)
MutantCancel ==
  /\ Takes("cancel")
  /\ LET req == asked[handled + 1]
         key == <<req.addr, req.port>>
     IN  /\ ln' = [ln EXCEPT ![key] = 0]
         /\ at' = IF ln[key] = 0 THEN "idle" ELSE "close"
         /\ bound' = bound \ {ln[key]}
  /\ UNCHANGED <<asked, bindPort, accepting, tcp, sent, conn>>

(* cancel takes the listener out of the map, closes it and replies, also    *)
(* when there was none.                                                     *)
Cancel ==
  /\ Takes("cancel")
  /\ LET req == asked[handled + 1]
         key == <<req.addr, req.port>>
     IN  /\ ln' = [ln EXCEPT ![key] = 0]
         /\ bound' = bound \ {ln[key]}
  /\ at' = "close"
  /\ UNCHANGED <<asked, bindPort, accepting, tcp, sent, conn>>

ReplyCancelled ==
  /\ conn # "over"
  /\ at = "close"
  /\ Tell("cancelled", target)
  /\ at' = "idle"
  /\ UNCHANGED <<asked, handled, target, bindPort, bound, accepting, ln, tcp, conn>>

----------------------------------------------------------------------------
(* A program connects and waits in the listener's backlog; closing the      *)
(* listener resets whoever waits there.                                     *)
Connect(c, n) ==
  /\ tcp[c].is = "none"
  /\ n \in bound
  /\ tcp' = [tcp EXCEPT ![c] = [is |-> "queued", ln |-> n]]
  /\ UNCHANGED <<asked, handled, at, target, bindPort, bound, accepting, ln, sent, conn>>

Accept(c) ==
  /\ conn # "over"
  /\ tcp[c].is = "queued"
  /\ tcp[c].ln \in accepting \cap bound
  /\ tcp' = [tcp EXCEPT ![c].is = "accepted"]
  /\ UNCHANGED <<asked, handled, at, target, bindPort, bound, accepting, ln, sent, conn>>

(* The accept loop ends with any error of Accept: the listener stays open   *)
(* and tracked, and whoever waits at it is not accepted any more.  An error *)
(* shows only once a connection waits, and of a closed listener never.      *)
AcceptFails(n) ==
  /\ conn # "over"
  /\ n \in accepting \cap bound
  /\ \E c \in Conns : tcp[c] = [is |-> "queued", ln |-> n]
  /\ accepting' = accepting \ {n}
  /\ UNCHANGED <<asked, handled, at, target, bindPort, bound, ln, tcp, sent, conn>>

Reset(c) ==
  /\ tcp[c].is = "queued"
  /\ tcp[c].ln \notin bound
  /\ tcp' = [tcp EXCEPT ![c].is = "reset"]
  /\ UNCHANGED <<asked, handled, at, target, bindPort, bound, accepting, ln, sent, conn>>

(* forward: OpenChannel fails once the connection is lost.                  *)
Open(c) ==
  /\ conn # "over"
  /\ tcp[c].is = "accepted"
  /\ IF conn = "up"
     THEN /\ Tell("open", tcp[c].ln)
          /\ tcp' = [tcp EXCEPT ![c].is = "opened"]
     ELSE /\ tcp' = [tcp EXCEPT ![c].is = "reset"]
          /\ UNCHANGED sent
  /\ UNCHANGED <<asked, handled, at, target, bindPort, bound, accepting, ln, conn>>

----------------------------------------------------------------------------
Disconnect ==
  /\ conn = "up"
  /\ conn' = "lost"
  /\ UNCHANGED <<asked, handled, at, target, bindPort, bound, accepting, ln, tcp, sent>>

CloseAll ==
  /\ conn = "lost"
  /\ conn' = "closed"
  /\ bound' = bound \ {ln[k] : k \in Keys}
  /\ ln' = [k \in Keys |-> 0]
  /\ UNCHANGED <<asked, handled, at, target, bindPort, accepting, tcp, sent>>

(* Serve returns.                                                           *)
Return ==
  /\ conn = "closed"
  /\ conn' = "over"
  /\ UNCHANGED <<asked, handled, at, target, bindPort, bound, accepting, ln, tcp, sent>>

----------------------------------------------------------------------------
Handler ==
  \/ \E port \in Ports : Listen(port)
  \/ ListenFails \/ ReplyGranted \/ Register \/ Cancel \/ ReplyCancelled

Next ==
  \/ \E kind \in {"forward", "cancel"}, addr \in Addrs, port \in Ports \cup {0} :
       Ask(kind, addr, port)
  \/ Handler
  \/ \E c \in Conns : \/ \E n \in Numbers : Connect(c, n)
                      \/ Accept(c) \/ Reset(c) \/ Open(c)
  \/ \E n \in Numbers : AcceptFails(n)
  \/ Disconnect \/ CloseAll \/ Return

Spec == Init /\ [][Next]_vars

(* The goroutine that handles the requests is scheduled.                    *)
FairSpec == Spec /\ WF_vars(Handler)

----------------------------------------------------------------------------
(* Properties.                                                              *)

Position(kind, n) == {i \in DOMAIN sent : sent[i] = [kind |-> kind, n |-> n]}

(* A client whose cancel was answered has its port back: the forward it     *)
(* named by the port it was told is closed, whether it had chosen that port *)
(* or the kernel (TestRemoteForwardCancelReleasesPort).                     *)
CancelReleases ==
  \A n, m \in Numbers :
    \A i \in Position("granted", n), j \in Position("cancelled", m) :
      i < j /\ Key(n) = <<asked[m].addr, asked[m].port>> => n \notin bound

(* The client learns of a forward before the first connection to it: a      *)
(* forwarded-tcpip channel names a port that the client knows already.      *)
OpenAnnounced ==
  \A n \in Numbers : \A j \in Position("open", n) :
    \E i \in Position("granted", n) : i < j

(* An open listener is in the map under the port that it bound, where a     *)
(* cancel or closeAll finds it, or the handler is about to put it there.    *)
EveryListenerTracked ==
  \A n \in bound : ln[Key(n)] = n \/ (at \in {"reply", "register"} /\ target = n)

IsAnswer(i) == sent[i].kind # "open"

(* A reply carries no name of its request: the client takes the k-th reply  *)
(* for its k-th request.  Every answer follows those to all the requests    *)
(* before its own and precedes the others, and is one that a request of     *)
(* that kind can get (start and cancel reply once on every path).           *)
AnswersInOrder ==
  \A j \in DOMAIN sent : IsAnswer(j) =>
    /\ sent[j].kind \in IF asked[sent[j].n].kind = "forward" THEN {"granted", "refused"}
                                                           ELSE {"cancelled"}
    /\ \A i \in DOMAIN sent : IsAnswer(i) /\ i < j => sent[i].n < sent[j].n
    /\ \A m \in Numbers :
         m < sent[j].n => \E i \in DOMAIN sent : IsAnswer(i) /\ i < j /\ sent[i].n = m

(* "a client that asked for a reply is never left waiting".                 *)
Answered(n) == \E i \in DOMAIN sent : sent[i].n = n /\ IsAnswer(i)

EveryRequestAnswered ==
  []<>(conn = "up" => \A n \in DOMAIN asked : Answered(n))

(* The listeners "are all closed on disconnect".                            *)
ForwardsClosed == conn = "over" => bound = {}
=============================================================================
