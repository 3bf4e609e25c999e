------------------------------- MODULE Bridge -------------------------------
(***************************************************************************)
(* One forwarded connection of the in-container ssh server (package agent, *)
(* forward.go): an ssh channel to the client and a socket to a program in  *)
(* the container, and bridge between them, a goroutine per direction.      *)
(* The client opens a direct one (ssh -L); the agent opens the others, for *)
(* a connection to a remote forward (ssh -R) or to the ssh-agent socket.   *)
(*                                                                         *)
(* A direction has the name of the side that sends.  Units of data are     *)
(* counted, for they stay in order.  What the kernels, the ssh library and *)
(* the two ends do is external: buffers of Window units, a half-close, a   *)
(* close, and the loss of a side with part of what it sent last.           *)
(***************************************************************************)
EXTENDS Naturals

CONSTANTS
  Units,     \* bound: units that a side sends
  Window     \* units that a receiver takes before it has read them

ASSUME BridgeAssumption == Units \in Nat /\ Window \in Nat \ {0}

Sides == {"client", "program"}
Other(d) == IF d = "client" THEN "program" ELSE "client"

VARIABLES
  at,      \* where the handler is: dial, accept, open, copy, close_channel,
           \* close_socket, over
  up,      \* the ssh connection is up
  sent,    \* sent[d]: units that side d has written
  ended,   \* ended[d]: how d's writing ended: no, eof, cut
  open,    \* open[d]: side d is there
  in,      \* in[d]: units from d that the agent has not read
  held,    \* held[d]: units read and not written by io.Copy
  out,     \* out[d]: units of d's written to the other side, which has not read them
  copier,  \* copier[d]: the goroutine of direction d: none, copy, shut, done
  eof,     \* eof[d]: the agent has told the other side that no more comes
  got,     \* got[d]: units of d's that the other side has read
  heard    \* heard[d]: what the other side has read at the end: nothing, eof, error

flow == <<in, held, out>>
ends == <<sent, ended, open, got, heard>>
vars == <<at, up, ends, flow, copier, eof>>

TypeOK ==
  /\ at \in {"dial", "accept", "open", "copy", "close_channel", "close_socket", "over"}
  /\ up \in BOOLEAN
  /\ sent \in [Sides -> 0..Units] /\ got \in [Sides -> 0..Units]
  /\ ended \in [Sides -> {"no", "eof", "cut"}]
  /\ open \in [Sides -> BOOLEAN] /\ eof \in [Sides -> BOOLEAN]
  /\ in \in [Sides -> 0..Window] /\ out \in [Sides -> 0..Window]
  /\ held \in [Sides -> 0..1]
  /\ copier \in [Sides -> {"none", "copy", "shut", "done"}]
  /\ heard \in [Sides -> {"nothing", "eof", "error"}]

None == [d \in Sides |-> 0]

(* A direct channel starts with the dial, the others with the program's     *)
(* connection.                                                              *)
Init ==
  /\ at \in {"dial", "open"}
  /\ up = TRUE
  /\ sent = None /\ got = None
  /\ ended = [d \in Sides |-> "no"]
  /\ open = [d \in Sides |-> TRUE]
  /\ in = None /\ held = None /\ out = None
  /\ copier = [d \in Sides |-> "none"]
  /\ eof = [d \in Sides |-> FALSE]
  /\ heard = [d \in Sides |-> "nothing"]

----------------------------------------------------------------------------
(* The two ends.  The client has a channel once it is accepted, the program *)
(* a socket once it is connected.                                           *)
Talks(d) ==
  /\ open[d]
  /\ IF d = "client" THEN at \in {"copy", "close_channel"} ELSE at \notin {"dial", "over"}

Send(d) ==
  /\ Talks(d) /\ ended[d] = "no"
  /\ sent[d] < Units /\ in[d] < Window
  /\ sent' = [sent EXCEPT ![d] = @ + 1]
  /\ in' = [in EXCEPT ![d] = @ + 1]
  /\ UNCHANGED <<at, up, ended, open, got, heard, held, out, copier, eof>>

HalfClose(d) ==
  /\ Talks(d) /\ ended[d] = "no"
  /\ ended' = [ended EXCEPT ![d] = "eof"]
  /\ UNCHANGED <<at, up, sent, open, got, heard, flow, copier, eof>>

(* It closes for good; what it has sent still arrives.                      *)
Close(d) ==
  /\ Talks(d)
  /\ open' = [open EXCEPT ![d] = FALSE]
  /\ ended' = [ended EXCEPT ![d] = "eof"]
  /\ UNCHANGED <<at, up, sent, got, heard, flow, copier, eof>>

(* It is gone, and part of what it sent last may be lost with it.           *)
CutOff(d) ==
  \E k \in 0..in[d] :
    /\ open' = [open EXCEPT ![d] = FALSE]
    /\ in' = [in EXCEPT ![d] = k]
    /\ ended' = [ended EXCEPT ![d] = IF @ = "eof" /\ k = in[d] THEN "eof" ELSE "cut"]
    /\ UNCHANGED <<sent, got, heard, held, out>>

(* The program is killed or resets the connection.                          *)
Reset ==
  /\ Talks("program")
  /\ CutOff("program")
  /\ UNCHANGED <<at, up, copier, eof>>

(* The ssh connection is lost, and the client's end with it.                *)
Lose ==
  /\ up /\ at # "over"
  /\ up' = FALSE
  /\ IF open["client"] THEN CutOff("client") ELSE UNCHANGED <<ends, flow>>
  /\ UNCHANGED <<at, copier, eof>>

Receive(d) ==
  /\ open[Other(d)] /\ heard[d] = "nothing"
  /\ out[d] > 0
  /\ out' = [out EXCEPT ![d] = @ - 1]
  /\ got' = [got EXCEPT ![d] = @ + 1]
  /\ UNCHANGED <<at, up, sent, ended, open, heard, in, held, copier, eof>>

ReceiveEnd(d) ==
  /\ open[Other(d)] /\ heard[d] = "nothing"
  /\ out[d] = 0 /\ eof[d]
  /\ heard' = [heard EXCEPT ![d] = "eof"]
  /\ UNCHANGED <<at, up, sent, ended, open, got, flow, copier, eof>>

----------------------------------------------------------------------------
(* handleDirectTCPIP: dial, then accept the channel; forward and             *)
(* forwardAgentConn: open a channel for a connection that is there.         *)
Dial ==
  /\ at = "dial"
  /\ at' \in {"accept", "over"}
  /\ UNCHANGED <<up, ends, flow, copier, eof>>

StartCopy ==
  /\ at' = "copy"
  /\ copier' = [d \in Sides |-> "copy"]
  /\ UNCHANGED <<up, ends, flow, eof>>

Accept ==
  /\ at = "accept"
  /\ \/ up /\ StartCopy
     \/ ~up /\ at' = "close_socket" /\ UNCHANGED <<up, ends, flow, copier, eof>>

OpenChannel ==
  /\ at = "open"
  /\ \/ up /\ StartCopy
     \/ /\ up                       \* the client refuses
        /\ at' = "close_socket"
        /\ open' = [open EXCEPT !["client"] = FALSE]
        /\ ended' = [ended EXCEPT !["client"] = "eof"]
        /\ UNCHANGED <<up, sent, got, heard, flow, copier, eof>>
     \/ ~up /\ at' = "close_socket" /\ UNCHANGED <<up, ends, flow, copier, eof>>

----------------------------------------------------------------------------
(* bridge: io.Copy reads, writes, and returns at the end of its source or at *)
(* an error of either; then CloseWrite, whichever it was.                   *)
Read(d) ==
  /\ copier[d] = "copy" /\ held[d] = 0
  /\ in[d] > 0
  /\ in' = [in EXCEPT ![d] = @ - 1]
  /\ held' = [held EXCEPT ![d] = 1]
  /\ UNCHANGED <<at, up, ends, out, copier, eof>>

(* Mutant: a failed read is retried.                                        *)
MutantReadEnds(d) ==
  /\ copier[d] = "copy" /\ held[d] = 0
  /\ in[d] = 0 /\ ended[d] = "eof"
  /\ copier' = [copier EXCEPT ![d] = "shut"]
  /\ UNCHANGED <<at, up, ends, flow, eof>>

ReadEnds(d) ==
  /\ copier[d] = "copy" /\ held[d] = 0
  /\ in[d] = 0 /\ ended[d] # "no"
  /\ copier' = [copier EXCEPT ![d] = "shut"]
  /\ UNCHANGED <<at, up, ends, flow, eof>>

Write(d) ==
  /\ copier[d] = "copy" /\ held[d] = 1
  /\ open[Other(d)] /\ out[d] < Window
  /\ held' = [held EXCEPT ![d] = 0]
  /\ out' = [out EXCEPT ![d] = @ + 1]
  /\ UNCHANGED <<at, up, ends, in, copier, eof>>

(* A write to a side that has left fails; the kernel may take the first to  *)
(* a socket.                                                                *)
WriteFails(d) ==
  /\ copier[d] = "copy" /\ held[d] = 1
  /\ ~open[Other(d)]
  /\ held' = [held EXCEPT ![d] = 0]
  /\ \/ copier' = [copier EXCEPT ![d] = "shut"]
     \/ d = "client" /\ UNCHANGED copier
  /\ UNCHANGED <<at, up, ends, in, out, eof>>

(* Mutant: each direction is shut when the whole bridge is done.            *)
MutantShut(d) ==
  /\ \A e \in Sides : copier[e] = "shut"
  /\ copier' = [e \in Sides |-> "done"]
  /\ eof' = [e \in Sides |-> TRUE]
  /\ UNCHANGED <<at, up, ends, flow>>

Shut(d) ==
  /\ copier[d] = "shut"
  /\ copier' = [copier EXCEPT ![d] = "done"]
  /\ eof' = [eof EXCEPT ![d] = TRUE]
  /\ UNCHANGED <<at, up, ends, flow>>

(* Mutant: returning when either side closes.                               *)
MutantWait ==
  /\ at = "copy"
  /\ \E d \in Sides : copier[d] = "done"
  /\ at' = "close_channel"
  /\ copier' = [d \in Sides |-> "done"]
  /\ UNCHANGED <<up, ends, flow, eof>>

(* wg.Wait.                                                                 *)
Wait ==
  /\ at = "copy"
  /\ \A d \in Sides : copier[d] = "done"
  /\ at' = "close_channel"
  /\ UNCHANGED <<up, ends, flow, copier, eof>>

CloseChannel ==
  /\ at = "close_channel"
  /\ at' = "close_socket"
  /\ eof' = [eof EXCEPT !["program"] = TRUE]
  /\ UNCHANGED <<up, ends, flow, copier>>

(* The kernel resets a socket that is closed with data unread.              *)
SocketCloses ==
  /\ at' = "over"
  /\ copier' = [d \in Sides |-> "none"]
  /\ eof' = [eof EXCEPT !["client"] = TRUE]
  /\ heard' = IF in["program"] > 0 /\ heard["client"] = "nothing"
              THEN [heard EXCEPT !["client"] = "error"] ELSE heard
  /\ UNCHANGED <<up, sent, open, got, flow>>

CloseSocket ==
  /\ at = "close_socket"
  /\ SocketCloses
  /\ UNCHANGED ended

(* The connection is lost, Serve returns and the agent exits: its sockets   *)
(* are closed and its goroutines are gone, with all they had still to write. *)
AgentExits ==
  /\ ~up /\ at \notin {"dial", "over"}
  /\ SocketCloses
  /\ ended' = IF in["client"] + held["client"] = 0 THEN ended
              ELSE [ended EXCEPT !["client"] = "cut"]

----------------------------------------------------------------------------
Copy(d) == Read(d) \/ ReadEnds(d) \/ Write(d) \/ WriteFails(d) \/ Shut(d)
Handler == Dial \/ Accept \/ OpenChannel \/ Wait \/ CloseChannel \/ CloseSocket

Next ==
  \/ \E d \in Sides : \/ Send(d) \/ HalfClose(d) \/ Close(d)
                      \/ Receive(d) \/ ReceiveEnd(d) \/ Copy(d)
  \/ Reset \/ Lose \/ Handler \/ AgentExits

Spec == Init /\ [][Next]_vars

(* The goroutines are scheduled.  Nothing is assumed of the two ends.       *)
FairSpec ==
  /\ Spec
  /\ \A d \in Sides : WF_vars(Copy(d))
  /\ WF_vars(Wait \/ CloseChannel \/ CloseSocket)

----------------------------------------------------------------------------
(* Properties.                                                              *)

(* bridge is a stream in each direction: in order, complete up to a clean   *)
(* end unless the sender was cut off, and independent of the other.         *)
S == INSTANCE Stream

ImplementsStream == S!Spec

(* A unit waits for a receiver that does not read.                          *)
Blocked(d) == open[Other(d)] /\ held[d] = 1 /\ out[d] = Window

(* Half-close: that one side has said all it had to say reaches the other,  *)
(* which may go on talking.                                                 *)
EndsPropagate ==
  \A d \in Sides :
    []<>(at = "copy" /\ ended[d] # "no" /\ ~Blocked(d) => eof[d])

(* When both sides have ended the bridge is over: channel and socket are    *)
(* closed, whatever failed on the way.                                      *)
BridgeEnds ==
  []<>~(at = "copy" /\ \A d \in Sides : ended[d] # "no" /\ ~Blocked(d))

(* What a side sent before it closed in order is not lost afterwards.       *)
OrderlyEndKept ==
  [][\A d \in Sides : ended[d] = "eof" => ended'[d] = "eof"]_vars

(* "returning when either side closes".                                     *)
EitherSideEnds ==
  []<>(at = "copy" => \A d \in Sides : open[d])
=============================================================================
