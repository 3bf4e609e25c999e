---------------------------- MODULE AgentSession ----------------------------
(***************************************************************************)
(* One connection of the in-container ssh server (package agent): the mux  *)
(* loop of x/crypto/ssh that feeds a bounded queue of requests per session *)
(* channel, each session's request loop, the goroutine that runs its one   *)
(* command, the child process, the applier of terminal sizes, the          *)
(* ssh-agent socket of the connection, and Serve's teardown.               *)
(*                                                                         *)
(* The n-th packet of the connection carries the number n: it is the size  *)
(* that a pty-req or window-change asks for and the variable that an env   *)
(* sets.  Requests with a malformed payload, and those that only get a     *)
(* reply, do nothing and are the kind "other"; shell and exec are one kind.*)
(***************************************************************************)
EXTENDS Naturals, Sequences, FiniteSets

CONSTANTS
  Sessions,    \* the session channels of the connection
  Kinds,       \* Kinds[s]: the packets the client sends on channel s
  Packets,     \* how many packets it sends at most
  QueueCap,    \* requests that x/crypto/ssh queues per channel
  Forwarding   \* the agent was started with --forward-agent

AllKinds == {"pty", "window", "env", "agent", "run", "sftp", "other", "close"}

ASSUME AgentAssumption ==
  /\ Kinds \in [Sessions -> SUBSET AllKinds]
  /\ Packets \in Nat
  /\ QueueCap \in Nat \ {0}
  /\ Forwarding \in BOOLEAN

VARIABLES
  log,      \* everything the client has sent
  wire,     \* what of it the mux loop has not read
  queue,    \* queue[s]: requests waiting for the loop of s
  open,     \* open[s]: the mux has not closed channel s
  loop,     \* loop[s]: 0, the size the loop is publishing, or Over
  started,  \* started[s]: the packet that claimed the command slot, 0: none
  pty,      \* pty[s]: the client asked for a pty
  env,      \* env[s]: the variables the client has set
  slot,     \* slot[s]: winCh, 0 when empty
  size,     \* size[s]: the terminal's size
  cmd,      \* cmd[s]: what the command goroutine does next
  snap,     \* snap[s]: the sessionParams the command is built from
  child,    \* child[s]: the shell or command
  held,     \* held[s]: a descendant of the child holds its output open
  unread,   \* unread[s]: output waits for the client to open the window of s
  status,   \* status[s]: exit-status messages sent
  conn,     \* the connection, and how far Serve's teardown is
  sock      \* the ssh-agent socket and its directory exist

clientVars == <<log, wire>>
loopVars == <<queue, open, loop, started, pty, env>>
sizeVars == <<slot, size>>
cmdVars == <<cmd, snap, child, held, unread, status>>
vars == <<clientVars, loopVars, sizeVars, cmdVars, conn, sock>>

Numbers == 1..Packets
Over == Packets + 1
Cmds == {"none", "snapshot", "build", "launch", "copy", "wait", "join", "exit", "done"}
NoSnap == [pty |-> FALSE, env |-> {}, sock |-> FALSE]

TypeOK ==
  /\ log \in Seq([ch : Sessions, kind : AllKinds])
  /\ wire \in Seq([ch : Sessions, kind : AllKinds, n : Numbers])
  /\ \A s \in Sessions :
       /\ queue[s] \in Seq([ch : {s}, kind : Kinds[s] \ {"close"}, n : Numbers])
       /\ Len(queue[s]) <= QueueCap
  /\ open \in [Sessions -> BOOLEAN]
  /\ loop \in [Sessions -> 0..Over]
  /\ started \in [Sessions -> Numbers \cup {0}]
  /\ pty \in [Sessions -> BOOLEAN]
  /\ env \in [Sessions -> SUBSET Numbers]
  /\ slot \in [Sessions -> Numbers \cup {0}]
  /\ size \in [Sessions -> Numbers \cup {0}]
  /\ cmd \in [Sessions -> Cmds]
  /\ snap \in [Sessions -> [pty : BOOLEAN, env : SUBSET Numbers, sock : BOOLEAN]]
  /\ child \in [Sessions -> {"none", "running", "ended"}]
  /\ held \in [Sessions -> BOOLEAN]
  /\ unread \in [Sessions -> BOOLEAN]
  /\ status \in [Sessions -> Nat]
  /\ conn \in {"up", "lost", "cancelled", "closed", "exited"}
  /\ sock \in BOOLEAN

Init ==
  /\ log = <<>> /\ wire = <<>>
  /\ queue = [s \in Sessions |-> <<>>]
  /\ open = [s \in Sessions |-> TRUE]
  /\ loop = [s \in Sessions |-> 0]
  /\ started = [s \in Sessions |-> 0]
  /\ pty = [s \in Sessions |-> FALSE]
  /\ env = [s \in Sessions |-> {}]
  /\ slot = [s \in Sessions |-> 0]
  /\ size = [s \in Sessions |-> 0]
  /\ cmd = [s \in Sessions |-> "none"]
  /\ snap = [s \in Sessions |-> NoSnap]
  /\ child = [s \in Sessions |-> "none"]
  /\ held = [s \in Sessions |-> FALSE]
  /\ unread = [s \in Sessions |-> FALSE]
  /\ status = [s \in Sessions |-> 0]
  /\ conn = "up"
  /\ sock = FALSE

Put(f, s, v) == [f EXCEPT ![s] = v]

Alive == conn # "exited"

----------------------------------------------------------------------------
(* The client sends, and closes a channel after the last packet on it.      *)
Sent(s, kind) == {n \in DOMAIN log : log[n].ch = s /\ log[n].kind = kind}

Send(s, kind) ==
  /\ conn = "up"
  /\ Len(log) < Packets
  /\ Sent(s, "close") = {}
  /\ log' = Append(log, [ch |-> s, kind |-> kind])
  /\ wire' = Append(wire, [ch |-> s, kind |-> kind, n |-> Len(log) + 1])
  /\ UNCHANGED <<loopVars, sizeVars, cmdVars, conn, sock>>

(* The one mux loop of the connection blocks while the queue of the channel *)
(* is full.                                                                 *)
Deliver ==
  /\ conn = "up"
  /\ wire # <<>>
  /\ LET m == Head(wire)
     IN  IF m.kind = "close"
         THEN open' = Put(open, m.ch, FALSE) /\ UNCHANGED queue
         ELSE /\ Len(queue[m.ch]) < QueueCap
              /\ queue' = Put(queue, m.ch, Append(queue[m.ch], m))
              /\ UNCHANGED open
  /\ wire' = Tail(wire)
  /\ UNCHANGED <<log, loop, started, pty, env, sizeVars, cmdVars, conn, sock>>

----------------------------------------------------------------------------
(* handleSession: one request after the other, to the end of the queue.     *)
Takes(s, kinds) ==
  /\ Alive
  /\ loop[s] = 0
  /\ queue[s] # <<>>
  /\ Head(queue[s]).kind \in kinds
  /\ queue' = Put(queue, s, Tail(queue[s]))

(* Mutant: only the last variable is kept.                                  *)
MutantHandleEnv(s) ==
  /\ Takes(s, {"env"})
  /\ env' = Put(env, s, {Head(queue[s]).n})
  /\ UNCHANGED <<clientVars, open, loop, started, pty, sizeVars, cmdVars, conn, sock>>

HandleEnv(s) ==
  /\ Takes(s, {"env"})
  /\ env' = Put(env, s, env[s] \cup {Head(queue[s]).n})
  /\ UNCHANGED <<clientVars, open, loop, started, pty, sizeVars, cmdVars, conn, sock>>

(* Mutant: a size that nobody has taken stays.                              *)
MutantHandleSize(s) ==
  /\ Takes(s, {"pty", "window"})
  /\ pty' = Put(pty, s, pty[s] \/ Head(queue[s]).kind = "pty")
  /\ loop' = Put(loop, s, Head(queue[s]).n)
  /\ UNCHANGED <<clientVars, open, started, env, sizeVars, cmdVars, conn, sock>>

(* pty-req and window-change: resize discards the size that nobody has      *)
(* taken, then publishes the new one if the slot is still empty.            *)
HandleSize(s) ==
  /\ Takes(s, {"pty", "window"})
  /\ pty' = Put(pty, s, pty[s] \/ Head(queue[s]).kind = "pty")
  /\ slot' = Put(slot, s, 0)
  /\ loop' = Put(loop, s, Head(queue[s]).n)
  /\ UNCHANGED <<clientVars, open, started, env, size, cmdVars, conn, sock>>

PublishSize(s) ==
  /\ Alive
  /\ loop[s] \in Numbers
  /\ slot' = IF slot[s] = 0 THEN Put(slot, s, loop[s]) ELSE slot
  /\ loop' = Put(loop, s, 0)
  /\ UNCHANGED <<clientVars, queue, open, started, pty, env, size, cmdVars, conn, sock>>

(* auth-agent-req opens the connection's socket on first use, or fails to.  *)
HandleAgent(s) ==
  /\ Takes(s, {"agent"})
  /\ sock' \in IF Forwarding THEN {TRUE, sock} ELSE {sock}
  /\ UNCHANGED <<clientVars, open, loop, started, pty, env, sizeVars, cmdVars, conn>>

(* Mutant: the command runs on the loop itself.                             *)
MutantHandleStart(s) ==
  /\ cmd[s] \in {"none", "done"}
  /\ Takes(s, {"run", "sftp", "other"})
  /\ IF started[s] = 0 /\ Head(queue[s]).kind # "other"
     THEN /\ started' = Put(started, s, Head(queue[s]).n)
          /\ cmd' = Put(cmd, s, "snapshot")
     ELSE UNCHANGED <<started, cmd>>
  /\ UNCHANGED <<clientVars, open, loop, pty, env, sizeVars, snap, child, held, unread, status,
                 conn, sock>>

(* Mutant: the slot is not claimed.                                         *)
MutantTwoCommands(s) ==
  /\ Takes(s, {"run", "sftp", "other"})
  /\ IF Head(queue[s]).kind # "other"
     THEN /\ started' = Put(started, s, Head(queue[s]).n)
          /\ cmd' = Put(cmd, s, "snapshot")
     ELSE UNCHANGED <<started, cmd>>
  /\ UNCHANGED <<clientVars, open, loop, pty, env, sizeVars, snap, child, held, unread, status,
                 conn, sock>>

(* spawn: the first shell, exec or sftp gets a goroutine; the others, and   *)
(* whatever else may come, are only answered.                               *)
HandleStart(s) ==
  /\ Takes(s, {"run", "sftp", "other"})
  /\ IF started[s] = 0 /\ Head(queue[s]).kind # "other"
     THEN /\ started' = Put(started, s, Head(queue[s]).n)
          /\ cmd' = Put(cmd, s, "snapshot")
     ELSE UNCHANGED <<started, cmd>>
  /\ UNCHANGED <<clientVars, open, loop, pty, env, sizeVars, snap, child, held, unread, status,
                 conn, sock>>

(* Mutant: the forwarding belongs to the session.                           *)
MutantLoopEnds(s) ==
  /\ Alive
  /\ loop[s] = 0 /\ queue[s] = <<>> /\ ~open[s]
  /\ loop' = Put(loop, s, Over)
  /\ sock' = FALSE
  /\ UNCHANGED <<clientVars, queue, open, started, pty, env, sizeVars, cmdVars, conn>>

LoopEnds(s) ==
  /\ Alive
  /\ loop[s] = 0 /\ queue[s] = <<>> /\ ~open[s]
  /\ loop' = Put(loop, s, Over)
  /\ UNCHANGED <<clientVars, queue, open, started, pty, env, sizeVars, cmdVars, conn, sock>>

----------------------------------------------------------------------------
(* The command goroutine: start, or startSFTP, which runs with pipes and    *)
(* never on the pty.                                                        *)
TakesPty(s) == pty[s] /\ log[started[s]].kind = "run"

TakeSnapshot(s) ==
  /\ Alive /\ cmd[s] = "snapshot"
  /\ snap' = Put(snap, s, [NoSnap EXCEPT !.pty = TakesPty(s), !.env = env[s]])
  /\ cmd' = Put(cmd, s, "build")
  /\ UNCHANGED <<clientVars, loopVars, sizeVars, child, held, unread, status, conn, sock>>

(* buildCommand asks for SSH_AUTH_SOCK last; the user may be unknown.       *)
Build(s) ==
  /\ Alive /\ cmd[s] = "build"
  /\ \/ cmd' = Put(cmd, s, "exit") /\ UNCHANGED snap
     \/ cmd' = Put(cmd, s, "launch") /\ snap' = [snap EXCEPT ![s].sock = sock]
  /\ UNCHANGED <<clientVars, loopVars, sizeVars, child, held, unread, status, conn, sock>>

(* Start may fail, and does once the context is cancelled.                  *)
Launch(s) ==
  /\ Alive /\ cmd[s] = "launch"
  /\ \/ cmd' = Put(cmd, s, "exit") /\ UNCHANGED child
     \/ /\ conn \in {"up", "lost"}
        /\ cmd' = Put(cmd, s, "copy")
        /\ child' = Put(child, s, "running")
  /\ UNCHANGED <<clientVars, loopVars, sizeVars, snap, held, unread, status, conn, sock>>

(* applyResizes, from pty.Start until it is joined.                         *)
ApplySize(s) ==
  /\ Alive /\ cmd[s] \in {"copy", "wait", "join"} /\ snap[s].pty
  /\ slot[s] # 0
  /\ size' = Put(size, s, slot[s])
  /\ slot' = Put(slot, s, 0)
  /\ UNCHANGED <<clientVars, loopVars, cmdVars, conn, sock>>

(* The copy of the output to the channel waits for the client's window.     *)
Blocked(s) == unread[s] /\ open[s]

(* Mutant: the copy of the client's input is waited for, too.               *)
MutantOutputEnds(s) ==
  /\ Alive /\ cmd[s] = "copy"
  /\ child[s] = "ended" /\ ~held[s] /\ ~open[s] /\ ~Blocked(s)
  /\ cmd' = Put(cmd, s, "wait")
  /\ UNCHANGED <<clientVars, loopVars, sizeVars, snap, child, held, unread, status, conn, sock>>

(* The output has no writer left, and what was written is sent.             *)
OutputEnds(s) ==
  /\ Alive /\ cmd[s] = "copy"
  /\ child[s] = "ended" /\ ~held[s] /\ ~Blocked(s)
  /\ cmd' = Put(cmd, s, "wait")
  /\ UNCHANGED <<clientVars, loopVars, sizeVars, snap, child, held, unread, status, conn, sock>>

(* Somebody writes and the channel is closed.                               *)
OutputFails(s) ==
  /\ Alive /\ cmd[s] = "copy"
  /\ ~open[s]
  /\ cmd' = Put(cmd, s, "wait")
  /\ UNCHANGED <<clientVars, loopVars, sizeVars, snap, child, held, unread, status, conn, sock>>

Wait(s) ==
  /\ Alive /\ cmd[s] = "wait"
  /\ child[s] = "ended"
  /\ cmd' = Put(cmd, s, IF snap[s].pty THEN "join" ELSE "exit")
  /\ UNCHANGED <<clientVars, loopVars, sizeVars, snap, child, held, unread, status, conn, sock>>

(* The applier is joined, the terminal closed: who still holds it is hung up. *)
ClosePty(s) ==
  /\ Alive /\ cmd[s] = "join"
  /\ cmd' = Put(cmd, s, "exit")
  /\ held' = Put(held, s, FALSE)
  /\ UNCHANGED <<clientVars, loopVars, sizeVars, snap, child, unread, status, conn, sock>>

Exit(s) ==
  /\ Alive /\ cmd[s] = "exit"
  /\ status' = Put(status, s, status[s] + 1)
  /\ cmd' = Put(cmd, s, "done")
  /\ UNCHANGED <<clientVars, loopVars, sizeVars, snap, child, held, unread, conn, sock>>

----------------------------------------------------------------------------
(* The processes: the child ends when it pleases, or is killed by           *)
(* exec.CommandContext once the context is cancelled, and may leave behind  *)
(* a descendant that holds its output.                                      *)
ChildForks(s) ==
  /\ child[s] = "running"
  /\ ~held[s]
  /\ held' = Put(held, s, TRUE)
  /\ UNCHANGED <<clientVars, loopVars, sizeVars, cmd, snap, child, unread, status, conn, sock>>

ChildEnds(s) ==
  /\ child[s] = "running"
  /\ child' = Put(child, s, "ended")
  /\ UNCHANGED <<clientVars, loopVars, sizeVars, cmd, snap, held, unread, status, conn, sock>>

DescendantEnds(s) ==
  /\ held[s]
  /\ held' = Put(held, s, FALSE)
  /\ UNCHANGED <<clientVars, loopVars, sizeVars, cmd, snap, child, unread, status, conn, sock>>

(* What they write is more than the client has asked for, until it asks for  *)
(* more, which it need never do.                                            *)
ChildWrites(s) ==
  /\ cmd[s] = "copy" /\ open[s]
  /\ child[s] = "running" \/ held[s]
  /\ unread' = Put(unread, s, TRUE)
  /\ UNCHANGED <<clientVars, loopVars, sizeVars, cmd, snap, child, held, status, conn, sock>>

ClientReads(s) ==
  /\ conn = "up"
  /\ unread[s]
  /\ unread' = Put(unread, s, FALSE)
  /\ UNCHANGED <<clientVars, loopVars, sizeVars, cmd, snap, child, held, status, conn, sock>>

----------------------------------------------------------------------------
(* The connection is lost: the mux closes every channel and Serve's loop    *)
(* ends; then its deferred calls run and the agent exits.                   *)
Disconnect ==
  /\ conn = "up"
  /\ conn' = "lost"
  /\ wire' = <<>>
  /\ open' = [s \in Sessions |-> FALSE]
  /\ UNCHANGED <<log, queue, loop, started, pty, env, sizeVars, cmdVars, sock>>

Cancel ==
  /\ conn = "lost"
  /\ conn' = "cancelled"
  /\ UNCHANGED <<clientVars, loopVars, sizeVars, cmdVars, sock>>

CloseAgentForward ==
  /\ conn = "cancelled"
  /\ conn' = "closed"
  /\ sock' = FALSE
  /\ UNCHANGED <<clientVars, loopVars, sizeVars, cmdVars>>

(* The terminals close with the process: their sessions are hung up.        *)
AgentExits ==
  /\ conn = "closed"
  /\ conn' = "exited"
  /\ LET hungUp(s) == cmd[s] \in {"copy", "wait"} /\ snap[s].pty
     IN  /\ child' = [s \in Sessions |-> IF hungUp(s) THEN "ended" ELSE child[s]]
         /\ held' = [s \in Sessions |-> held[s] /\ ~hungUp(s)]
  /\ UNCHANGED <<clientVars, loopVars, sizeVars, cmd, snap, unread, status, sock>>

----------------------------------------------------------------------------
LoopStep(s) ==
  \/ HandleEnv(s) \/ HandleSize(s) \/ PublishSize(s) \/ HandleAgent(s)
  \/ HandleStart(s) \/ LoopEnds(s)

CommandStep(s) ==
  \/ TakeSnapshot(s) \/ Build(s) \/ Launch(s) \/ OutputEnds(s)
  \/ Wait(s) \/ ClosePty(s) \/ Exit(s)

Teardown == Cancel \/ CloseAgentForward \/ AgentExits

Next ==
  \/ \E s \in Sessions :
       \/ \E kind \in Kinds[s] : Send(s, kind)
       \/ LoopStep(s) \/ CommandStep(s) \/ ApplySize(s) \/ OutputFails(s)
       \/ ChildForks(s) \/ ChildEnds(s) \/ DescendantEnds(s)
       \/ ChildWrites(s) \/ ClientReads(s)
  \/ Deliver \/ Disconnect \/ Teardown

Spec == Init /\ [][Next]_vars

(* The goroutines of the agent are scheduled, and what they write to the    *)
(* connection leaves: a peer that reads nothing any more is a lost one.     *)
(* Nothing else is assumed of the client, which need not open the window of *)
(* a channel, nor of the child and its descendants.                         *)
FairSpec ==
  /\ Spec
  /\ WF_vars(Deliver) /\ WF_vars(Teardown)
  /\ \A s \in Sessions : /\ WF_vars(LoopStep(s))
                         /\ WF_vars(CommandStep(s))
                         /\ WF_vars(ApplySize(s))

----------------------------------------------------------------------------
(* Properties.                                                              *)

(* Requests keep being read while a command runs, however long it runs: a   *)
(* session never stalls the connection (session.go, spawn: running a        *)
(* command inline "freezes every channel once 16 requests pile up").        *)
MuxNeverStalls == []<>(conn = "up" => wire = <<>>)

(* What the client asked for on a channel before the shell, exec or sftp    *)
(* request is what the command starts with, though another goroutine builds *)
(* it while later requests come in; and only what it asked for is.          *)
Earlier(s, kind) == {n \in Sent(s, kind) : n < started[s]}

EarlierRequestsCount ==
  \A s \in Sessions :
    cmd[s] \notin {"none", "snapshot"} =>
      /\ Earlier(s, "env") \subseteq snap[s].env
      /\ log[started[s]].kind = "run" /\ Earlier(s, "pty") # {} => snap[s].pty
      /\ snap[s].pty => Sent(s, "pty") # {}

(* SSH_AUTH_SOCK stays good in every session of the connection while the    *)
(* connection is up, whichever session asked for the forwarding and however *)
(* that one ended (agentfwd.go: "Later sessions share the same socket").    *)
AgentOutlivesSession ==
  \A s \in Sessions : snap[s].sock /\ conn = "up" => sock

(* A session runs one command and reports its end once, after it ended.     *)
ExitStatusOnce ==
  \A s \in Sessions : /\ status[s] <= 1
                      /\ status[s] = 1 => child[s] # "running"

(* The terminal of a running command follows the client: the last size      *)
(* asked for is applied, whenever its packet came.                          *)
Asked(s) == Sent(s, "pty") \cup Sent(s, "window")

Interactive(s) == conn = "up" /\ cmd[s] = "copy" /\ snap[s].pty

LastSizeApplied ==
  \A s \in Sessions : []<>(Interactive(s) => \A n \in Asked(s) : size[s] >= n)

(* A command that was accepted is reported to have ended once it has ended, *)
(* or could not start, and the client has taken what it wrote or closed the *)
(* channel: though the client keeps its input open and keeps sending        *)
(* requests (session.go, runWithPTY: "we must not wait on it").             *)
Ended(s) == started[s] # 0 /\ child[s] # "running" /\ ~held[s]

EndReported ==
  \A s \in Sessions : []<>(Ended(s) /\ conn = "up" /\ ~Blocked(s) => status[s] = 1)

(* The exit status is sent "to know a command finished": an end is reported *)
(* even to a client that leaves the output of the command unread.           *)
UnreadEndReported ==
  \A s \in Sessions : []<>(Ended(s) /\ conn = "up" => status[s] = 1)

(* "pty -> client, ends when the shell exits": an interactive shell's end   *)
(* is reported even if something it started still runs.                     *)
ShellEndReported ==
  \A s \in Sessions :
    child[s] = "ended" /\ snap[s].pty /\ conn = "up" ~> status[s] = 1 \/ conn # "up"

(* "the child gets SIGHUP when the channel closes anyway": the child of a   *)
(* terminal whose channel the client closes is hung up.                     *)
ChannelCloseHangsUp ==
  \A s \in Sessions :
    ~open[s] /\ snap[s].pty /\ child[s] = "running" ~> child[s] # "running"

(* "Cancel the handler tree when ... the connection dies": no command       *)
(* outlives the agent.                                                      *)
HandlerTreeCancelled == conn = "exited" => \A s \in Sessions : child[s] # "running"

(* closeAgentForward "tears the proxy socket down when the connection ends" *)
(* and its directory with it.                                               *)
SocketTornDown == conn = "exited" => ~sock
=============================================================================
