----------------------------- MODULE Connection -----------------------------
(***************************************************************************)
(* One client connection (connection.cpp) from the moment its socket was   *)
(* accepted.  The handlers of the network thread (accept, parseHeader,     *)
(* parsePacket, onWriteOperation, handleTimeout) and the calls of the      *)
(* dispatcher thread (send, close) hold the recursive connectionLock, so   *)
(* each is one step.  Asynchronous operations complete, and timers expire, *)
(* at any moment between them: a completion or an expiry only queues a     *)
(* handler, and what a cancel or a closed socket does not reach any more   *)
(* still runs.                                                             *)
(***************************************************************************)
EXTENDS Naturals, Sequences, SequencesExt

CONSTANTS
  MaxMessages,  \* bound: messages queued for sending
  MaxReads,     \* bound: reads the peer answers; it is silent afterwards
  Armings       \* results of starting an operation; FALSE: asio throws

ASSUME ConnectionAssumption ==
  /\ MaxMessages \in Nat \ {0} /\ MaxReads \in Nat
  /\ TRUE \in Armings /\ Armings \subseteq BOOLEAN

VARIABLES
  conn,     \* the members of Connection and what it has started, see TypeOK
  reads,    \* how many reads have succeeded
  written,  \* history: messages written, in order
  failed,   \* history: a write failed, or could not be started
  phase     \* of the server: running, stopping, down, dead

vars == <<conn, reads, written, failed, phase>>

(* closed, queue, protocol, receivedFirst: the members.  registered: in     *)
(* ConnectionManager::connections.  read, write: the operation in progress, *)
(* and readEnd, writeEnd how it ended once its handler is queued.           *)
(* readTimer, writeTimer: a wait is pending; late: expired waits whose      *)
(* handler is queued.  tasks, released: the protocol's tasks waiting in the *)
(* dispatcher, and whether Protocol::release ran.  held: the network thread *)
(* is leaving a handler, whose shared pointer is dropped last.  sent        *)
(* numbers the messages; graceful records that close left some to send.     *)
TypeOK ==
  /\ conn \in [registered : BOOLEAN, closed : BOOLEAN, graceful : BOOLEAN,
               open : BOOLEAN, queue : Seq(1..MaxMessages),
               sent : 0..MaxMessages,
               read : {"none", "accept", "header", "packet"},
               readEnd : {"pending", "ok", "error"},
               write : BOOLEAN, writeEnd : {"pending", "ok", "error"},
               readTimer : BOOLEAN, writeTimer : BOOLEAN,
               late : 0..(MaxReads + MaxMessages + 2),
               protocol : BOOLEAN, receivedFirst : BOOLEAN,
               tasks : Seq({"connect", "work", "release", "lost"}),
               released : BOOLEAN, held : BOOLEAN]
  /\ Len(conn.tasks) <= 2 + MaxReads   \* connect, release, one per packet
  /\ reads \in 0..MaxReads
  /\ written \in Seq(1..MaxMessages)
  /\ failed \in BOOLEAN
  /\ phase \in {"running", "stopping", "down", "dead"}

(* ConnectionManager::createConnection, and async_accept has completed. *)
Init ==
  /\ conn = [registered |-> TRUE, closed |-> FALSE, graceful |-> FALSE,
             open |-> TRUE, queue |-> <<>>, sent |-> 0,
             read |-> "accept", readEnd |-> "ok",
             write |-> FALSE, writeEnd |-> "pending",
             readTimer |-> FALSE, writeTimer |-> FALSE, late |-> 0,
             protocol |-> FALSE, receivedFirst |-> FALSE,
             tasks |-> <<>>, released |-> FALSE, held |-> FALSE]
  /\ reads = 0
  /\ written = <<>>
  /\ failed = FALSE
  /\ phase = "running"

(* Variants of the operators below, each with one slip a change of this     *)
(* code could make; the runs must notice them.                              *)
NeverClosed(c, force) == FALSE
UnlessForced(c, force) == c.closed /\ ~force
OnlyForced(c, force) == force
OnlyManaged(c) == c.registered     \* handlers bound to a weak pointer
NoTimer(c) == c
HasMessages(c) == c.queue # <<>>
PoppedBack(c) == Front(c.queue)
NotClosed(c) == FALSE

-----------------------------------------------------------------------------
(* Somebody holds a shared pointer: the manager, or a queued or running     *)
(* operation.  Protocols and timers hold weak ones.                         *)
Alive(c) == c.registered \/ c.read # "none" \/ c.write \/ c.held

(* Dispatcher::addTask *)
Post(c, task) ==
  [c EXCEPT !.tasks = Append(@, IF phase = "running" THEN task ELSE "lost")]

(* closeSocket: the waits are cancelled, and pending operations will end    *)
(* with an error.  Handlers queued already are not affected.                *)
CloseSocket(c) ==
  IF ~c.open THEN c
  ELSE [c EXCEPT !.open = FALSE, !.readTimer = FALSE, !.writeTimer = FALSE,
                 !.readEnd = IF @ = "pending" THEN "error" ELSE @,
                 !.writeEnd = IF @ = "pending" THEN "error" ELSE @]

AlreadyClosed(c, force) == c.closed

AtOnce(c, force) == force \/ c.queue = <<>>

(* close(force) *)
Close(c0, force) ==
  LET c == [c0 EXCEPT !.registered = FALSE] IN
  IF AlreadyClosed(c, force) THEN c
  ELSE LET d == [c EXCEPT !.closed = TRUE,
                          !.graceful = @ \/ ~AtOnce(c, force)]
           e == IF c.protocol THEN Post(d, "release") ELSE d
       IN  IF AtOnce(c, force) THEN CloseSocket(e) ELSE e

(* expires_from_now cancels the wait that is pending, async_wait starts     *)
(* another.                                                                 *)
StartReadTimer(c) == [c EXCEPT !.readTimer = TRUE]

(* async_read; on a closed socket it ends at once. *)
StartRead(c, kind, armed) ==
  IF armed
  THEN [StartReadTimer(c) EXCEPT !.read = kind,
                                 !.readEnd = IF c.open THEN "pending" ELSE "error"]
  ELSE Close([c EXCEPT !.read = "none"], TRUE)

(* internalSend *)
StartWrite(c, armed) ==
  IF armed
  THEN [c EXCEPT !.writeTimer = TRUE, !.write = TRUE,
                 !.writeEnd = IF c.open THEN "pending" ELSE "error"]
  ELSE Close([c EXCEPT !.write = FALSE], TRUE)

Idle(c) == c.queue = <<>>

(* send *)
Send(c, armed) ==
  IF c.closed THEN c
  ELSE LET d == [c EXCEPT !.queue = Append(@, c.sent + 1), !.sent = @ + 1]
       IN  IF Idle(c) THEN StartWrite(d, armed) ELSE d

CanSend == conn.sent < MaxMessages

(* What the protocol does with a message, a task or an event: send, and     *)
(* disconnect.                                                              *)
Reactions(c) ==
  {c, Close(c, FALSE)}
    \cup {Send(c, armed) : armed \in IF CanSend THEN Armings ELSE {}}
    \cup {Close(Send(c, armed), FALSE) : armed \in IF CanSend THEN Armings ELSE {}}

Threw(c) == FALSE \in Armings /\ c.queue # <<>> /\ ~c.write

-----------------------------------------------------------------------------
(* The network thread.  A handler is queued when its operation has ended.   *)

NetworkIdle == phase # "dead" /\ ~conn.held

Ready(kind) ==
  NetworkIdle /\ conn.read = kind /\ conn.readEnd # "pending"

(* readTimer.cancel(); the operation is over. *)
Received == [conn EXCEPT !.read = "none", !.readTimer = FALSE, !.held = TRUE]

(* ServicePort::onAccept: the address may be refused; on the port of the    *)
(* game the protocol is made first and its onConnect posted.                *)
OnAccept ==
  /\ Ready("accept")
  /\ \/ conn' = Close(Received, TRUE)
     \/ \E armed \in Armings : conn' = StartRead(Received, "header", armed)
     \/ \E armed \in Armings :
          conn' = StartRead(Post([Received EXCEPT !.protocol = TRUE], "connect"),
                            "header", armed)
  /\ UNCHANGED <<reads, written, failed, phase>>

IsClosed(c) == c.closed

(* What parseHeader and parsePacket have in common, before the work. *)
Refused(c) == conn.readEnd = "error" \/ IsClosed(c)

Refuse(c) == IF conn.readEnd = "error" THEN Close(c, TRUE) ELSE c

(* The packet rate may be exceeded, and the length may be bad. *)
ParseHeader ==
  /\ Ready("header")
  /\ IF Refused(Received)
     THEN conn' = Refuse(Received)
     ELSE \/ conn' = Close(Received, FALSE)
          \/ conn' = Close(Received, TRUE)
          \/ \E armed \in Armings : conn' = StartRead(Received, "packet", armed)
  /\ UNCHANGED <<reads, written, failed, phase>>

(* parsePacket hands the packet to the protocol, which on the first packet  *)
(* may have to be made (and may not be found), and reads on whatever the    *)
(* protocol did: also when it has closed the connection.                    *)
ParsePacket ==
  /\ Ready("packet")
  /\ IF Refused(Received)
     THEN conn' = Refuse(Received)
     ELSE LET c == [Received EXCEPT !.receivedFirst = TRUE] IN
          \/ ~c.protocol /\ conn' = Close(c, TRUE)
          \/ \E d \in Reactions([c EXCEPT !.protocol = TRUE])
                        \cup {Post([c EXCEPT !.protocol = TRUE], "work")},
                armed \in Armings :
               conn' = StartRead(d, "header", armed)
  /\ failed' = (failed \/ Threw(conn'))
  /\ UNCHANGED <<reads, written, phase>>

Popped(c) == Tail(c.queue)

(* onWriteOperation *)
OnWriteOperation ==
  /\ NetworkIdle
  /\ conn.write /\ conn.writeEnd # "pending"
  /\ LET c == [conn EXCEPT !.write = FALSE, !.writeTimer = FALSE,
                           !.held = TRUE, !.queue = Popped(conn)]
     IN  IF conn.writeEnd = "error"
         THEN /\ conn' = Close([c EXCEPT !.queue = <<>>], TRUE)
              /\ failed' = TRUE
              /\ UNCHANGED written
         ELSE /\ written' = Append(written, Head(conn.queue))
              /\ \E armed \in Armings :
                   conn' = IF c.queue # <<>> THEN StartWrite(c, armed)
                           ELSE IF c.closed THEN CloseSocket(c) ELSE c
              /\ failed' = (failed \/ Threw(conn'))
  /\ UNCHANGED <<reads, phase>>

(* handleTimeout of a wait that expired; the connection may be gone. *)
HandleTimeout ==
  /\ NetworkIdle
  /\ conn.late > 0
  /\ LET c == [conn EXCEPT !.late = @ - 1, !.held = Alive(conn)]
     IN  conn' = IF Alive(conn) THEN Close(c, TRUE) ELSE c
  /\ UNCHANGED <<reads, written, failed, phase>>

HandlerReturns ==
  /\ conn.held
  /\ conn' = [conn EXCEPT !.held = FALSE]
  /\ UNCHANGED <<reads, written, failed, phase>>

(* ~Connection *)
Destroy ==
  /\ ~Alive(conn) /\ conn.open
  /\ conn' = CloseSocket(conn)
  /\ UNCHANGED <<reads, written, failed, phase>>

-----------------------------------------------------------------------------
(* The dispatcher thread. *)

(* A task of the protocol; its weak pointer may have expired. *)
RunTask ==
  /\ conn.tasks # <<>>
  /\ LET c == [conn EXCEPT !.tasks = Tail(@)] IN
     \/ /\ Head(conn.tasks) \in {"connect", "work"}
        /\ conn' \in IF Alive(c) THEN Reactions(c) ELSE {c}
     \/ /\ Head(conn.tasks) = "release"
        /\ conn' = [c EXCEPT !.released = TRUE]
     \/ /\ Head(conn.tasks) = "lost"
        /\ conn' = c
  /\ failed' = (failed \/ Threw(conn'))
  /\ UNCHANGED <<reads, written, phase>>

(* The game sends, and logs players out, until release has cut the player   *)
(* off from the protocol.                                                   *)
Play ==
  /\ phase \in {"running", "stopping"}
  /\ conn.protocol /\ ~conn.released /\ Alive(conn)
  /\ conn' \in Reactions(conn)
  /\ failed' = (failed \/ Threw(conn'))
  /\ UNCHANGED <<reads, written, phase>>

(* setGameState(GAME_STATE_SHUTDOWN) stops the dispatcher; Game::shutdown   *)
(* ends with ServiceManager::stop and ConnectionManager::closeAll, which    *)
(* closes the sockets under the manager's lock only, and ServiceManager::die *)
(* ends the network thread.                                                 *)
Stop ==
  /\ phase = "running"
  /\ phase' = "stopping"
  /\ UNCHANGED <<conn, reads, written, failed>>

CloseAll ==
  /\ phase = "stopping"
  /\ phase' = "down"
  /\ conn' = IF conn.registered
             THEN [CloseSocket(conn) EXCEPT !.registered = FALSE,
                                            !.readTimer = conn.readTimer,
                                            !.writeTimer = conn.writeTimer]
             ELSE conn
  /\ UNCHANGED <<reads, written, failed>>

Die ==
  /\ phase = "down"
  /\ phase' = "dead"
  /\ UNCHANGED <<conn, reads, written, failed>>

-----------------------------------------------------------------------------
(* External: the peer, the kernel and the timers. *)

ReadEnds ==
  /\ conn.read \in {"header", "packet"} /\ conn.readEnd = "pending"
  /\ \/ /\ reads < MaxReads
        /\ reads' = reads + 1
        /\ conn' = [conn EXCEPT !.readEnd = "ok"]
     \/ conn' = [conn EXCEPT !.readEnd = "error"] /\ UNCHANGED reads
  /\ UNCHANGED <<written, failed, phase>>

WriteEnds ==
  /\ conn.write /\ conn.writeEnd = "pending"
  /\ \E end \in {"ok", "error"} : conn' = [conn EXCEPT !.writeEnd = end]
  /\ UNCHANGED <<reads, written, failed, phase>>

ReadTimerExpires ==
  /\ conn.readTimer
  /\ conn' = [conn EXCEPT !.readTimer = FALSE, !.late = @ + 1]
  /\ UNCHANGED <<reads, written, failed, phase>>

WriteTimerExpires ==
  /\ conn.writeTimer
  /\ conn' = [conn EXCEPT !.writeTimer = FALSE, !.late = @ + 1]
  /\ UNCHANGED <<reads, written, failed, phase>>

Next ==
  \/ OnAccept \/ ParseHeader \/ ParsePacket \/ OnWriteOperation
  \/ HandleTimeout \/ HandlerReturns \/ Destroy
  \/ RunTask \/ Play \/ Stop \/ CloseAll \/ Die
  \/ ReadEnds \/ WriteEnds \/ ReadTimerExpires \/ WriteTimerExpires

(* The two threads run what is queued for them, and timers expire.  Nothing *)
(* is assumed of the peer or of the game.                                   *)
Fairness ==
  /\ WF_vars(OnAccept) /\ WF_vars(ParseHeader) /\ WF_vars(ParsePacket)
  /\ WF_vars(OnWriteOperation) /\ WF_vars(HandleTimeout)
  /\ WF_vars(HandlerReturns) /\ WF_vars(Destroy)
  /\ WF_vars(RunTask)
  /\ WF_vars(ReadTimerExpires) /\ WF_vars(WriteTimerExpires)

Spec == Init /\ [][Next]_vars
FairSpec == Spec /\ Fairness

-----------------------------------------------------------------------------
(* Messages leave in the order they were queued, none twice and none        *)
(* skipped, until a write fails: what is written and what is queued make up *)
(* everything send accepted.  onWriteOperation pops the message it has      *)
(* written, which internalSend took from the front.                         *)
WrittenInOrder ==
  /\ IsPrefix(written, [i \in 1..conn.sent |-> i])
  /\ ~failed => written \o conn.queue = [i \in 1..conn.sent |-> i]

(* One write is in progress exactly while there is a message: send starts   *)
(* one only when the queue was empty, onWriteOperation the next; otherwise  *)
(* a queue would never be written, or pop_front find it empty.              *)
QueueIsDriven ==
  /\ conn.write => conn.queue # <<>>
  /\ conn.queue # <<>> /\ ~conn.closed => conn.write

(* A connection closed with messages to send (disconnectClient sends the    *)
(* reason and closes) keeps its socket until they are written: neither a    *)
(* timeout nor an error of the read side, which close it by force, cut the  *)
(* farewell off; only a failing write or the shutdown does.                 *)
FarewellIsSent ==
  conn.graceful /\ ~conn.open /\ ~failed /\ phase \in {"running", "stopping"}
    => conn.queue = <<>>

(* Protocol::release is posted exactly once when a connection with a        *)
(* protocol closes, and no task of the protocol comes after it: a login     *)
(* that ran after release would leave its player with a dead client.        *)
ReleaseIsLast ==
  LET todo == IF conn.released THEN <<"release">> \o conn.tasks ELSE conn.tasks
  IN  /\ \A i \in 1..Len(todo) : todo[i] = "release" => i = Len(todo)
                                   \/ phase # "running"
      /\ conn.closed /\ conn.protocol /\ phase = "running"
           => todo # <<>> /\ Last(todo) = "release"

(* What a connection keeps to at every moment. *)
ConnectionInv ==
  TypeOK /\ WrittenInOrder /\ QueueIsDriven /\ FarewellIsSent /\ ReleaseIsLast

(* A closed connection that nobody refers to has no socket left, but for    *)
(* the moment before its destructor: ConnectionLife is what protocols see.  *)
Life == INSTANCE ConnectionLife WITH
  life <- IF ~Alive(conn) THEN "gone" ELSE IF conn.closed THEN "closing" ELSE "open",
  bound <- conn.protocol,
  release <- IF conn.released THEN "run"
             ELSE IF \E i \in 1..Len(conn.tasks) : conn.tasks[i] = "release" THEN "posted"
             ELSE IF conn.closed /\ conn.protocol THEN "lost" ELSE "none"

ImplementsLife == Life!LifeSpec

(* Timeouts end every connection whose peer has become silent: the reads    *)
(* and writes of an open connection are all watched by a timer.             *)
TimeoutsClose == <>(conn.closed \/ phase # "running")

(* And the socket of a closed connection is closed, provided the kernel     *)
(* ends every write and breaks off the read of a socket whose write failed: *)
(* after close() the timeouts no longer close the socket by force.          *)
ClosedGoesAway ==
  WF_vars(WriteEnds) /\ WF_vars(failed /\ ReadEnds)
    => [](conn.closed /\ phase = "running"
            => <>((~Alive(conn) /\ ~conn.open) \/ phase # "running"))

(* A connection whose peer is silent is closed, and then it goes away. *)
SilentGoAway == TimeoutsClose /\ ClosedGoesAway

(* A connection closed with messages to send "will be closed by the         *)
(* destructor or onWriteOperation", says close.  It is not when the write   *)
(* fails: onWriteOperation clears the queue and calls close by force, which *)
(* returns at once, and the pending read keeps the object: TLC refutes it.  *)
ClosedByWriteOrDestructor ==
  WF_vars(WriteEnds)
    => [](conn.graceful /\ phase = "running"
            => <>(~conn.open \/ phase # "running"))
=============================================================================
