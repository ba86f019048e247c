----------------------------- MODULE AsioProofs -----------------------------
(***************************************************************************)
(* Proofs about the components of MCAsio, for any values of its constants  *)
(* that satisfy AsioAssumption: the scheduler and the timers of scripts,   *)
(* one connection and its handlers, seen from outside as a ConnectionLife, *)
(* the service manager and its ports, and the bans of throttled clients.   *)
(***************************************************************************)
EXTENDS MCAsio, ListFacts

(* Two of the instances count sets with the Cardinality of FiniteSets.      *)
LEMMA TimersCount == \A S : Timers!Cardinality(S) = Cardinality(S)
<1>1. \A S : Timers!IsFiniteSet(S) = IsFiniteSet(S)
  BY DEF Timers!IsFiniteSet, IsFiniteSet
<1>2. QED
  BY <1>1 DEF Timers!Cardinality, Cardinality

LEMMA ServerCount == \A S : Server!Cardinality(S) = Cardinality(S)
<1>1. \A S : Server!IsFiniteSet(S) = IsFiniteSet(S)
  BY DEF Server!IsFiniteSet, IsFiniteSet
<1>2. QED
  BY <1>1 DEF Server!Cardinality, Cardinality


-----------------------------------------------------------------------------
(* The inductive invariant.  Handlers put a connection together in several  *)
(* calls, so its parts speak of a connection c in the making, and of        *)
(* whether a write has failed by then.                                      *)
Tasks == {"connect", "work", "release", "lost"}

Record ==
  [registered : BOOLEAN, closed : BOOLEAN, graceful : BOOLEAN,
   open : BOOLEAN, queue : Seq(1..MaxMessages), sent : 0..MaxMessages,
   read : {"none", "accept", "header", "packet"},
   readEnd : {"pending", "ok", "error"},
   write : BOOLEAN, writeEnd : {"pending", "ok", "error"},
   readTimer : BOOLEAN, writeTimer : BOOLEAN, late : Nat,
   protocol : BOOLEAN, receivedFirst : BOOLEAN,
   tasks : Seq(Tasks), released : BOOLEAN, held : BOOLEAN]

(* The messages in the queue are the last of those that were accepted. *)
Gone(c) == c.sent - Len(c.queue)

Numbered(c, f) ==
  ~f => /\ Len(c.queue) <= c.sent
        /\ \A i \in 1..Len(c.queue) : c.queue[i] = Gone(c) + i

Driven(c, f) ==
  /\ c.write => c.queue # <<>>
  /\ c.queue # <<>> => c.write \/ f
  /\ f => ~c.write

Serving == phase \in {"running", "stopping"}

Farewell(c, f) ==
  /\ c.graceful => c.closed
  /\ Serving /\ ~c.open => c.closed
  /\ Serving /\ ~c.open /\ c.graceful /\ ~f => c.queue = <<>>

Posted(c) == \E i \in 1..Len(c.tasks) : c.tasks[i] = "release"

ReleasedOnce(c) ==
  /\ c.released \/ Posted(c) => c.closed /\ c.protocol
  /\ phase = "running" =>
       /\ c.released => c.tasks = <<>>
       /\ \A i \in 1..Len(c.tasks) : c.tasks[i] = "release" => i = Len(c.tasks)
       /\ c.closed /\ c.protocol /\ ~c.released =>
            c.tasks # <<>> /\ c.tasks[Len(c.tasks)] = "release"

(* Each of the n reads that were started and of the writes starts a timer;  *)
(* beside release the protocol has posted at most k tasks.                  *)
One(b) == IF b THEN 1 ELSE 0
Writes(c) == Gone(c) + One(c.write)

Within(c, n, k) ==
  /\ c.late + One(c.readTimer) + One(c.writeTimer) <= n + Writes(c)
  /\ Len(c.tasks) <= k + One(c.closed /\ c.protocol)

(* After a write has failed the connection is closed: what is good but for  *)
(* that is about to be.                                                     *)
Almost(c, f, n, k) ==
  /\ c \in Record
  /\ Numbered(c, f) /\ Driven(c, f) /\ Farewell(c, f) /\ ReleasedOnce(c)
  /\ Within(c, n, k)

Good(c, f, n, k) == Almost(c, f, n, k) /\ (f => c.closed)

(* The read that was started last has not been answered with success. *)
Unanswered(c) == ~(c.read # "none" /\ c.readEnd = "ok")

Opening(c) ==
  c.read = "accept" =>
    /\ c.readEnd = "ok" /\ ~c.closed /\ ~c.protocol /\ c.tasks = <<>>
    /\ c.late = 0 /\ ~c.readTimer /\ ~c.writeTimer /\ ~c.write

(* Between two handlers, after r reads were answered. *)
Sound(c, f, r) ==
  /\ Good(c, f, r + One(Unanswered(c)), r + One(Unanswered(c)))
  /\ Opening(c)
  /\ ~c.closed => c.read # "none"

IInv ==
  /\ Sound(conn, failed, reads)
  /\ Len(written) <= conn.sent /\ (~failed => Len(written) = Gone(conn))
  /\ \A i \in 1..Len(written) : written[i] = i
  /\ reads \in 0..MaxReads /\ written \in Seq(1..MaxMessages)
  /\ failed \in BOOLEAN /\ phase \in {"running", "stopping", "down", "dead"}

-----------------------------------------------------------------------------
(* What the calls do to a connection. *)
Identity(c) ==
  <<c.read, c.protocol, c.receivedFirst, c.released, c.held, c.late>>
Sending(c) == <<c.queue, c.sent, c.write>>

(* A closed socket: waits are cancelled and pending operations fail. *)
Shut(c, d) ==
  /\ d \in Record
  /\ Identity(d) = Identity(c) /\ Sending(d) = Sending(c)
  /\ d.readTimer => c.readTimer
  /\ d.writeTimer => c.writeTimer
  /\ d.readEnd = "ok" <=> c.readEnd = "ok"
  /\ d.open => c.open

LEMMA CloseSocketFacts ==
  ASSUME NEW c \in Record
  PROVE  /\ Shut(c, CloseSocket(c)) /\ ~CloseSocket(c).open
         /\ CloseSocket(c).registered = c.registered
         /\ CloseSocket(c).closed = c.closed
         /\ CloseSocket(c).graceful = c.graceful
         /\ CloseSocket(c).tasks = c.tasks
<1>1. CASE ~c.open
  BY <1>1 DEF CloseSocket, Shut, Record
<1>2. CASE c.open
  <2>1. "error" # "ok" /\ "pending" # "ok"
    OBVIOUS
  <2> DEFINE re == IF c.readEnd = "pending" THEN "error" ELSE c.readEnd
             we == IF c.writeEnd = "pending" THEN "error" ELSE c.writeEnd
             d == [c EXCEPT !.open = FALSE, !.readTimer = FALSE,
                            !.writeTimer = FALSE, !.readEnd = re, !.writeEnd = we]
  <2>2. CloseSocket(c) = d
    BY <1>2 DEF CloseSocket
  <2>3. /\ re \in {"pending", "ok", "error"} /\ we \in {"pending", "ok", "error"}
        /\ re = "ok" <=> c.readEnd = "ok"
    BY <2>1 DEF Record
  <2> HIDE DEF re, we
  <2>4. d \in Record
    BY <2>3 DEF Record
  <2>5. /\ Identity(d) = Identity(c) /\ Sending(d) = Sending(c)
        /\ ~d.readTimer /\ ~d.writeTimer /\ ~d.open /\ d.readEnd = re
        /\ d.registered = c.registered /\ d.closed = c.closed
        /\ d.graceful = c.graceful /\ d.tasks = c.tasks
    BY DEF Record, Identity, Sending
  <2>6. QED
    BY <2>2, <2>3, <2>4, <2>5 DEF Shut
<1>3. QED
  BY <1>1, <1>2

(* The task that close posts, if it posts one. *)
Farewells == IF phase = "running" THEN "release" ELSE "lost"

ClosedTasks(c) ==
  IF ~c.closed /\ c.protocol THEN Append(c.tasks, Farewells) ELSE c.tasks

LEMMA CloseFacts ==
  ASSUME NEW c \in Record, NEW force \in BOOLEAN
  PROVE  LET d == Close(c, force) IN
         /\ Shut(c, d) /\ d.closed /\ ~d.registered
         /\ d.graceful <=> c.graceful \/ (~c.closed /\ ~force /\ c.queue # <<>>)
         /\ d.tasks = ClosedTasks(c)
         /\ c.open /\ ~d.open => ~c.closed /\ (force \/ c.queue = <<>>)
<1> DEFINE b == [c EXCEPT !.registered = FALSE]
           d == [b EXCEPT !.closed = TRUE, !.graceful = @ \/ ~AtOnce(b, force)]
           e == IF b.protocol THEN Post(d, "release") ELSE d
<1>1. /\ b \in Record /\ ~b.registered
      /\ b.closed = c.closed /\ b.protocol = c.protocol /\ b.open = c.open
      /\ b.queue = c.queue /\ b.graceful = c.graceful /\ b.tasks = c.tasks
      /\ Identity(b) = Identity(c) /\ Sending(b) = Sending(c)
      /\ b.readTimer = c.readTimer /\ b.writeTimer = c.writeTimer
      /\ b.readEnd = c.readEnd
  BY DEF Record, Identity, Sending
<1>2. CASE c.closed
  <2>1. Close(c, force) = b
    BY <1>1, <1>2 DEF Close, AlreadyClosed
  <2>2. QED
    BY <1>1, <1>2, <2>1 DEF Shut, ClosedTasks
<1>3. CASE ~c.closed
  <2>1. /\ AtOnce(b, force) \in BOOLEAN
        /\ AtOnce(b, force) <=> force \/ c.queue = <<>>
    BY <1>1 DEF AtOnce
  <2>2. /\ d \in Record /\ ~d.registered /\ d.closed
        /\ d.graceful <=> c.graceful \/ (~force /\ c.queue # <<>>)
        /\ d.open = c.open /\ d.tasks = c.tasks /\ d.protocol = c.protocol
        /\ Identity(d) = Identity(c) /\ Sending(d) = Sending(c)
        /\ d.readTimer = c.readTimer /\ d.writeTimer = c.writeTimer
        /\ d.readEnd = c.readEnd
    <3> DEFINE g == b.graceful \/ ~AtOnce(b, force)
    <3>1. /\ g \in BOOLEAN
          /\ g <=> c.graceful \/ (~force /\ c.queue # <<>>)
      BY <1>1, <2>1 DEF Record
    <3>2. d = [b EXCEPT !.closed = TRUE, !.graceful = g]
      OBVIOUS
    <3> HIDE DEF g, d, b
    <3>3. d \in Record
      BY <1>1, <3>1, <3>2 DEF Record
    <3>4. /\ d.registered = b.registered /\ d.closed /\ d.graceful = g
          /\ d.open = b.open /\ d.tasks = b.tasks /\ d.protocol = b.protocol
          /\ Identity(d) = Identity(b) /\ Sending(d) = Sending(b)
          /\ d.readTimer = b.readTimer /\ d.writeTimer = b.writeTimer
          /\ d.readEnd = b.readEnd
      BY <1>1, <3>2 DEF Record, Identity, Sending
    <3>5. QED
      BY <1>1, <3>1, <3>3, <3>4
  <2>3. /\ Farewells \in Tasks
        /\ Append(c.tasks, Farewells) \in Seq(Tasks)
    BY <1>1, SeqFacts DEF Record, Farewells, Tasks
  <2>4. /\ e \in Record /\ ~e.registered /\ e.closed
        /\ e.graceful = d.graceful /\ e.open = c.open
        /\ e.tasks = ClosedTasks(c)
        /\ Identity(e) = Identity(c) /\ Sending(e) = Sending(c)
        /\ e.readTimer = c.readTimer /\ e.writeTimer = c.writeTimer
        /\ e.readEnd = c.readEnd
    <3>1. ASSUME b.protocol
          PROVE  e = [d EXCEPT !.tasks = Append(@, Farewells)]
      BY <3>1 DEF Post, Farewells
    <3>2. ASSUME ~b.protocol PROVE e = d
      BY <3>2
    <3> HIDE DEF d, e, b
    <3>3. CASE b.protocol
      <4> DEFINE t == Append(c.tasks, Farewells)
      <4>1. e = [d EXCEPT !.tasks = t]
        BY <2>2, <3>1, <3>3
      <4>2. t \in Seq(Tasks)
        BY <2>3
      <4> HIDE DEF t
      <4>3. /\ e \in Record /\ e.tasks = t
            /\ ~e.registered /\ e.closed /\ e.graceful = d.graceful
            /\ e.open = d.open /\ e.readEnd = d.readEnd
            /\ Identity(e) = Identity(d) /\ Sending(e) = Sending(d)
            /\ e.readTimer = d.readTimer /\ e.writeTimer = d.writeTimer
        BY <2>2, <4>1, <4>2 DEF Record, Identity, Sending
      <4>4. QED
        BY <1>1, <1>3, <2>2, <3>3, <4>3 DEF ClosedTasks, t
    <3>4. CASE ~b.protocol
      BY <1>1, <1>3, <2>2, <3>2, <3>4 DEF ClosedTasks
    <3>5. QED
      BY <3>3, <3>4
  <2>5. Close(c, force) = IF AtOnce(b, force) THEN CloseSocket(e) ELSE e
    BY <1>1, <1>3 DEF Close, AlreadyClosed
  <2> HIDE DEF e
  <2>6. /\ Shut(e, CloseSocket(e)) /\ ~CloseSocket(e).open
        /\ CloseSocket(e).registered = e.registered
        /\ CloseSocket(e).closed = e.closed
        /\ CloseSocket(e).graceful = e.graceful
        /\ CloseSocket(e).tasks = e.tasks
    BY <2>4, CloseSocketFacts
  <2>7. QED
    BY <1>3, <2>1, <2>2, <2>4, <2>5, <2>6 DEF Shut
<1>4. QED
  BY <1>2, <1>3

-----------------------------------------------------------------------------
(* The calls keep the invariant. *)
LEMMA Ones ==
  /\ One(TRUE) = 1 /\ One(FALSE) = 0
  /\ \A b \in BOOLEAN : One(b) \in 0..1
BY DEF One

LEMMA Numbers ==
  ASSUME NEW c \in Record
  PROVE  /\ Len(c.queue) \in Nat /\ (c.queue = <<>> <=> Len(c.queue) = 0)
         /\ Len(c.tasks) \in Nat /\ (c.tasks = <<>> <=> Len(c.tasks) = 0)
         /\ c.sent \in Nat /\ c.late \in Nat /\ Writes(c) \in Int
  BY SeqFacts, Ones DEF Record, Writes, Gone

LEMMA ReleasePosted ==
  ASSUME NEW s \in Seq(Tasks)
  PROVE  LET t == Append(s, Farewells) IN
         /\ t \in Seq(Tasks) /\ Len(t) = Len(s) + 1 /\ t # <<>>
         /\ \A i \in 1..Len(s) : t[i] = s[i]
         /\ t[Len(t)] = Farewells
         /\ Farewells = "release" <=> phase = "running"
<1>1. Farewells \in Tasks /\ (Farewells = "release" <=> phase = "running")
  <2>1. "release" # "lost"
    OBVIOUS
  <2>2. QED
    BY <2>1 DEF Farewells, Tasks
<1>2. QED
  BY <1>1, SeqFacts

LEMMA CloseKeeps ==
  ASSUME NEW c, NEW f \in BOOLEAN, NEW n \in Nat, NEW k \in Nat, Almost(c, f, n, k),
         NEW force \in BOOLEAN
  PROVE  Good(Close(c, force), f, n, k)
<1> DEFINE d == Close(c, force)
<1>1. c \in Record
  BY DEF Almost
<1>2. /\ Shut(c, d) /\ d.closed /\ ~d.registered
      /\ d.graceful <=> c.graceful \/ (~c.closed /\ ~force /\ c.queue # <<>>)
      /\ d.tasks = ClosedTasks(c)
      /\ c.open /\ ~d.open => ~c.closed /\ (force \/ c.queue = <<>>)
  BY <1>1, CloseFacts
<1> HIDE DEF d
<1>3. /\ d \in Record
      /\ d.queue = c.queue /\ d.sent = c.sent /\ d.write = c.write
      /\ d.protocol = c.protocol /\ d.released = c.released /\ d.late = c.late
      /\ d.readTimer => c.readTimer
      /\ d.writeTimer => c.writeTimer
      /\ d.open => c.open
  BY <1>2 DEF Shut, Identity, Sending
<1>4. Numbered(d, f) /\ Driven(d, f)
  BY <1>2, <1>3 DEF Almost, Numbered, Gone, Driven
<1>5. Farewell(d, f)
  BY <1>2, <1>3 DEF Almost, Farewell
<1>6. ReleasedOnce(d) /\ Len(d.tasks) <= k + One(d.closed /\ d.protocol)
  <2>1. /\ c.tasks \in Seq(Tasks) /\ Len(c.tasks) \in Nat
        /\ c.tasks = <<>> <=> Len(c.tasks) = 0
        /\ c.protocol \in BOOLEAN /\ c.closed \in BOOLEAN
    BY <1>1, Numbers DEF Record
  <2>2. ReleasedOnce(c) /\ Len(c.tasks) <= k + One(c.closed /\ c.protocol)
    BY DEF Almost, Within
  <2>3. CASE ~c.closed /\ c.protocol
    <3>1. /\ d.tasks \in Seq(Tasks) /\ Len(d.tasks) = Len(c.tasks) + 1
          /\ d.tasks # <<>>
          /\ \A i \in 1..Len(c.tasks) : d.tasks[i] = c.tasks[i]
          /\ d.tasks[Len(d.tasks)] = Farewells
          /\ Farewells = "release" <=> phase = "running"
      BY <1>2, <2>1, <2>3, ReleasePosted DEF ClosedTasks
    <3>2. ~c.released /\ \A i \in 1..Len(c.tasks) : c.tasks[i] # "release"
      BY <2>2, <2>3 DEF ReleasedOnce, Posted
    <3>3. \A i \in 1..Len(d.tasks) : d.tasks[i] = "release" => i = Len(d.tasks)
      BY <2>1, <3>1, <3>2
    <3>4. Len(d.tasks) <= k + One(d.closed /\ d.protocol)
      <4>1. One(d.closed /\ d.protocol) = 1 /\ One(c.closed /\ c.protocol) = 0
        BY <1>2, <1>3, <2>3 DEF One
      <4>2. QED
        BY <2>1, <2>2, <3>1, <4>1
    <3>5. ReleasedOnce(d)
      BY <1>2, <1>3, <2>3, <3>1, <3>2, <3>3 DEF ReleasedOnce, Posted
    <3>6. QED
      BY <3>4, <3>5
  <2>4. CASE c.closed \/ ~c.protocol
    <3>1. d.tasks = c.tasks /\ (d.closed /\ d.protocol <=> c.closed /\ c.protocol)
      BY <1>2, <1>3, <2>4 DEF ClosedTasks
    <3>2. One(d.closed /\ d.protocol) = One(c.closed /\ c.protocol)
      BY <3>1 DEF One
    <3>3. QED
      BY <1>2, <1>3, <2>2, <3>1, <3>2 DEF ReleasedOnce, Posted
  <2>5. QED
    BY <2>1, <2>3, <2>4
<1>7. d.late + One(d.readTimer) + One(d.writeTimer) <= n + Writes(d)
  <2>1. /\ One(d.readTimer) \in Nat /\ One(d.writeTimer) \in Nat
        /\ One(c.readTimer) \in Nat /\ One(c.writeTimer) \in Nat
        /\ One(d.readTimer) <= One(c.readTimer)
        /\ One(d.writeTimer) <= One(c.writeTimer)
    BY <1>3 DEF One
  <2>2. c.late \in Nat /\ Writes(c) \in Int
    BY <1>1, Numbers
  <2>3. Writes(d) = Writes(c)
    BY <1>3 DEF Writes, Gone
  <2>4. c.late + One(c.readTimer) + One(c.writeTimer) <= n + Writes(c)
    BY DEF Almost, Within
  <2>5. QED
    BY <1>3, <2>1, <2>2, <2>3, <2>4
<1>8. QED
  BY <1>2, <1>3, <1>4, <1>5, <1>6, <1>7 DEF Good, Almost, Within, d

LEMMA StartWriteKeeps ==
  ASSUME NEW c \in Record, NEW n \in Nat, NEW k \in Nat,
         Numbered(c, FALSE), Farewell(c, FALSE), ReleasedOnce(c), Within(c, n, k),
         c.queue # <<>>, ~c.write, NEW armed \in BOOLEAN
  PROVE  LET d == StartWrite(c, armed) IN
         /\ Good(d, ~armed, n, k)
         /\ d.queue = c.queue /\ (d.write <=> armed)
         /\ Identity(d) = Identity(c) /\ d.sent = c.sent
         /\ d.readEnd = "ok" <=> c.readEnd = "ok"
         /\ d.readTimer => c.readTimer
         /\ c.closed => d.closed
<1>1. CASE armed
  <2> DEFINE we == IF c.open THEN "pending" ELSE "error"
             d == [c EXCEPT !.writeTimer = TRUE, !.write = TRUE, !.writeEnd = we]
  <2>1. StartWrite(c, armed) = d
    BY <1>1 DEF StartWrite
  <2>2. we \in {"pending", "ok", "error"}
    OBVIOUS
  <2> HIDE DEF we
  <2>3. /\ d \in Record /\ d.write /\ d.writeTimer /\ Identity(d) = Identity(c)
        /\ d.queue = c.queue /\ d.sent = c.sent /\ d.readTimer = c.readTimer
        /\ d.readEnd = c.readEnd /\ d.closed = c.closed /\ d.open = c.open
        /\ d.graceful = c.graceful /\ d.tasks = c.tasks /\ d.late = c.late
        /\ d.protocol = c.protocol /\ d.released = c.released
    BY <2>2 DEF Record, Identity
  <2> HIDE DEF d
  <2>4. /\ Numbered(d, FALSE) /\ Driven(d, FALSE) /\ Farewell(d, FALSE)
        /\ ReleasedOnce(d)
    BY <2>3 DEF Numbered, Gone, Driven, Farewell, ReleasedOnce, Posted
  <2>5. Within(d, n, k)
    <3>1. /\ One(d.write) = 1 /\ One(c.write) = 0 /\ One(d.writeTimer) = 1
          /\ One(d.readTimer) = One(c.readTimer) /\ One(c.readTimer) \in Nat
          /\ One(c.writeTimer) \in Nat
          /\ One(d.closed /\ d.protocol) = One(c.closed /\ c.protocol)
      BY <2>3 DEF One
    <3>2. /\ Len(c.queue) \in Nat /\ c.sent \in Nat /\ c.late \in Nat
      BY Numbers
    <3>a. d.queue = c.queue /\ d.sent = c.sent /\ d.late = c.late
      BY <2>3
    <3>3. Writes(d) = Writes(c) + 1 /\ Writes(c) \in Int
      BY <3>a, <3>1, <3>2 DEF Writes, Gone
    <3>4. c.late + One(c.readTimer) + One(c.writeTimer) <= n + Writes(c)
      BY DEF Within
    <3>5. d.late + One(d.readTimer) + One(d.writeTimer) <= n + Writes(d)
      BY <3>a, <3>1, <3>2, <3>3, <3>4
    <3>6. QED
      BY <2>3, <3>1, <3>5 DEF Within
  <2>6. QED
    BY <1>1, <2>1, <2>3, <2>4, <2>5 DEF Good, Almost
<1>2. CASE ~armed
  <2> DEFINE b == [c EXCEPT !.write = FALSE]
             d == Close(b, TRUE)
  <2>1. StartWrite(c, armed) = d
    BY <1>2 DEF StartWrite
  <2>2. /\ b \in Record /\ ~b.write /\ Identity(b) = Identity(c)
        /\ b.queue = c.queue /\ b.sent = c.sent /\ b.readTimer = c.readTimer
        /\ b.readEnd = c.readEnd /\ b.closed = c.closed /\ b.open = c.open
        /\ b.graceful = c.graceful /\ b.tasks = c.tasks /\ b.late = c.late
        /\ b.protocol = c.protocol /\ b.released = c.released
        /\ b.writeTimer = c.writeTimer
    BY DEF Record, Identity
  <2> HIDE DEF b
  <2>3. /\ Numbered(b, TRUE) /\ Driven(b, TRUE) /\ Farewell(b, TRUE)
        /\ ReleasedOnce(b)
    BY <2>2 DEF Numbered, Gone, Driven, Farewell, ReleasedOnce, Posted
  <2>4. Within(b, n, k)
    <3>1. One(b.write) = One(c.write)
      BY <2>2 DEF One
    <3>2. QED
      BY <2>2, <3>1 DEF Within, Writes, Gone
  <2>5. Good(d, TRUE, n, k)
    BY <2>2, <2>3, <2>4, CloseKeeps DEF Almost
  <2>6. Shut(b, d) /\ d.closed
    BY <2>2, CloseFacts
  <2> HIDE DEF d
  <2>7. QED
    BY <1>2, <2>1, <2>2, <2>5, <2>6 DEF Shut, Identity, Sending
<1>3. QED
  BY <1>1, <1>2

(* What a call leaves of a connection that was made, and that it does not   *)
(* close a connection but for good.                                         *)
Onward(c, d) ==
  /\ Identity(d) = Identity(c)
  /\ d.readEnd = "ok" <=> c.readEnd = "ok"
  /\ d.readTimer => c.readTimer
  /\ c.closed => d.closed
  /\ c.sent <= d.sent /\ Gone(d) = Gone(c)

LEMMA ThrewIsFailed ==
  ASSUME NEW c, NEW f \in BOOLEAN, NEW n, NEW k, Good(c, f, n, k), Threw(c)
  PROVE  f
BY DEF Good, Almost, Driven, Threw

LEMMA SendKeeps ==
  ASSUME NEW c, NEW f \in BOOLEAN, NEW n \in Nat, NEW k \in Nat, Good(c, f, n, k),
         c.sent < MaxMessages, NEW armed \in Armings
  PROVE  LET d == Send(c, armed) IN
         Good(d, f \/ Threw(d), n, k) /\ Onward(c, d)
<1> DEFINE e == [c EXCEPT !.queue = Append(@, c.sent + 1), !.sent = @ + 1]
<1>1. /\ c \in Record /\ Numbered(c, f) /\ Driven(c, f) /\ Farewell(c, f)
      /\ ReleasedOnce(c) /\ Within(c, n, k) /\ (f => c.closed)
  BY DEF Good, Almost
<1>2. CASE c.closed
  <2>1. Send(c, armed) = c
    BY <1>2 DEF Send
  <2>2. f \/ Threw(c) <=> f
    BY ThrewIsFailed
  <2>3. QED
    BY <1>1, <2>1, <2>2, Numbers DEF Onward
<1>3. CASE ~c.closed
  <2> DEFINE q == Append(c.queue, c.sent + 1)
  <2>1. /\ q \in Seq(1..MaxMessages) /\ Len(q) = Len(c.queue) + 1 /\ q # <<>>
        /\ \A i \in 1..Len(c.queue) : q[i] = c.queue[i]
        /\ q[Len(c.queue) + 1] = c.sent + 1
        /\ c.sent + 1 \in 0..MaxMessages /\ Len(c.queue) \in Nat
    <3>1. c.sent + 1 \in 1..MaxMessages /\ c.queue \in Seq(1..MaxMessages)
      BY <1>1, ConnectionAssumption DEF Record
    <3>2. QED
      BY <3>1, SeqFacts
  <2>2. e = [c EXCEPT !.queue = q, !.sent = c.sent + 1]
    BY <1>1 DEF Record
  <2> HIDE DEF q, e
  <2>3. /\ e \in Record /\ e.queue = q /\ e.sent = c.sent + 1
        /\ Identity(e) = Identity(c) /\ e.readTimer = c.readTimer
        /\ e.readEnd = c.readEnd /\ e.closed = c.closed /\ e.open = c.open
        /\ e.graceful = c.graceful /\ e.tasks = c.tasks /\ e.late = c.late
        /\ e.protocol = c.protocol /\ e.released = c.released
        /\ e.writeTimer = c.writeTimer /\ e.write = c.write
    BY <1>1, <2>1, <2>2 DEF Record, Identity
  <2>4. Numbered(e, FALSE)
    <3>1. /\ Len(c.queue) <= c.sent /\ c.sent \in Nat
          /\ \A i \in 1..Len(c.queue) : c.queue[i] = c.sent - Len(c.queue) + i
      BY <1>1, <1>3, Numbers DEF Numbered, Gone
    <3>2. e.queue = q /\ e.sent = c.sent + 1
      BY <2>3
    <3>3. ASSUME NEW i \in 1..Len(q)
          PROVE  q[i] = (c.sent + 1) - Len(q) + i
      <4>1. i \in 1..Len(c.queue) \/ i = Len(c.queue) + 1
        BY <2>1
      <4>2. CASE i \in 1..Len(c.queue)
        BY <2>1, <3>1, <4>2
      <4>3. CASE i = Len(c.queue) + 1
        BY <2>1, <3>1, <4>3
      <4>4. QED
        BY <4>1, <4>2, <4>3
    <3>4. Len(q) <= c.sent + 1
      BY <2>1, <3>1
    <3>5. QED
      BY <3>2, <3>3, <3>4 DEF Numbered, Gone
  <2>5. Farewell(e, FALSE) /\ ReleasedOnce(e) /\ (e.write <=> c.queue # <<>>)
    BY <1>1, <1>3, <2>3 DEF Farewell, ReleasedOnce, Posted, Driven
  <2>6. Within(e, n, k)
    <3>1. e.sent = c.sent + 1 /\ Len(e.queue) = Len(c.queue) + 1
      BY <2>1, <2>3
    <3>2. One(e.write) = One(c.write) /\ One(e.write) \in Nat
      BY <2>3 DEF One
    <3>3. c.sent \in Nat /\ Len(c.queue) \in Nat
      BY <1>1, Numbers
    <3>a. Gone(e) = Gone(c)
      BY <3>1, <3>3 DEF Gone
    <3>4. Writes(e) = Writes(c)
      BY <3>2, <3>a DEF Writes
    <3>5. QED
      BY <1>1, <2>3, <3>4 DEF Within
  <2>7. Onward(c, e)
    <3>1. /\ e.sent = c.sent + 1 /\ Len(e.queue) = Len(c.queue) + 1
          /\ c.sent \in Nat /\ Len(c.queue) \in Nat
      BY <1>1, <2>1, <2>3, Numbers
    <3>2. c.sent <= e.sent /\ Gone(e) = Gone(c)
      BY <3>1 DEF Gone
    <3>3. QED
      BY <2>3, <3>2 DEF Onward
  <2>8. CASE c.queue # <<>>
    <3>1. Send(c, armed) = e
      BY <1>3, <2>8 DEF Send, Idle, e
    <3>2. Good(e, FALSE, n, k) /\ ~Threw(e)
      <4>1. e.write /\ e.queue # <<>> /\ e \in Record
        BY <2>1, <2>3, <2>5, <2>8
      <4>2. QED
        BY <2>4, <2>5, <2>6, <4>1 DEF Good, Almost, Driven, Threw
    <3>3. QED
      BY <1>1, <1>3, <2>7, <3>1, <3>2
  <2>9. CASE c.queue = <<>>
    <3> DEFINE d == StartWrite(e, armed)
    <3>1. Send(c, armed) = d
      BY <1>3, <2>9 DEF Send, Idle, e
    <3>2. armed \in BOOLEAN
      BY ConnectionAssumption
    <3>3. e.queue # <<>> /\ ~e.write
      BY <2>1, <2>3, <2>5, <2>9
    <3>4. /\ Good(d, ~armed, n, k) /\ d.queue = e.queue /\ (d.write <=> armed)
          /\ Identity(d) = Identity(e) /\ d.sent = e.sent
          /\ d.readEnd = "ok" <=> e.readEnd = "ok"
          /\ d.readTimer => e.readTimer
          /\ e.closed => d.closed
      <4>1. e \in Record
        BY <2>3
      <4>2. QED
        BY <2>4, <2>5, <2>6, <3>2, <3>3, <4>1, StartWriteKeeps
    <3> HIDE DEF d
    <3>5. Threw(d) <=> ~armed
      <4>1. ~armed => FALSE \in Armings
        BY <3>2
      <4>2. QED
        BY <3>3, <3>4, <4>1 DEF Threw
    <3>6. ~f
      BY <1>1, <1>3
    <3>7. f \/ Threw(d) <=> ~armed
      BY <3>5, <3>6
    <3>8. Good(d, f \/ Threw(d), n, k)
      <4>1. CASE armed
        BY <3>4, <3>7, <4>1
      <4>2. CASE ~armed
        BY <3>4, <3>7, <4>2
      <4>3. QED
        BY <4>1, <4>2
    <3>9. Onward(c, d)
      BY <2>7, <3>4 DEF Onward, Gone
    <3>10. QED
      BY <3>1, <3>8, <3>9
  <2>10. QED
    BY <2>8, <2>9
<1>4. QED
  BY <1>2, <1>3

LEMMA CloseOnward ==
  ASSUME NEW c \in Record, NEW force \in BOOLEAN
  PROVE  LET d == Close(c, force) IN
         Onward(c, d) /\ d.closed /\ (Threw(d) <=> Threw(c))
<1> DEFINE d == Close(c, force)
<1>1. Shut(c, d) /\ d.closed
  BY CloseFacts
<1> HIDE DEF d
<1>2. Onward(c, d) /\ (Threw(d) <=> Threw(c))
  BY <1>1, Numbers DEF Shut, Onward, Identity, Sending, Threw, Gone
<1>3. QED
  BY <1>1, <1>2 DEF d

LEMMA ReactionsKeep ==
  ASSUME NEW c, NEW f \in BOOLEAN, NEW n \in Nat, NEW k \in Nat, Good(c, f, n, k),
         c.sent = conn.sent, NEW d \in Reactions(c)
  PROVE  Good(d, f \/ Threw(d), n, k) /\ Onward(c, d)
<1>1. c \in Record
  BY DEF Good, Almost
<1>2. CASE d = c
  <2>1. f \/ Threw(c) <=> f
    BY ThrewIsFailed
  <2>2. QED
    BY <1>1, <1>2, <2>1, Numbers DEF Onward
<1>3. CASE d = Close(c, FALSE)
  <2>1. Good(d, f, n, k)
    BY <1>3, CloseKeeps DEF Good
  <2>2. f \/ Threw(d) <=> f
    BY <2>1, ThrewIsFailed
  <2>3. QED
    BY <1>1, <1>3, <2>1, <2>2, CloseOnward
<1>4. ASSUME NEW armed \in Armings, CanSend, d = Send(c, armed)
      PROVE  Good(d, f \/ Threw(d), n, k) /\ Onward(c, d)
  BY <1>4, SendKeeps DEF CanSend
<1>5. ASSUME NEW armed \in Armings, CanSend, d = Close(Send(c, armed), FALSE)
      PROVE  Good(d, f \/ Threw(d), n, k) /\ Onward(c, d)
  <2> DEFINE e == Send(c, armed)
             g == f \/ Threw(e)
  <2>1. Good(e, g, n, k) /\ Onward(c, e)
    BY <1>5, SendKeeps DEF CanSend
  <2>2. d = Close(e, FALSE) /\ g \in BOOLEAN
    BY <1>5
  <2>3. (Threw(e) <=> Threw(d)) /\ (g <=> f \/ Threw(e))
    BY <2>1, <2>2, CloseOnward DEF Good, Almost
  <2> HIDE DEF e, g
  <2>4. Good(d, g, n, k) /\ Onward(e, d)
    BY <2>1, <2>2, CloseKeeps, CloseOnward DEF Good, Almost
  <2>5. g = (f \/ Threw(d))
    BY <2>2, <2>3
  <2>6. c.sent \in Nat /\ e.sent \in Nat /\ d.sent \in Nat
    BY <1>1, <2>1, <2>4, Numbers DEF Good, Almost
  <2>7. QED
    BY <2>1, <2>4, <2>5, <2>6 DEF Onward
<1>6. QED
  BY <1>2, <1>3, <1>4, <1>5 DEF Reactions

LEMMA StartReadKeeps ==
  ASSUME NEW c, NEW f \in BOOLEAN, NEW n \in Nat, NEW k \in Nat, Good(c, f, n, k),
         c.read = "none", ~c.readTimer,
         NEW kind \in {"header", "packet"}, NEW armed \in BOOLEAN
  PROVE  LET d == StartRead(c, kind, armed) IN
         /\ Good(d, f, n + 1, k)
         /\ d.read \in {"none", "header", "packet"} /\ Unanswered(d)
         /\ ~d.closed => d.read # "none"
         /\ c.closed => d.closed
         /\ Sending(d) = Sending(c)
         /\ d.protocol = c.protocol /\ d.released = c.released /\ d.held = c.held
<1>1. /\ c \in Record /\ Numbered(c, f) /\ Driven(c, f) /\ Farewell(c, f)
      /\ ReleasedOnce(c) /\ Within(c, n, k) /\ (f => c.closed)
  BY DEF Good, Almost
<1>2. CASE armed
  <2> DEFINE re == IF c.open THEN "pending" ELSE "error"
             d == [c EXCEPT !.readTimer = TRUE, !.read = kind, !.readEnd = re]
  <2>1. StartRead(c, kind, armed) = d
    BY <1>1, <1>2 DEF StartRead, StartReadTimer, Record
  <2>2. re \in {"pending", "ok", "error"} /\ re # "ok"
    OBVIOUS
  <2> HIDE DEF re
  <2>3. /\ d \in Record /\ d.read = kind /\ d.readEnd = re
        /\ Sending(d) = Sending(c) /\ d.late = c.late /\ d.readTimer
        /\ d.closed = c.closed /\ d.open = c.open /\ d.graceful = c.graceful
        /\ d.tasks = c.tasks /\ d.protocol = c.protocol /\ d.held = c.held
        /\ d.released = c.released /\ d.writeTimer = c.writeTimer
    BY <1>1, <2>2 DEF Record, Sending
  <2> HIDE DEF d
  <2>4. /\ d.queue = c.queue /\ d.sent = c.sent /\ d.write = c.write
    BY <2>3 DEF Sending
  <2>5. /\ Numbered(d, f) /\ Driven(d, f) /\ Farewell(d, f) /\ ReleasedOnce(d)
    BY <1>1, <2>3, <2>4 DEF Numbered, Gone, Driven, Farewell, ReleasedOnce, Posted
  <2>6. Within(d, n + 1, k)
    <3>1. /\ One(d.readTimer) = 1 /\ One(c.readTimer) = 0
          /\ One(d.writeTimer) = One(c.writeTimer) /\ One(c.writeTimer) \in Nat
          /\ One(d.write) = One(c.write)
          /\ One(d.closed /\ d.protocol) = One(c.closed /\ c.protocol)
          /\ One(c.closed /\ c.protocol) \in Nat
      BY <2>3, <2>4 DEF One
    <3>2. Writes(d) = Writes(c) /\ Writes(c) \in Int /\ c.late \in Nat
          /\ Len(c.tasks) \in Nat
      BY <1>1, <2>4, <3>1, Numbers DEF Writes, Gone
    <3>3. d.late = c.late /\ d.tasks = c.tasks
      BY <2>3
    <3>4. /\ c.late + One(c.readTimer) + One(c.writeTimer) <= n + Writes(c)
          /\ Len(c.tasks) <= k + One(c.closed /\ c.protocol)
      BY <1>1 DEF Within
    <3>5. QED
      BY <3>1, <3>2, <3>3, <3>4 DEF Within
  <2>7. kind # "none"
    OBVIOUS
  <2>8. QED
    BY <1>1, <2>1, <2>2, <2>3, <2>5, <2>6, <2>7 DEF Good, Almost, Unanswered
<1>3. CASE ~armed
  <2> DEFINE b == [c EXCEPT !.read = "none"]
             d == Close(b, TRUE)
  <2>1. StartRead(c, kind, armed) = d /\ b = c
    BY <1>1, <1>3 DEF StartRead, Record
  <2>2. Good(d, f, n, k)
    BY <2>1, CloseKeeps DEF Good
  <2>3. Shut(c, d) /\ d.closed
    BY <1>1, <2>1, CloseFacts
  <2> HIDE DEF b, d
  <2>4. /\ d.read = "none" /\ Sending(d) = Sending(c) /\ d.protocol = c.protocol
        /\ d.released = c.released /\ d.held = c.held
    BY <2>3 DEF Shut, Identity
  <2>5. Within(d, n + 1, k)
    <3>1. /\ d.late + One(d.readTimer) + One(d.writeTimer) <= n + Writes(d)
          /\ Len(d.tasks) <= k + One(d.closed /\ d.protocol)
          /\ d \in Record
      BY <2>2 DEF Good, Almost, Within
    <3>2. /\ One(d.readTimer) \in Nat /\ One(d.writeTimer) \in Nat
          /\ One(d.closed /\ d.protocol) \in Nat
      BY DEF One
    <3>3. /\ d.late \in Nat /\ Writes(d) \in Int /\ Len(d.tasks) \in Nat
      BY <3>1, Numbers
    <3>4. QED
      BY <3>1, <3>2, <3>3 DEF Within
  <2>6. QED
    BY <2>1, <2>2, <2>3, <2>4, <2>5 DEF Good, Almost, Unanswered
<1>4. QED
  BY <1>2, <1>3

LEMMA PostKeeps ==
  ASSUME NEW c, NEW f \in BOOLEAN, NEW n \in Nat, NEW k \in Nat, Good(c, f, n, k),
         ~c.closed, NEW t \in {"connect", "work"}
  PROVE  LET d == Post(c, t) IN
         Good(d, f, n, k + 1) /\ Onward(c, d) /\ ~d.closed
<1> DEFINE x == IF phase = "running" THEN t ELSE "lost"
           s == Append(c.tasks, x)
           d == [c EXCEPT !.tasks = s]
<1>1. /\ c \in Record /\ Numbered(c, f) /\ Driven(c, f) /\ Farewell(c, f)
      /\ ReleasedOnce(c) /\ Within(c, n, k)
  BY DEF Good, Almost
<1>2. x \in Tasks /\ x # "release"
  BY DEF Tasks
<1>3. c.tasks \in Seq(Tasks)
  BY <1>1 DEF Record
<1>4. Post(c, t) = d
  BY DEF Post
<1> HIDE DEF x
<1>5. /\ s \in Seq(Tasks) /\ Len(s) = Len(c.tasks) + 1 /\ Len(c.tasks) \in Nat
      /\ \A i \in 1..Len(c.tasks) : s[i] = c.tasks[i]
      /\ s[Len(c.tasks) + 1] = x
  BY <1>2, <1>3, SeqFacts
<1> HIDE DEF s
<1>6. /\ d \in Record /\ d.tasks = s /\ Identity(d) = Identity(c)
      /\ Sending(d) = Sending(c) /\ d.closed = c.closed /\ d.open = c.open
      /\ d.graceful = c.graceful /\ d.readTimer = c.readTimer
      /\ d.writeTimer = c.writeTimer /\ d.readEnd = c.readEnd
  BY <1>1, <1>5 DEF Record, Identity, Sending
<1> HIDE DEF d
<1>7. /\ d.queue = c.queue /\ d.sent = c.sent /\ d.write = c.write
      /\ d.late = c.late /\ d.released = c.released /\ d.protocol = c.protocol
  BY <1>6 DEF Identity, Sending
<1>8. Numbered(d, f) /\ Driven(d, f) /\ Farewell(d, f)
  BY <1>1, <1>6, <1>7 DEF Numbered, Gone, Driven, Farewell
<1>9. ReleasedOnce(d)
  <2>1. ~c.released /\ \A i \in 1..Len(c.tasks) : c.tasks[i] # "release"
    BY <1>1 DEF ReleasedOnce, Posted
  <2>2. ASSUME NEW i \in 1..Len(s)
        PROVE  s[i] # "release"
    <3>1. i \in 1..Len(c.tasks) \/ i = Len(c.tasks) + 1
      BY <1>5
    <3>2. CASE i \in 1..Len(c.tasks)
      BY <1>5, <2>1, <3>2
    <3>3. CASE i = Len(c.tasks) + 1
      BY <1>2, <1>5, <3>3
    <3>4. QED
      BY <3>1, <3>2, <3>3
  <2>3. QED
    BY <1>6, <1>7, <2>1, <2>2 DEF ReleasedOnce, Posted
<1>10. Within(d, n, k + 1)
  <2>1. /\ One(d.closed /\ d.protocol) = 0 /\ One(c.closed /\ c.protocol) = 0
        /\ One(d.write) = One(c.write) /\ One(d.readTimer) = One(c.readTimer)
        /\ One(d.writeTimer) = One(c.writeTimer)
    BY <1>6, <1>7 DEF One
  <2>2. Writes(d) = Writes(c) /\ d.late = c.late
    BY <1>7, <2>1 DEF Writes, Gone
  <2>3. Len(d.tasks) <= k + 1
    <3>1. Len(c.tasks) <= k /\ d.tasks = s
      BY <1>1, <1>6, <2>1 DEF Within
    <3>2. QED
      BY <1>5, <3>1
  <2>4. c.late + One(c.readTimer) + One(c.writeTimer) <= n + Writes(c)
    BY <1>1 DEF Within
  <2>5. QED
    BY <2>1, <2>2, <2>3, <2>4 DEF Within
<1>11. Onward(c, d) /\ ~d.closed
  <2>1. Gone(d) = Gone(c) /\ c.sent <= d.sent
    BY <1>1, <1>7, Numbers DEF Gone
  <2>2. QED
    BY <1>6, <2>1 DEF Onward
<1>12. QED
  BY <1>4, <1>6, <1>8, <1>9, <1>10, <1>11 DEF Good, Almost

-----------------------------------------------------------------------------
(* Whole handlers. *)
LEMMA Loosen ==
  ASSUME NEW c, NEW f, NEW n \in Nat, NEW k \in Nat, Good(c, f, n, k),
         NEW m \in Nat, NEW l \in Nat, n <= m, k <= l
  PROVE  Good(c, f, m, l)
<1>1. /\ c \in Record
      /\ c.late + One(c.readTimer) + One(c.writeTimer) <= n + Writes(c)
      /\ Len(c.tasks) <= k + One(c.closed /\ c.protocol)
  BY DEF Good, Almost, Within
<1>2. /\ One(c.readTimer) \in Nat /\ One(c.writeTimer) \in Nat
      /\ One(c.closed /\ c.protocol) \in Nat
  BY DEF One
<1>3. c.late \in Nat /\ Writes(c) \in Int /\ Len(c.tasks) \in Nat
  BY <1>1, Numbers
<1>4. Within(c, m, l)
  <2> DEFINE x == One(c.readTimer)   y == One(c.writeTimer)
             z == One(c.closed /\ c.protocol)
             w == Writes(c)   t == Len(c.tasks)   a == c.late
  <2>1. a + x + y <= n + w /\ t <= k + z
    BY <1>1
  <2>2. x \in Nat /\ y \in Nat /\ z \in Nat /\ a \in Nat /\ w \in Int /\ t \in Nat
    BY <1>2, <1>3
  <2> HIDE DEF x, y, z, w, t, a
  <2>3. a + x + y <= m + w /\ t <= l + z
    BY <2>1, <2>2
  <2>4. QED
    BY <2>3 DEF Within, x, y, z, w, t, a
<1>5. QED
  BY <1>4 DEF Good, Almost

(* A handler that ends with the connection closed, and one that reads on. *)
LEMMA Ended ==
  ASSUME NEW c, NEW f, NEW r \in Nat, NEW n \in Nat, NEW k \in Nat,
         Good(c, f, n, k), n <= r + 1, k <= r + 1, c.closed, c.read = "none"
  PROVE  Sound(c, f, r)
<1>1. Good(c, f, r + 1, r + 1)
  BY Loosen
<1>2. One(Unanswered(c)) = 1
  BY DEF One, Unanswered
<1>3. QED
  BY <1>1, <1>2 DEF Sound, Opening

LEMMA ReadsOn ==
  ASSUME NEW c, NEW f \in BOOLEAN, NEW r \in Nat, NEW k \in Nat,
         Good(c, f, r, k), k <= r + 1, c.read = "none", ~c.readTimer,
         NEW kind \in {"header", "packet"}, NEW armed \in Armings
  PROVE  LET d == StartRead(c, kind, armed) IN
         /\ Sound(d, f, r)
         /\ c.closed => d.closed
         /\ Sending(d) = Sending(c)
         /\ d.protocol = c.protocol /\ d.released = c.released /\ d.held = c.held
<1> DEFINE d == StartRead(c, kind, armed)
<1>1. /\ Good(d, f, r + 1, k)
      /\ d.read \in {"none", "header", "packet"} /\ Unanswered(d)
      /\ ~d.closed => d.read # "none"
      /\ c.closed => d.closed
      /\ Sending(d) = Sending(c)
      /\ d.protocol = c.protocol /\ d.released = c.released /\ d.held = c.held
  BY StartReadKeeps, ConnectionAssumption
<1> HIDE DEF d
<1>2. Good(d, f, r + 1, r + 1)
  BY <1>1, Loosen
<1>3. One(Unanswered(d)) = 1 /\ d.read # "accept"
  BY <1>1 DEF One
<1>4. Sound(d, f, r)
  BY <1>1, <1>2, <1>3 DEF Sound, Opening
<1>5. QED
  BY <1>1, <1>4 DEF d

(* A step that leaves the read alone. *)
LEMMA Continues ==
  ASSUME NEW c, NEW d, NEW f, NEW g, NEW r \in Nat, Sound(c, f, r), Onward(c, d),
         Good(d, g, r + One(Unanswered(c)), r + One(Unanswered(c))),
         c.read # "accept"
  PROVE  Sound(d, g, r)
<1>1. d.read = c.read /\ (Unanswered(d) <=> Unanswered(c))
  BY DEF Onward, Identity, Unanswered
<1>2. One(Unanswered(d)) = One(Unanswered(c))
  BY <1>1 DEF One
<1>3. ~d.closed => d.read # "none"
  BY <1>1 DEF Sound, Onward
<1>4. QED
  BY <1>1, <1>2, <1>3 DEF Sound, Opening

(* What the next state has to satisfy, seen from this one; a server that is *)
(* down does not serve any more.                                            *)
LEMMA CarriedOver ==
  ASSUME NEW n, n = reads' + One(Unanswered(conn')),
         conn' \in Record, Numbered(conn', failed'), Driven(conn', failed'),
         ReleasedOnce(conn'), Within(conn', n, n), failed' => conn'.closed,
         Opening(conn'), ~conn'.closed => conn'.read # "none",
         Farewell(conn', failed') \/ (~Serving' /\ (conn'.graceful => conn'.closed)),
         Len(written') <= conn'.sent, ~failed' => Len(written') = Gone(conn'),
         \A i \in 1..Len(written') : written'[i] = i,
         written' \in Seq(1..MaxMessages), failed' \in BOOLEAN,
         reads' \in 0..MaxReads,
         phase' \in {"running", "stopping", "down", "dead"},
         Serving' => Serving, phase' = "running" => phase = "running"
  PROVE  IInv'
<1>1. (conn \in Record)'
  BY DEF Record, Tasks
<1>2. Numbered(conn, failed)' /\ Driven(conn, failed)'
  BY DEF Numbered, Gone, Driven
<1>3. Farewell(conn, failed)'
  BY DEF Farewell
<1>4. ReleasedOnce(conn)'
  BY DEF ReleasedOnce, Posted
<1>5. Within(conn, reads + One(Unanswered(conn)), reads + One(Unanswered(conn)))'
  BY DEF Within, Writes, Gone, One, Unanswered
<1>6. Opening(conn)'
  BY DEF Opening
<1>7. Sound(conn, failed, reads)'
  BY <1>1, <1>2, <1>3, <1>4, <1>5, <1>6 DEF Sound, Good, Almost
<1>8. Gone(conn)' = Gone(conn')
  BY DEF Gone
<1>9. QED
  BY <1>7, <1>8 DEF IInv

LEMMA Carried ==
  ASSUME IInv, Sound(conn', failed', reads'),
         conn.sent <= conn'.sent, Gone(conn') = Gone(conn), written' = written,
         failed => failed', failed' \in BOOLEAN, reads' \in 0..MaxReads,
         phase' \in {"running", "stopping", "down", "dead"},
         Serving' => Serving, phase' = "running" => phase = "running"
  PROVE  IInv'
<1> DEFINE n == reads' + One(Unanswered(conn'))
<1>1. /\ conn' \in Record
      /\ Numbered(conn', failed') /\ Driven(conn', failed')
      /\ Farewell(conn', failed') /\ ReleasedOnce(conn') /\ Within(conn', n, n)
      /\ failed' => conn'.closed
      /\ Opening(conn')
      /\ ~conn'.closed => conn'.read # "none"
  BY DEF Sound, Good, Almost
<1>2. /\ Len(written) <= conn'.sent
      /\ ~failed' => Len(written) = Gone(conn')
      /\ \A i \in 1..Len(written) : written[i] = i
  <2>1. conn.sent \in Nat /\ conn'.sent \in Nat
    BY <1>1, Numbers DEF IInv, Sound, Good, Almost
  <2>2. Len(written) \in Nat /\ Len(written) <= conn.sent
    BY SeqFacts DEF IInv
  <2>3. QED
    BY <2>1, <2>2 DEF IInv
<1>3. written' \in Seq(1..MaxMessages)
  BY DEF IInv
<1> HIDE DEF n
<1>4. n = reads' + One(Unanswered(conn'))
  BY DEF n
<1>5. QED
  BY <1>1, <1>2, <1>3, <1>4, CarriedOver

(* What the operators of a handler start from. *)
LEMMA Answered ==
  ASSUME IInv, NEW kind \in {"accept", "header", "packet"}, Ready(kind)
  PROVE  LET n == reads + One(Unanswered(conn)) IN
         /\ n \in Nat /\ n <= reads + 1 /\ (conn.readEnd = "ok" => n = reads)
         /\ Good(Received, failed, n, n)
         /\ Received.read = "none" /\ ~Received.readTimer
         /\ Received.closed = conn.closed /\ Received.protocol = conn.protocol
         /\ Sending(Received) = Sending(conn)
<1> DEFINE n == reads + One(Unanswered(conn))
           d == [conn EXCEPT !.read = "none", !.readTimer = FALSE, !.held = TRUE]
<1>1. /\ conn \in Record /\ Numbered(conn, failed) /\ Driven(conn, failed)
      /\ Farewell(conn, failed) /\ ReleasedOnce(conn) /\ Within(conn, n, n)
      /\ (failed => conn.closed)
  BY DEF IInv, Sound, Good, Almost
<1>2. reads \in Nat
  BY DEF IInv
<1>3. conn.read = kind /\ kind # "none"
  BY DEF Ready
<1>4. n \in Nat /\ n <= reads + 1 /\ (conn.readEnd = "ok" => n = reads)
  BY <1>2, <1>3 DEF One, Unanswered
<1> HIDE DEF n
<1>5. Received = d
  BY DEF Received
<1>6. /\ d \in Record /\ d.read = "none" /\ ~d.readTimer /\ d.held
      /\ Sending(d) = Sending(conn) /\ d.closed = conn.closed
      /\ d.protocol = conn.protocol /\ d.released = conn.released
      /\ d.tasks = conn.tasks /\ d.late = conn.late /\ d.open = conn.open
      /\ d.graceful = conn.graceful /\ d.writeTimer = conn.writeTimer
  BY <1>1 DEF Record, Sending
<1> HIDE DEF d
<1>7. d.queue = conn.queue /\ d.sent = conn.sent /\ d.write = conn.write
  BY <1>6 DEF Sending
<1>8. Numbered(d, failed) /\ Driven(d, failed) /\ Farewell(d, failed)
      /\ ReleasedOnce(d)
  BY <1>1, <1>6, <1>7 DEF Numbered, Gone, Driven, Farewell, ReleasedOnce, Posted
<1>9. Within(d, n, n)
  <2>1. /\ One(d.readTimer) = 0 /\ One(conn.readTimer) \in Nat
        /\ One(d.writeTimer) = One(conn.writeTimer) /\ One(conn.writeTimer) \in Nat
        /\ One(d.write) = One(conn.write)
        /\ One(d.closed /\ d.protocol) = One(conn.closed /\ conn.protocol)
    BY <1>6, <1>7 DEF One
  <2>2. Writes(d) = Writes(conn) /\ Writes(conn) \in Int /\ conn.late \in Nat
    BY <1>1, <1>7, <2>1, Numbers DEF Writes, Gone
  <2>3. d.late = conn.late /\ d.tasks = conn.tasks
    BY <1>6
  <2>4. /\ conn.late + One(conn.readTimer) + One(conn.writeTimer) <= n + Writes(conn)
        /\ Len(conn.tasks) <= n + One(conn.closed /\ conn.protocol)
    BY <1>1 DEF Within
  <2>5. QED
    BY <1>4, <2>1, <2>2, <2>3, <2>4 DEF Within
<1>10. Good(d, failed, n, n)
  BY <1>1, <1>6, <1>8, <1>9 DEF Good, Almost
<1>11. QED
  BY <1>4, <1>5, <1>6, <1>10 DEF n

(* The protocol is set, and the first packet noted. *)
LEMMA BoundKeeps ==
  ASSUME NEW c, NEW f, NEW n, NEW k, Good(c, f, n, k), ~c.closed,
         NEW d \in {[c EXCEPT !.protocol = TRUE], [c EXCEPT !.receivedFirst = TRUE]}
  PROVE  /\ Good(d, f, n, k) /\ ~d.closed
         /\ d.read = c.read /\ d.readTimer = c.readTimer
         /\ Sending(d) = Sending(c)
<1>1. /\ c \in Record /\ Numbered(c, f) /\ Driven(c, f) /\ Farewell(c, f)
      /\ ReleasedOnce(c) /\ Within(c, n, k) /\ (f => c.closed)
  BY DEF Good, Almost
<1>2. /\ d \in Record /\ d.read = c.read /\ d.readTimer = c.readTimer
      /\ Sending(d) = Sending(c) /\ d.closed = c.closed
      /\ d.released = c.released /\ d.tasks = c.tasks /\ d.late = c.late
      /\ d.open = c.open /\ d.graceful = c.graceful /\ d.writeTimer = c.writeTimer
  BY <1>1 DEF Record, Sending
<1>3. d.queue = c.queue /\ d.sent = c.sent /\ d.write = c.write
  BY <1>2 DEF Sending
<1>4. Numbered(d, f) /\ Driven(d, f) /\ Farewell(d, f) /\ ReleasedOnce(d)
  BY <1>1, <1>2, <1>3
  DEF Numbered, Gone, Driven, Farewell, ReleasedOnce, Posted
<1>5. Within(d, n, k)
  <2>1. /\ One(d.readTimer) = One(c.readTimer)
        /\ One(d.writeTimer) = One(c.writeTimer) /\ One(d.write) = One(c.write)
        /\ One(d.closed /\ d.protocol) = One(c.closed /\ c.protocol)
    BY <1>2, <1>3 DEF One
  <2>2. Writes(d) = Writes(c) /\ d.late = c.late /\ d.tasks = c.tasks
    BY <1>2, <1>3, <2>1 DEF Writes, Gone
  <2>3. QED
    BY <1>1, <2>1, <2>2 DEF Within
<1>6. QED
  BY <1>1, <1>2, <1>4, <1>5 DEF Good, Almost

LEMMA Closing ==
  ASSUME NEW c, NEW f \in BOOLEAN, NEW r \in Nat, NEW n \in Nat, Good(c, f, n, n),
         n <= r + 1, c.read = "none", NEW force \in BOOLEAN
  PROVE  LET d == Close(c, force) IN
         Sound(d, f, r) /\ Sending(d) = Sending(c)
<1> DEFINE d == Close(c, force)
<1>1. Good(d, f, n, n)
  BY CloseKeeps DEF Good
<1>2. Shut(c, d) /\ d.closed
  BY CloseFacts DEF Good, Almost
<1> HIDE DEF d
<1>3. d.read = "none" /\ Sending(d) = Sending(c)
  BY <1>2 DEF Shut, Identity
<1>4. QED
  BY <1>1, <1>2, <1>3, Ended DEF d

LEMMA Accepting == ASSUME IInv, OnAccept PROVE IInv'
<1>1. /\ Ready("accept") /\ conn.read = "accept"
      /\ UNCHANGED <<reads, written, failed, phase>>
  BY DEF OnAccept, Ready
<1>2. conn.readEnd = "ok" /\ ~conn.closed /\ ~conn.protocol
  BY <1>1 DEF IInv, Sound, Opening
<1>3. /\ Good(Received, failed, reads, reads)
      /\ Received.read = "none" /\ ~Received.readTimer
      /\ ~Received.closed /\ Sending(Received) = Sending(conn)
  BY <1>1, <1>2, Answered
<1>4. reads \in Nat /\ reads <= reads + 1 /\ failed \in BOOLEAN
  BY DEF IInv
<1>5. Sound(conn', failed, reads) /\ Sending(conn') = Sending(conn)
  <2>1. CASE conn' = Close(Received, TRUE)
    BY <1>3, <1>4, <2>1, Closing
  <2>2. ASSUME NEW armed \in Armings, conn' = StartRead(Received, "header", armed)
        PROVE  Sound(conn', failed, reads) /\ Sending(conn') = Sending(conn)
    BY <1>3, <1>4, <2>2, ReadsOn
  <2>3. ASSUME NEW armed \in Armings,
               conn' = StartRead(Post([Received EXCEPT !.protocol = TRUE], "connect"),
                                 "header", armed)
        PROVE  Sound(conn', failed, reads) /\ Sending(conn') = Sending(conn)
    <3> DEFINE c == [Received EXCEPT !.protocol = TRUE]
               d == Post(c, "connect")
    <3>1. /\ Good(c, failed, reads, reads) /\ ~c.closed
          /\ c.read = "none" /\ ~c.readTimer /\ Sending(c) = Sending(conn)
      BY <1>3, BoundKeeps
    <3>2. Good(d, failed, reads, reads + 1) /\ Onward(c, d)
      <4> HIDE DEF c
      <4>1. QED
        BY <1>4, <3>1, PostKeeps
    <3>3. Sending(d) = Sending(c)
      <4>1. c \in Record
        BY <3>1 DEF Good, Almost
      <4> HIDE DEF c
      <4>2. QED
        BY <4>1 DEF Post, Sending, Record
    <3>4. d.read = "none" /\ ~d.readTimer
      BY <3>1, <3>2 DEF Onward, Identity
    <3>5. conn' = StartRead(d, "header", armed)
      BY <2>3
    <3> HIDE DEF c, d
    <3>6. QED
      BY <1>4, <3>1, <3>2, <3>3, <3>4, <3>5, ReadsOn
  <2>4. QED
    BY <2>1, <2>2, <2>3 DEF OnAccept
<1>6. conn.sent <= conn'.sent /\ Gone(conn') = Gone(conn)
  BY <1>5, Numbers DEF Sending, Gone, IInv, Sound, Good, Almost
<1>7. QED
  BY <1>1, <1>4, <1>5, <1>6, Carried DEF IInv, Serving

(* What ParseHeader and ParsePacket refuse. *)
LEMMA Refusing ==
  ASSUME IInv, NEW kind \in {"header", "packet"}, Ready(kind), Refused(Received),
         conn' = Refuse(Received)
  PROVE  Sound(conn', failed, reads) /\ Sending(conn') = Sending(conn)
<1> DEFINE n == reads + One(Unanswered(conn))
<1>1. /\ n \in Nat /\ n <= reads + 1 /\ Good(Received, failed, n, n)
      /\ Received.read = "none" /\ Received.closed = conn.closed
      /\ Sending(Received) = Sending(conn)
  BY Answered
<1>2. reads \in Nat /\ failed \in BOOLEAN
  BY DEF IInv
<1> HIDE DEF n
<1>3. CASE conn.readEnd = "error"
  BY <1>1, <1>2, <1>3, Closing DEF Refuse
<1>4. CASE conn.readEnd # "error"
  <2>1. conn' = Received /\ Received.closed
    BY <1>4 DEF Refuse, Refused, IsClosed
  <2>2. QED
    BY <1>1, <1>2, <2>1, Ended
<1>5. QED
  BY <1>3, <1>4

LEMMA ParsingHeader == ASSUME IInv, ParseHeader PROVE IInv'
<1>1. Ready("header") /\ UNCHANGED <<reads, written, failed, phase>>
  BY DEF ParseHeader
<1>2. reads \in Nat /\ reads <= reads + 1 /\ failed \in BOOLEAN
  BY DEF IInv
<1>3. Sound(conn', failed, reads) /\ Sending(conn') = Sending(conn)
  <2>1. CASE Refused(Received)
    BY <1>1, <2>1, Refusing DEF ParseHeader
  <2>2. CASE ~Refused(Received)
    <3>1. conn.readEnd = "ok"
      BY <1>1, <2>2 DEF Ready, Refused, IInv, Sound, Good, Almost, Record
    <3>2. /\ Good(Received, failed, reads, reads)
          /\ Received.read = "none" /\ ~Received.readTimer
          /\ Sending(Received) = Sending(conn)
      BY <1>1, <3>1, Answered
    <3>3. CASE conn' = Close(Received, FALSE) \/ conn' = Close(Received, TRUE)
      BY <1>2, <3>2, <3>3, Closing
    <3>4. ASSUME NEW armed \in Armings, conn' = StartRead(Received, "packet", armed)
          PROVE  Sound(conn', failed, reads) /\ Sending(conn') = Sending(conn)
      BY <1>2, <3>2, <3>4, ReadsOn
    <3>5. QED
      BY <2>2, <3>3, <3>4 DEF ParseHeader
  <2>3. QED
    BY <2>1, <2>2
<1>4. conn.sent <= conn'.sent /\ Gone(conn') = Gone(conn)
  BY <1>3, Numbers DEF Sending, Gone, IInv, Sound, Good, Almost
<1>5. QED
  BY <1>1, <1>2, <1>3, <1>4, Carried DEF IInv, Serving

Sounds ==
  /\ Sound(conn', failed', reads)
  /\ conn.sent <= conn'.sent /\ Gone(conn') = Gone(conn)

LEMMA ParsingPacket == ASSUME IInv, ParsePacket PROVE IInv'
<1>1. /\ Ready("packet") /\ UNCHANGED <<reads, written, phase>>
      /\ failed' = (failed \/ Threw(conn'))
  BY DEF ParsePacket
<1>2. reads \in Nat /\ reads <= reads + 1 /\ failed \in BOOLEAN
  BY DEF IInv
<1>a. conn \in Record
  BY DEF IInv, Sound, Good, Almost
<1>3. ASSUME Sound(conn', failed, reads), Sending(conn') = Sending(conn)
      PROVE  Sounds
  <2>1. failed' = failed
    BY <1>1, <1>2, <1>3, ThrewIsFailed DEF Sound
  <2>2. QED
    BY <1>3, <1>a, <2>1, Numbers DEF Sounds, Sending, Gone
<1>4. ASSUME Refused(Received) PROVE Sounds
  <2>1. conn' = Refuse(Received) /\ Ready("packet")
    BY <1>4 DEF ParsePacket
  <2>2. Sound(conn', failed, reads) /\ Sending(conn') = Sending(conn)
    BY <1>4, <2>1, Refusing
  <2>3. QED
    BY <1>3, <2>2
<1>5. ASSUME ~Refused(Received) PROVE Sounds
  <2> DEFINE c == [Received EXCEPT !.receivedFirst = TRUE]
             e == [c EXCEPT !.protocol = TRUE]
             w == Post(e, "work")
  <2>1. conn.readEnd = "ok" /\ ~Received.closed
    BY <1>1, <1>5, <1>a DEF Ready, Refused, IsClosed, Record
  <2>2. /\ Good(Received, failed, reads, reads)
        /\ Received.read = "none" /\ ~Received.readTimer
        /\ Sending(Received) = Sending(conn)
    BY <1>1, <2>1, Answered
  <2>3. /\ Good(c, failed, reads, reads) /\ ~c.closed
        /\ c.read = "none" /\ ~c.readTimer /\ Sending(c) = Sending(conn)
    BY <2>1, <2>2, BoundKeeps
  <2>4. \/ conn' = Close(c, TRUE)
        \/ \E d \in Reactions(e) \cup {w}, armed \in Armings :
             conn' = StartRead(d, "header", armed)
    BY <1>5 DEF ParsePacket
  <2> HIDE DEF c
  <2>5. /\ Good(e, failed, reads, reads) /\ ~e.closed
        /\ e.read = "none" /\ ~e.readTimer /\ Sending(e) = Sending(conn)
    BY <2>3, BoundKeeps
  <2> HIDE DEF e
  <2>6. CASE conn' = Close(c, TRUE)
    <3>1. Sound(conn', failed, reads) /\ Sending(conn') = Sending(conn)
      BY <1>2, <2>3, <2>6, Closing
    <3>2. QED
      BY <1>3, <3>1
  <2>7. ASSUME NEW d \in Reactions(e), NEW armed \in Armings,
               conn' = StartRead(d, "header", armed)
        PROVE  Sounds
    <3>1. e.sent = conn.sent
      BY <2>5 DEF Sending
    <3> DEFINE g == failed \/ Threw(d)
    <3>2. Good(d, g, reads, reads) /\ Onward(e, d)
      BY <1>2, <2>5, <3>1, ReactionsKeep
    <3>3. g \in BOOLEAN /\ d.read = "none" /\ ~d.readTimer
      BY <1>2, <2>5, <3>2 DEF Onward, Identity
    <3>4. (g <=> failed \/ Threw(d))
      OBVIOUS
    <3> HIDE DEF g
    <3>5. Sound(conn', g, reads) /\ Sending(conn') = Sending(d)
      BY <1>2, <2>7, <3>2, <3>3, ReadsOn
    <3>6. failed' = g
      <4>1. Threw(conn') <=> Threw(d)
        BY <3>5 DEF Threw, Sending
      <4>2. QED
        BY <1>1, <1>2, <3>3, <3>4, <4>1
    <3>7. conn.sent <= conn'.sent /\ Gone(conn') = Gone(conn)
      BY <2>5, <3>2, <3>5 DEF Onward, Sending, Gone
    <3>8. QED
      BY <3>5, <3>6, <3>7 DEF Sounds
  <2>8. ASSUME NEW armed \in Armings, conn' = StartRead(w, "header", armed)
        PROVE  Sounds
    <3>1. Good(w, failed, reads, reads + 1) /\ Onward(e, w)
      BY <1>2, <2>5, PostKeeps
    <3>2. Sending(w) = Sending(e)
      BY <2>5 DEF Post, Sending, Record, Good, Almost
    <3>3. w.read = "none" /\ ~w.readTimer
      BY <2>5, <3>1 DEF Onward, Identity
    <3> HIDE DEF w
    <3>4. Sound(conn', failed, reads) /\ Sending(conn') = Sending(w)
      BY <1>2, <2>8, <3>1, <3>3, ReadsOn
    <3>5. QED
      BY <1>3, <2>5, <3>2, <3>4
  <2>9. QED
    BY <2>4, <2>6, <2>7, <2>8
<1>6. Sounds
  BY <1>4, <1>5
<1>7. QED
  BY <1>1, <1>2, <1>6, Carried DEF IInv, Serving, Sounds

(* A task of the protocol and an event of the game. *)
LEMMA Playing == ASSUME IInv, Play PROVE IInv'
<1> DEFINE n == reads + One(Unanswered(conn))
<1>1. /\ conn' \in Reactions(conn) /\ failed' = (failed \/ Threw(conn'))
      /\ UNCHANGED <<reads, written, phase>> /\ conn.protocol
  BY DEF Play
<1>2. /\ reads \in Nat /\ n \in Nat /\ failed \in BOOLEAN
      /\ Sound(conn, failed, reads) /\ Good(conn, failed, n, n)
  BY DEF IInv, One, Sound
<1>3. conn.read # "accept"
  BY <1>1, <1>2 DEF Sound, Opening
<1>4. Good(conn', failed \/ Threw(conn'), n, n) /\ Onward(conn, conn')
  BY <1>1, <1>2, ReactionsKeep
<1>5. Sound(conn', failed', reads)
  BY <1>1, <1>2, <1>3, <1>4, Continues
<1>6. QED
  BY <1>1, <1>2, <1>4, <1>5, Carried DEF IInv, Onward, Serving

(* A change that the handlers do not tell apart. *)
LEMMA Little ==
  ASSUME NEW c, NEW f, NEW n, NEW k, Good(c, f, n, k), n \in Int,
         NEW d \in Record, Sending(d) = Sending(c),
         d.closed = c.closed, d.open = c.open, d.graceful = c.graceful,
         d.protocol = c.protocol, d.released = c.released, d.tasks = c.tasks,
         d.late + One(d.readTimer) + One(d.writeTimer)
           <= c.late + One(c.readTimer) + One(c.writeTimer)
  PROVE  Good(d, f, n, k)
<1>1. /\ c \in Record /\ Numbered(c, f) /\ Driven(c, f) /\ Farewell(c, f)
      /\ ReleasedOnce(c) /\ Within(c, n, k) /\ (f => c.closed)
  BY DEF Good, Almost
<1>2. d.queue = c.queue /\ d.sent = c.sent /\ d.write = c.write
  BY DEF Sending
<1>3. Numbered(d, f) /\ Driven(d, f) /\ Farewell(d, f) /\ ReleasedOnce(d)
  BY <1>1, <1>2 DEF Numbered, Gone, Driven, Farewell, ReleasedOnce, Posted
<1>4. Within(d, n, k)
  <2>1. /\ One(d.write) = One(c.write)
        /\ One(d.closed /\ d.protocol) = One(c.closed /\ c.protocol)
    BY <1>2 DEF One
  <2>2. Writes(d) = Writes(c)
    BY <1>2, <2>1 DEF Writes, Gone
  <2>3. /\ c.late + One(c.readTimer) + One(c.writeTimer) <= n + Writes(c)
        /\ Len(c.tasks) <= k + One(c.closed /\ c.protocol)
    BY <1>1 DEF Within
  <2>4. /\ c.late \in Nat /\ d.late \in Nat /\ Writes(c) \in Int
        /\ One(c.readTimer) \in Nat /\ One(c.writeTimer) \in Nat
        /\ One(d.readTimer) \in Nat /\ One(d.writeTimer) \in Nat
    BY <1>1, Numbers DEF One
  <2>5. d.late + One(d.readTimer) + One(d.writeTimer) <= n + Writes(d)
    BY <2>2, <2>3, <2>4
  <2>6. QED
    BY <2>1, <2>3, <2>5 DEF Within
<1>5. QED
  BY <1>1, <1>3, <1>4 DEF Good, Almost

LEMMA TimingOut == ASSUME IInv, HandleTimeout PROVE IInv'
<1> DEFINE n == reads + One(Unanswered(conn))
           c == [conn EXCEPT !.late = @ - 1, !.held = Alive(conn)]
<1>1. /\ conn.late > 0 /\ conn' = (IF Alive(conn) THEN Close(c, TRUE) ELSE c)
      /\ UNCHANGED <<reads, written, failed, phase>>
  BY DEF HandleTimeout
<1>2. /\ reads \in Nat /\ n \in Nat /\ failed \in BOOLEAN
      /\ Sound(conn, failed, reads) /\ Good(conn, failed, n, n)
      /\ conn \in Record
  BY DEF IInv, One, Sound, Good, Almost
<1>3. conn.read # "accept"
  BY <1>1, <1>2 DEF Sound, Opening
<1>4. /\ c \in Record /\ Sending(c) = Sending(conn) /\ c.closed = conn.closed
      /\ c.open = conn.open /\ c.graceful = conn.graceful
      /\ c.protocol = conn.protocol /\ c.released = conn.released
      /\ c.tasks = conn.tasks /\ c.read = conn.read /\ c.readEnd = conn.readEnd
      /\ c.late = conn.late - 1 /\ c.readTimer = conn.readTimer
      /\ c.writeTimer = conn.writeTimer
  <2> DEFINE l == conn.late - 1
             h == Alive(conn)
  <2>1. l \in Nat
    BY <1>1, <1>2 DEF Record
  <2>2. h \in BOOLEAN
    BY <1>2 DEF Record, Alive
  <2>3. c = [conn EXCEPT !.late = l, !.held = h]
    BY <1>2 DEF Record
  <2> HIDE DEF l, h, c
  <2>4. /\ c \in Record /\ Sending(c) = Sending(conn) /\ c.closed = conn.closed
        /\ c.open = conn.open /\ c.graceful = conn.graceful
        /\ c.protocol = conn.protocol /\ c.released = conn.released
        /\ c.tasks = conn.tasks /\ c.read = conn.read /\ c.readEnd = conn.readEnd
        /\ c.late = l /\ c.readTimer = conn.readTimer
        /\ c.writeTimer = conn.writeTimer
    BY <1>2, <2>1, <2>2, <2>3 DEF Record, Sending
  <2>5. QED
    BY <2>4 DEF l
<1> HIDE DEF c
<1>5. Good(c, failed, n, n)
  <2>1. conn.late \in Nat /\ One(conn.readTimer) \in Nat /\ One(conn.writeTimer) \in Nat
    BY <1>2, Numbers DEF One
  <2>2. c.late + One(c.readTimer) + One(c.writeTimer)
          <= conn.late + One(conn.readTimer) + One(conn.writeTimer)
    BY <1>4, <2>1
  <2>3. QED
    BY <1>2, <1>4, <2>2, Little
<1>6. /\ Good(conn', failed, n, n) /\ Sending(conn') = Sending(conn)
      /\ conn'.read = conn.read /\ (conn'.readEnd = "ok" <=> conn.readEnd = "ok")
      /\ conn.closed => conn'.closed
  <2>1. CASE Alive(conn)
    <3>1. Good(conn', failed, n, n)
      BY <1>1, <1>2, <1>5, <2>1, CloseKeeps DEF Good
    <3>2. Shut(c, conn') /\ conn'.closed
      BY <1>1, <1>4, <2>1, CloseFacts
    <3>3. QED
      BY <1>4, <3>1, <3>2 DEF Shut, Identity
  <2>2. CASE ~Alive(conn)
    BY <1>1, <1>4, <1>5, <2>2
  <2>3. QED
    BY <2>1, <2>2
<1>7. Sound(conn', failed, reads)
  <2>1. One(Unanswered(conn')) = One(Unanswered(conn))
    BY <1>6 DEF Unanswered, One
  <2>2. QED
    BY <1>2, <1>3, <1>6, <2>1 DEF Sound, Opening
<1>8. conn.sent <= conn'.sent /\ Gone(conn') = Gone(conn)
  BY <1>2, <1>6, Numbers DEF Sending, Gone
<1>9. QED
  BY <1>1, <1>2, <1>7, <1>8, Carried DEF IInv, Serving

(* onWriteOperation: the only step that writes. *)
LEMMA Writing == ASSUME IInv, OnWriteOperation PROVE IInv'
<1> DEFINE n == reads + One(Unanswered(conn))
           c == [conn EXCEPT !.write = FALSE, !.writeTimer = FALSE,
                             !.held = TRUE, !.queue = Popped(conn)]
           b == [c EXCEPT !.queue = <<>>]
<1>1. /\ conn.write /\ UNCHANGED <<reads, phase>>
      /\ IF conn.writeEnd = "error"
         THEN /\ conn' = Close(b, TRUE)
              /\ failed' = TRUE
              /\ UNCHANGED written
         ELSE /\ written' = Append(written, Head(conn.queue))
              /\ \E armed \in Armings :
                   conn' = IF c.queue # <<>> THEN StartWrite(c, armed)
                           ELSE IF c.closed THEN CloseSocket(c) ELSE c
              /\ failed' = (failed \/ Threw(conn'))
  BY DEF OnWriteOperation
<1>2. /\ reads \in 0..MaxReads /\ reads \in Nat /\ n \in Nat
      /\ failed \in BOOLEAN
      /\ phase \in {"running", "stopping", "down", "dead"}
      /\ written \in Seq(1..MaxMessages) /\ Len(written) \in Nat
      /\ Len(written) <= conn.sent /\ (~failed => Len(written) = Gone(conn))
      /\ \A i \in 1..Len(written) : written[i] = i
      /\ Sound(conn, failed, reads)
  BY SeqFacts DEF IInv, One
<1>3. /\ conn \in Record /\ Numbered(conn, failed) /\ Driven(conn, failed)
      /\ Farewell(conn, failed) /\ ReleasedOnce(conn) /\ Within(conn, n, n)
      /\ (failed => conn.closed) /\ (~conn.closed => conn.read # "none")
  BY <1>2 DEF Sound, Good, Almost
<1>4. conn.read # "accept"
  BY <1>1, <1>2 DEF Sound, Opening
<1>5. ~failed /\ conn.queue # <<>>
  BY <1>1, <1>3 DEF Driven
<1> DEFINE q == Tail(conn.queue)
<1>6. /\ q \in Seq(1..MaxMessages) /\ Len(q) = Len(conn.queue) - 1
      /\ \A i \in 1..Len(q) : q[i] = conn.queue[i + 1]
      /\ Head(conn.queue) = conn.queue[1] /\ Head(conn.queue) \in 1..MaxMessages
      /\ Len(conn.queue) \in Nat /\ Len(conn.queue) >= 1 /\ Len(q) \in Nat
      /\ conn.sent \in Nat /\ conn.late \in Nat
      /\ q = <<>> <=> Len(q) = 0
  <2>1. conn.queue \in Seq(1..MaxMessages)
    BY <1>3 DEF Record
  <2>2. /\ q \in Seq(1..MaxMessages) /\ Len(q) = Len(conn.queue) - 1
        /\ \A i \in 1..Len(q) : q[i] = conn.queue[i + 1]
        /\ Head(conn.queue) = conn.queue[1] /\ Head(conn.queue) \in 1..MaxMessages
    BY <1>5, <2>1, SeqFacts
  <2>3. Len(q) \in Nat /\ (q = <<>> <=> Len(q) = 0)
    <3> HIDE DEF q
    <3>1. q \in Seq(1..MaxMessages)
      BY <2>2
    <3>2. QED
      BY <3>1, SeqFacts
  <2>4. /\ Len(conn.queue) \in Nat /\ Len(conn.queue) # 0
        /\ conn.sent \in Nat /\ conn.late \in Nat
    BY <1>3, <1>5, Numbers
  <2>5. QED
    BY <2>2, <2>3, <2>4
<1>7. c = [conn EXCEPT !.write = FALSE, !.writeTimer = FALSE,
                       !.held = TRUE, !.queue = q]
  BY DEF Popped
<1> HIDE DEF q, c
<1>8. /\ c \in Record /\ c.queue = q /\ c.sent = conn.sent /\ ~c.write
      /\ ~c.writeTimer /\ c.readTimer = conn.readTimer /\ c.late = conn.late
      /\ c.closed = conn.closed /\ c.open = conn.open
      /\ c.graceful = conn.graceful /\ c.protocol = conn.protocol
      /\ c.released = conn.released /\ c.tasks = conn.tasks
      /\ c.read = conn.read /\ c.readEnd = conn.readEnd
  BY <1>3, <1>6, <1>7 DEF Record
<1>9. b \in Record /\ b = [c EXCEPT !.queue = <<>>]
  BY <1>8, EmptySeq DEF Record
<1> HIDE DEF b
<1>10. /\ b.queue = <<>> /\ b.sent = conn.sent /\ ~b.write
       /\ ~b.writeTimer /\ b.readTimer = conn.readTimer /\ b.late = conn.late
       /\ b.closed = conn.closed /\ b.open = conn.open
       /\ b.graceful = conn.graceful /\ b.protocol = conn.protocol
       /\ b.released = conn.released /\ b.tasks = conn.tasks
       /\ b.read = conn.read /\ b.readEnd = conn.readEnd
  BY <1>8, <1>9 DEF Record
(* A timer less, and a message less. *)
<1>11. /\ Gone(c) = Gone(conn) + 1 /\ Gone(conn) \in Int
       /\ Within(c, n, n) /\ Within(b, n, n)
  <2>1. /\ One(c.write) = 0 /\ One(b.write) = 0 /\ One(conn.write) = 1
        /\ One(c.writeTimer) = 0 /\ One(b.writeTimer) = 0
        /\ One(conn.writeTimer) \in Nat /\ One(conn.readTimer) \in Nat
        /\ One(c.readTimer) = One(conn.readTimer)
        /\ One(b.readTimer) = One(conn.readTimer)
        /\ One(c.closed /\ c.protocol) = One(conn.closed /\ conn.protocol)
        /\ One(b.closed /\ b.protocol) = One(conn.closed /\ conn.protocol)
    BY <1>1, <1>8, <1>10 DEF One
  <2>2. /\ c.queue = q /\ c.sent = conn.sent /\ c.late = conn.late
        /\ c.tasks = conn.tasks
        /\ Len(b.queue) = 0 /\ b.sent = conn.sent /\ b.late = conn.late
        /\ b.tasks = conn.tasks
    BY <1>8, <1>9, <1>10, Numbers
  <2>3. Gone(c) = Gone(conn) + 1 /\ Gone(conn) \in Int /\ Gone(b) = conn.sent
        /\ Gone(conn) + 1 <= conn.sent
    <3>1. /\ Len(c.queue) = Len(conn.queue) - 1 /\ c.sent = conn.sent
          /\ Len(b.queue) = 0 /\ b.sent = conn.sent
      BY <1>6, <2>2
    <3>2. Len(conn.queue) \in Nat /\ Len(conn.queue) >= 1 /\ conn.sent \in Nat
      BY <1>6
    <3>3. QED
      BY <3>1, <3>2 DEF Gone
  <2>4. /\ Writes(conn) = Gone(conn) + 1 /\ Writes(c) = Gone(conn) + 1
        /\ Writes(b) = conn.sent
    BY <1>6, <2>1, <2>3 DEF Writes
  <2>5. /\ conn.late + One(conn.readTimer) + One(conn.writeTimer) <= n + Writes(conn)
        /\ Len(conn.tasks) <= n + One(conn.closed /\ conn.protocol)
    BY <1>3 DEF Within
  <2> HIDE DEF n
  <2>6. /\ c.late + One(c.readTimer) + One(c.writeTimer) <= n + Writes(c)
        /\ b.late + One(b.readTimer) + One(b.writeTimer) <= n + Writes(b)
    <3>1. /\ c.late = conn.late /\ b.late = conn.late /\ conn.late \in Nat
          /\ conn.sent \in Nat /\ n \in Nat
      BY <1>2, <1>6, <2>2
    <3>2. /\ One(c.writeTimer) = 0 /\ One(b.writeTimer) = 0
          /\ One(conn.writeTimer) \in Nat /\ One(conn.readTimer) \in Nat
          /\ One(c.readTimer) = One(conn.readTimer)
          /\ One(b.readTimer) = One(conn.readTimer)
      BY <2>1
    <3>3. conn.late + One(conn.readTimer) + One(conn.writeTimer) <= n + Writes(conn)
      BY <2>5
    <3>4. QED
      BY <2>3, <2>4, <3>1, <3>2, <3>3
  <2>7. QED
    BY <2>1, <2>2, <2>3, <2>5, <2>6 DEF Within
<1>12. ReleasedOnce(c) /\ ReleasedOnce(b)
  BY <1>3, <1>8, <1>10 DEF ReleasedOnce, Posted
<1>13. Farewell(c, FALSE) /\ Farewell(b, TRUE)
  BY <1>3, <1>5, <1>8, <1>10 DEF Farewell
<1>14. Numbered(c, FALSE)
  <2>1. /\ Len(conn.queue) <= conn.sent
        /\ \A i \in 1..Len(conn.queue) : conn.queue[i] = Gone(conn) + i
    BY <1>3, <1>5 DEF Numbered
  <2>2. \A i \in 1..Len(q) : i + 1 \in 1..Len(conn.queue)
    BY <1>6
  <2>3. \A i \in 1..Len(q) : q[i] = Gone(conn) + 1 + i
    BY <1>6, <1>11, <2>1, <2>2
  <2>4. Len(q) <= conn.sent
    BY <1>6, <2>1
  <2>5. c.queue = q /\ c.sent = conn.sent
    BY <1>8
  <2>6. QED
    BY <1>11, <2>3, <2>4, <2>5 DEF Numbered
(* How the connection goes on. *)
<1> DEFINE Ends(d, f) ==
      /\ Good(d, f, n, n) /\ d.read = conn.read
      /\ d.readEnd = "ok" <=> conn.readEnd = "ok"
      /\ conn.closed => d.closed
<1>15. ASSUME NEW f, f = failed', Ends(conn', f), f \in BOOLEAN,
              written' \in Seq(1..MaxMessages), Len(written') <= conn'.sent,
              ~f => Len(written') = Gone(conn'),
              \A i \in 1..Len(written') : written'[i] = i
       PROVE  IInv'
  <2> DEFINE m == reads' + One(Unanswered(conn'))
  <2>1. One(Unanswered(conn')) = One(Unanswered(conn))
    BY <1>15 DEF Unanswered, One
  <2>2. m = n
    BY <1>1, <2>1
  <2> HIDE DEF m, n
  <2>3. /\ conn' \in Record /\ Numbered(conn', f) /\ Driven(conn', f)
        /\ Farewell(conn', f) /\ ReleasedOnce(conn') /\ Within(conn', m, m)
        /\ (f => conn'.closed)
    BY <1>15, <2>2 DEF Good, Almost
  <2>4. Opening(conn') /\ (~conn'.closed => conn'.read # "none")
    BY <1>3, <1>4, <1>15 DEF Opening
  <2>5. m = reads' + One(Unanswered(conn'))
    BY DEF m
  <2>6. reads' \in 0..MaxReads /\ phase' = phase /\ (Serving' => Serving)
    BY <1>1, <1>2 DEF Serving
  <2>7. QED
    BY <1>2, <1>15, <2>3, <2>4, <2>5, <2>6, CarriedOver
<1>16. CASE conn.writeEnd = "error"
  <2>1. conn' = Close(b, TRUE) /\ failed' = TRUE /\ written' = written
    BY <1>1, <1>16
  <2>2. Numbered(b, TRUE) /\ Driven(b, TRUE)
    BY <1>10 DEF Numbered, Driven
  <2>3. Good(conn', TRUE, n, n)
    BY <1>2, <1>9, <1>11, <1>12, <1>13, <2>1, <2>2, CloseKeeps DEF Almost
  <2>4. Shut(b, conn') /\ conn'.closed
    BY <1>9, <2>1, CloseFacts
  <2>5. /\ conn'.read = conn.read /\ conn'.sent = conn.sent
        /\ conn'.readEnd = "ok" <=> conn.readEnd = "ok"
    BY <1>10, <2>4 DEF Shut, Identity, Sending
  <2>6. QED
    BY <1>2, <1>15, <2>1, <2>3, <2>4, <2>5
<1>17. CASE conn.writeEnd # "error"
  <2> DEFINE w == Append(written, Head(conn.queue))
  <2>1. PICK armed \in Armings :
          /\ conn' = IF c.queue # <<>> THEN StartWrite(c, armed)
                     ELSE IF c.closed THEN CloseSocket(c) ELSE c
          /\ written' = w /\ failed' = (failed \/ Threw(conn'))
    BY <1>1, <1>17
  <2>2. armed \in BOOLEAN
    BY ConnectionAssumption
  <2>3. Head(conn.queue) = Len(written) + 1 /\ Len(written) = Gone(conn)
    <3>1. conn.queue[1] = Gone(conn) + 1
      BY <1>3, <1>5, <1>6 DEF Numbered
    <3>2. QED
      BY <1>2, <1>5, <1>6, <3>1
  <2>4. /\ w \in Seq(1..MaxMessages) /\ Len(w) = Gone(c)
        /\ \A i \in 1..Len(w) : w[i] = i
    <3>1. /\ w \in Seq(1..MaxMessages) /\ Len(w) = Len(written) + 1
          /\ \A i \in 1..Len(written) : w[i] = written[i]
          /\ w[Len(written) + 1] = Head(conn.queue)
      BY <1>2, <1>6, SeqFacts
    <3>2. \A i \in 1..Len(w) : i \in 1..Len(written) \/ i = Len(written) + 1
      BY <1>2, <3>1
    <3>3. QED
      BY <1>2, <1>11, <2>3, <3>1, <3>2
  <2> HIDE DEF w
  <2>5. Gone(c) <= conn.sent
    BY <1>6, <1>8 DEF Gone
  <2>6. CASE c.queue # <<>>
    <3>1. /\ Good(conn', ~armed, n, n) /\ conn'.queue = c.queue
          /\ (conn'.write <=> armed) /\ Identity(conn') = Identity(c)
          /\ conn'.sent = c.sent /\ (conn'.readEnd = "ok" <=> c.readEnd = "ok")
          /\ c.closed => conn'.closed
      <4>1. conn' = StartWrite(c, armed) /\ c \in Record /\ ~c.write /\ n \in Nat
        BY <1>2, <1>8, <2>1, <2>6
      <4> HIDE DEF n
      <4>2. QED
        BY <1>11, <1>12, <1>13, <1>14, <2>2, <2>6, <4>1, StartWriteKeeps
    <3>2. failed' = ~armed
      <4>1. Threw(conn') <=> ~armed
        BY <2>1, <2>2, <2>6, <3>1 DEF Threw
      <4>2. QED
        BY <1>5, <2>1, <2>2, <4>1
    <3>3. Gone(conn') = Gone(c) /\ conn'.read = conn.read
      BY <1>8, <3>1 DEF Gone, Identity
    <3> DEFINE f == ~armed
    <3>4. f \in BOOLEAN /\ f = failed' /\ Good(conn', f, n, n)
      BY <3>1, <3>2
    <3> HIDE DEF f
    <3>5. QED
      BY <1>8, <1>15, <2>1, <2>4, <2>5, <3>1, <3>3, <3>4
  <2>7. CASE c.queue = <<>>
    <3>1. Good(c, FALSE, n, n)
      BY <1>8, <1>11, <1>12, <1>13, <1>14, <2>7 DEF Good, Almost, Driven
    <3>2. CASE ~c.closed
      <4>1. conn' = c
        BY <2>1, <2>7, <3>2
      <4>2. failed' = FALSE
        <5>1. ~Threw(conn')
          BY <2>7, <4>1 DEF Threw
        <5>2. QED
          BY <1>5, <2>1, <5>1
      <4>3. QED
        BY <1>8, <1>15, <2>1, <2>4, <2>5, <3>1, <4>1, <4>2
    <3>3. CASE c.closed
      <4>1. conn' = CloseSocket(c)
        BY <2>1, <2>7, <3>3
      <4>2. /\ Shut(c, conn') /\ conn'.closed = c.closed
            /\ conn'.graceful = c.graceful /\ conn'.tasks = c.tasks
        BY <1>8, <4>1, CloseSocketFacts
      <4>3. /\ conn' \in Record /\ conn'.queue = c.queue /\ conn'.sent = c.sent
            /\ conn'.write = c.write /\ conn'.read = c.read
            /\ conn'.protocol = c.protocol /\ conn'.released = c.released
            /\ conn'.late = c.late /\ (conn'.readEnd = "ok" <=> c.readEnd = "ok")
        BY <4>2 DEF Shut, Identity, Sending
      <4>4. failed' = FALSE
        <5>1. ~Threw(conn')
          BY <2>7, <4>3 DEF Threw
        <5>2. QED
          BY <1>5, <2>1, <5>1
      <4>5. /\ Numbered(conn', FALSE) /\ Driven(conn', FALSE)
            /\ Farewell(conn', FALSE) /\ ReleasedOnce(conn')
        BY <1>12, <1>13, <1>14, <1>8, <2>7, <3>3, <4>2, <4>3
        DEF Numbered, Gone, Driven, Farewell, ReleasedOnce, Posted
      <4>6. Within(conn', n, n)
        <5>1. /\ One(conn'.write) = One(c.write)
              /\ One(conn'.readTimer) \in Nat /\ One(conn'.writeTimer) \in Nat
              /\ One(c.readTimer) \in Nat /\ One(c.writeTimer) \in Nat
              /\ One(conn'.readTimer) <= One(c.readTimer)
              /\ One(conn'.writeTimer) <= One(c.writeTimer)
              /\ One(conn'.closed /\ conn'.protocol) = One(c.closed /\ c.protocol)
          BY <4>2, <4>3 DEF One, Shut
        <5>2. /\ Writes(conn') = Writes(c) /\ Writes(c) \in Int /\ c.late \in Nat
              /\ conn'.late = c.late /\ conn'.tasks = c.tasks
          BY <1>8, <4>2, <4>3, <5>1, Numbers DEF Writes, Gone
        <5>3. /\ c.late + One(c.readTimer) + One(c.writeTimer) <= n + Writes(c)
              /\ Len(c.tasks) <= n + One(c.closed /\ c.protocol)
          BY <1>11 DEF Within
        <5> HIDE DEF n
        <5>4. conn'.late + One(conn'.readTimer) + One(conn'.writeTimer)
                <= n + Writes(conn')
          BY <1>2, <5>1, <5>2, <5>3
        <5>5. QED
          BY <5>1, <5>2, <5>3, <5>4 DEF Within
      <4>7. Good(conn', FALSE, n, n)
        BY <4>3, <4>5, <4>6 DEF Good, Almost
      <4>8. Gone(conn') = Gone(c)
        BY <4>3 DEF Gone
      <4>9. QED
        BY <1>8, <1>15, <2>1, <2>4, <2>5, <4>2, <4>3, <4>4, <4>7, <4>8
    <3>4. QED
      BY <3>2, <3>3
  <2>8. QED
    BY <2>6, <2>7
<1>18. QED
  BY <1>16, <1>17

(* A task of the protocol. *)
LEMMA RunningTask == ASSUME IInv, RunTask PROVE IInv'
<1> DEFINE n == reads + One(Unanswered(conn))
           c == [conn EXCEPT !.tasks = Tail(@)]
<1>1. /\ conn.tasks # <<>> /\ failed' = (failed \/ Threw(conn'))
      /\ UNCHANGED <<reads, written, phase>>
      /\ \/ /\ Head(conn.tasks) \in {"connect", "work"}
            /\ conn' \in IF Alive(c) THEN Reactions(c) ELSE {c}
         \/ /\ Head(conn.tasks) = "release"
            /\ conn' = [c EXCEPT !.released = TRUE]
         \/ /\ Head(conn.tasks) = "lost"
            /\ conn' = c
  BY DEF RunTask
<1>2. /\ reads \in Nat /\ n \in Nat /\ failed \in BOOLEAN
      /\ Sound(conn, failed, reads)
  BY DEF IInv, One
<1>3. /\ conn \in Record /\ Numbered(conn, failed) /\ Driven(conn, failed)
      /\ Farewell(conn, failed) /\ ReleasedOnce(conn) /\ Within(conn, n, n)
      /\ (failed => conn.closed)
  BY <1>2 DEF Sound, Good, Almost
<1>4. conn.read # "accept"
  BY <1>1, <1>2 DEF Sound, Opening
<1> DEFINE s == Tail(conn.tasks)
<1>5. /\ s \in Seq(Tasks) /\ Len(s) = Len(conn.tasks) - 1 /\ Len(s) \in Nat
      /\ \A i \in 1..Len(s) : s[i] = conn.tasks[i + 1]
      /\ Head(conn.tasks) = conn.tasks[1] /\ Len(conn.tasks) \in Nat
      /\ s = <<>> <=> Len(s) = 0
  <2>1. conn.tasks \in Seq(Tasks)
    BY <1>3 DEF Record
  <2>2. /\ s \in Seq(Tasks) /\ Len(s) = Len(conn.tasks) - 1
        /\ \A i \in 1..Len(s) : s[i] = conn.tasks[i + 1]
        /\ Head(conn.tasks) = conn.tasks[1]
    BY <1>1, <2>1, SeqFacts
  <2>3. Len(s) \in Nat /\ (s = <<>> <=> Len(s) = 0) /\ Len(conn.tasks) \in Nat
    BY <2>1, <2>2, SeqFacts
  <2>4. QED
    BY <2>2, <2>3
<1>6. c = [conn EXCEPT !.tasks = s]
  OBVIOUS
<1> HIDE DEF s, c
<1>7. /\ c \in Record /\ c.tasks = s /\ Sending(c) = Sending(conn)
      /\ c.closed = conn.closed /\ c.open = conn.open
      /\ c.graceful = conn.graceful /\ c.protocol = conn.protocol
      /\ c.released = conn.released /\ c.read = conn.read
      /\ c.readEnd = conn.readEnd /\ c.late = conn.late
      /\ c.readTimer = conn.readTimer /\ c.writeTimer = conn.writeTimer
  BY <1>3, <1>5, <1>6 DEF Record, Sending
<1>8. c.queue = conn.queue /\ c.sent = conn.sent /\ c.write = conn.write
  BY <1>7 DEF Sending
<1>9. /\ Numbered(c, failed) /\ Driven(c, failed) /\ Farewell(c, failed)
      /\ Within(c, n, n)
  <2>1. Numbered(c, failed) /\ Driven(c, failed) /\ Farewell(c, failed)
    BY <1>3, <1>7, <1>8 DEF Numbered, Gone, Driven, Farewell
  <2>2. /\ One(c.write) = One(conn.write)
        /\ One(c.readTimer) = One(conn.readTimer)
        /\ One(c.writeTimer) = One(conn.writeTimer)
        /\ One(c.closed /\ c.protocol) = One(conn.closed /\ conn.protocol)
        /\ One(c.closed /\ c.protocol) \in Nat
    BY <1>7, <1>8 DEF One
  <2>3. Writes(c) = Writes(conn)
    BY <1>8, <2>2 DEF Writes, Gone
  <2>4. /\ conn.late + One(conn.readTimer) + One(conn.writeTimer) <= n + Writes(conn)
        /\ Len(conn.tasks) <= n + One(conn.closed /\ conn.protocol)
    BY <1>3 DEF Within
  <2>5. Len(s) <= Len(conn.tasks)
    BY <1>5
  <2>6. c.late = conn.late /\ c.tasks = s
    BY <1>7
  <2>7. Len(c.tasks) <= n + One(c.closed /\ c.protocol)
    BY <1>2, <1>5, <2>2, <2>4, <2>5, <2>6
  <2>8. QED
    BY <2>1, <2>2, <2>3, <2>4, <2>6, <2>7 DEF Within
(* What is left of the tasks. *)
<1>10. /\ \A i \in 1..Len(s) : i + 1 \in 1..Len(conn.tasks)
       /\ s # <<>> => s[Len(s)] = conn.tasks[Len(conn.tasks)]
  BY <1>5
<1>11. ASSUME Head(conn.tasks) # "release" PROVE ReleasedOnce(c)
  <2>1. Posted(c) => Posted(conn)
    BY <1>5, <1>7, <1>10 DEF Posted
  <2>2. phase = "running" =>
          \A i \in 1..Len(s) : s[i] = "release" => i = Len(s)
    BY <1>3, <1>5, <1>10 DEF ReleasedOnce
  <2>3. ASSUME phase = "running", conn.closed, conn.protocol, ~conn.released
        PROVE  s # <<>> /\ s[Len(s)] = "release"
    <3>1. conn.tasks[Len(conn.tasks)] = "release"
      BY <1>3, <2>3 DEF ReleasedOnce
    <3>2. Len(conn.tasks) # 1
      BY <1>5, <1>11, <3>1
    <3>3. QED
      BY <1>1, <1>5, <1>10, <3>1, <3>2
  <2>4. phase = "running" => ~conn.released
    BY <1>1, <1>3 DEF ReleasedOnce
  <2>5. QED
    BY <1>3, <1>7, <2>1, <2>2, <2>3, <2>4 DEF ReleasedOnce
<1>12. ASSUME NEW d, Onward(c, d), Good(d, failed', n, n), d = conn'
       PROVE  IInv'
  <2>1. Onward(c, d) /\ d.read = conn.read /\ (Unanswered(d) <=> Unanswered(conn))
        /\ (conn.closed => d.closed)
    BY <1>7, <1>12 DEF Onward, Identity, Unanswered
  <2>2. One(Unanswered(d)) = One(Unanswered(conn))
    BY <2>1 DEF One
  <2>3. Sound(d, failed', reads)
    BY <1>2, <1>4, <1>12, <2>1, <2>2 DEF Sound, Opening
  <2>4. conn.sent <= d.sent /\ Gone(d) = Gone(conn)
    BY <1>8, <1>12 DEF Onward, Gone
  <2>5. QED
    BY <1>1, <1>2, <1>12, <2>3, <2>4, Carried DEF IInv, Serving
<1>13. ASSUME Head(conn.tasks) # "release" PROVE Good(c, failed, n, n)
  BY <1>3, <1>7, <1>9, <1>11, <1>13 DEF Good, Almost
<1>14. CASE Head(conn.tasks) \in {"connect", "work"} /\ Alive(c)
  <2>1. Good(c, failed, n, n) /\ c.sent = conn.sent /\ conn' \in Reactions(c)
    BY <1>1, <1>8, <1>13, <1>14
  <2>2. Good(conn', failed \/ Threw(conn'), n, n) /\ Onward(c, conn')
    BY <1>2, <2>1, ReactionsKeep
  <2>3. QED
    BY <1>1, <1>12, <2>2
<1>15. CASE conn' = c /\ Head(conn.tasks) # "release"
  <2>1. Good(c, failed, n, n)
    BY <1>13, <1>15
  <2>2. failed' = failed
    BY <1>1, <1>2, <1>15, <2>1, ThrewIsFailed
  <2>3. Onward(c, c)
    BY <1>7, Numbers DEF Onward
  <2>4. QED
    BY <1>12, <1>15, <2>1, <2>2, <2>3
<1>16. CASE Head(conn.tasks) = "release"
  <2> DEFINE d == [c EXCEPT !.released = TRUE]
  <2>1. conn' = d
    BY <1>1, <1>16
  <2>2. /\ d \in Record /\ d.tasks = s /\ Sending(d) = Sending(c)
        /\ d.closed = c.closed /\ d.open = c.open
        /\ d.graceful = c.graceful /\ d.protocol = c.protocol
        /\ d.released /\ d.read = c.read
        /\ d.readEnd = c.readEnd /\ d.late = c.late
        /\ d.readTimer = c.readTimer /\ d.writeTimer = c.writeTimer
    BY <1>7 DEF Record, Sending
  <2> HIDE DEF d
  <2>3. d.queue = c.queue /\ d.sent = c.sent /\ d.write = c.write
    BY <2>2 DEF Sending
  <2>4. /\ Numbered(d, failed) /\ Driven(d, failed) /\ Farewell(d, failed)
        /\ Within(d, n, n)
    <3>1. Numbered(d, failed) /\ Driven(d, failed) /\ Farewell(d, failed)
      BY <1>9, <2>2, <2>3 DEF Numbered, Gone, Driven, Farewell
    <3>2. /\ One(d.write) = One(c.write)
          /\ One(d.readTimer) = One(c.readTimer)
          /\ One(d.writeTimer) = One(c.writeTimer)
          /\ One(d.closed /\ d.protocol) = One(c.closed /\ c.protocol)
      BY <2>2, <2>3 DEF One
    <3>3. Writes(d) = Writes(c) /\ d.late = c.late /\ d.tasks = c.tasks
      BY <1>7, <2>2, <2>3, <3>2 DEF Writes, Gone
    <3>4. QED
      BY <1>9, <3>1, <3>2, <3>3 DEF Within
  <2>5. ReleasedOnce(d)
    <3>1. Posted(conn) /\ conn.closed /\ conn.protocol
      <4>1. 1 \in 1..Len(conn.tasks) /\ conn.tasks[1] = "release"
        BY <1>5, <1>16
      <4>2. QED
        BY <1>3, <4>1 DEF ReleasedOnce, Posted
    <3>2. phase = "running" => s = <<>>
      BY <1>3, <1>5, <1>16 DEF ReleasedOnce
    <3>3. QED
      BY <1>7, <2>2, <3>1, <3>2, SeqFacts DEF ReleasedOnce
  <2>6. Good(d, failed, n, n)
    BY <1>3, <1>7, <2>2, <2>4, <2>5 DEF Good, Almost
  <2>7. failed' = failed
    BY <1>1, <1>2, <2>1, <2>6, ThrewIsFailed
  <2>8. Sound(conn', failed', reads)
    <3>1. One(Unanswered(d)) = One(Unanswered(conn))
      BY <1>7, <2>2 DEF Unanswered, One
    <3>2. QED
      BY <1>2, <1>4, <1>7, <2>1, <2>2, <2>6, <2>7, <3>1 DEF Sound, Opening
  <2>9. conn.sent <= conn'.sent /\ Gone(conn') = Gone(conn)
    BY <1>3, <1>8, <2>1, <2>3, Numbers DEF Gone
  <2>10. QED
    BY <1>1, <1>2, <2>7, <2>8, <2>9, Carried DEF IInv, Serving
<1>17. QED
  <2>1. "release" # "lost" /\ "release" # "connect" /\ "release" # "work"
    OBVIOUS
  <2>2. QED
    BY <1>1, <1>14, <1>15, <1>16, <2>1

-----------------------------------------------------------------------------
(* The kernel, the timers and the end of a handler: none of them touches    *)
(* what was queued.                                                         *)
LEMMA Passing ==
  ASSUME IInv, NEW d \in Record, d = conn', Sending(d) = Sending(conn),
         d.closed = conn.closed, d.open = conn.open, d.graceful = conn.graceful,
         d.protocol = conn.protocol, d.released = conn.released,
         d.tasks = conn.tasks, d.read = conn.read,
         conn.read = "accept" => d.readEnd = conn.readEnd /\ d.late = conn.late
                                /\ d.readTimer = conn.readTimer
                                /\ d.writeTimer = conn.writeTimer,
         d.late + One(d.readTimer) + One(d.writeTimer)
           <= conn.late + One(conn.readTimer) + One(conn.writeTimer),
         reads' \in 0..MaxReads,
         reads' + One(Unanswered(d)) = reads + One(Unanswered(conn)),
         UNCHANGED <<written, failed, phase>>
  PROVE  IInv'
<1> DEFINE n == reads + One(Unanswered(conn))
<1>1. /\ n \in Nat /\ Sound(conn, failed, reads) /\ Good(conn, failed, n, n)
      /\ conn \in Record
  BY DEF IInv, One, Sound, Good, Almost
<1>2. Good(d, failed, n, n)
  BY <1>1, Little
<1>3. Sound(conn', failed', reads')
  <2>1. d.write = conn.write
    BY DEF Sending
  <2>2. Opening(d)
    BY <1>1, <2>1 DEF Sound, Opening
  <2>3. QED
    BY <1>1, <1>2, <2>2 DEF Sound
<1>4. conn.sent <= conn'.sent /\ Gone(conn') = Gone(conn)
  BY <1>1, Numbers DEF Sending, Gone
<1>5. QED
  BY <1>3, <1>4, Carried DEF IInv, Serving

LEMMA Elsewhere ==
  ASSUME IInv, HandlerReturns \/ ReadEnds \/ WriteEnds
               \/ ReadTimerExpires \/ WriteTimerExpires
  PROVE  IInv'
<1>1. conn \in Record /\ reads \in 0..MaxReads /\ Opening(conn)
  BY DEF IInv, Sound, Good, Almost
<1>2. conn.late \in Nat /\ One(conn.readTimer) \in Nat /\ One(conn.writeTimer) \in Nat
      /\ One(Unanswered(conn)) \in Nat /\ One(TRUE) = 1 /\ One(FALSE) = 0
  BY <1>1, Numbers DEF One
<1>3. CASE HandlerReturns
  <2> DEFINE d == [conn EXCEPT !.held = FALSE]
  <2>1. conn' = d /\ UNCHANGED <<reads, written, failed, phase>>
    BY <1>3 DEF HandlerReturns
  <2>2. /\ d \in Record /\ Sending(d) = Sending(conn) /\ d.closed = conn.closed
        /\ d.open = conn.open /\ d.graceful = conn.graceful
        /\ d.protocol = conn.protocol /\ d.released = conn.released
        /\ d.tasks = conn.tasks /\ d.read = conn.read
        /\ d.readEnd = conn.readEnd /\ d.late = conn.late
        /\ d.readTimer = conn.readTimer /\ d.writeTimer = conn.writeTimer
    BY <1>1 DEF Record, Sending
  <2> HIDE DEF d
  <2>3. One(Unanswered(d)) = One(Unanswered(conn))
    BY <2>2 DEF Unanswered
  <2>4. d.late + One(d.readTimer) + One(d.writeTimer)
          <= conn.late + One(conn.readTimer) + One(conn.writeTimer)
    BY <1>2, <2>2
  <2>5. QED
    BY <1>1, <2>1, <2>2, <2>3, <2>4, Passing
<1>4. CASE ReadEnds
  <2>1. /\ conn.read \in {"header", "packet"} /\ conn.readEnd = "pending"
        /\ UNCHANGED <<written, failed, phase>>
    BY <1>4 DEF ReadEnds
  <2>2. PICK end \in {"ok", "error"} :
          /\ conn' = [conn EXCEPT !.readEnd = end]
          /\ reads' \in 0..MaxReads
          /\ reads' = IF end = "ok" THEN reads + 1 ELSE reads
    <3>1. CASE reads < MaxReads /\ reads' = reads + 1
               /\ conn' = [conn EXCEPT !.readEnd = "ok"]
      BY <1>1, <3>1, ConnectionAssumption
    <3>2. CASE conn' = [conn EXCEPT !.readEnd = "error"] /\ reads' = reads
      <4>1. "error" # "ok"
        OBVIOUS
      <4>2. QED
        BY <1>1, <3>2, <4>1
    <3>3. QED
      BY <1>4, <3>1, <3>2 DEF ReadEnds
  <2> DEFINE d == [conn EXCEPT !.readEnd = end]
  <2>3. /\ d \in Record /\ Sending(d) = Sending(conn) /\ d.closed = conn.closed
        /\ d.open = conn.open /\ d.graceful = conn.graceful
        /\ d.protocol = conn.protocol /\ d.released = conn.released
        /\ d.tasks = conn.tasks /\ d.read = conn.read
        /\ d.readEnd = end /\ d.late = conn.late
        /\ d.readTimer = conn.readTimer /\ d.writeTimer = conn.writeTimer
    BY <1>1 DEF Record, Sending
  <2> HIDE DEF d
  <2>4. reads' + One(Unanswered(d)) = reads + One(Unanswered(conn))
    <3>1. One(Unanswered(conn)) = 1
      <4>1. "pending" # "ok"
        OBVIOUS
      <4>2. QED
        BY <2>1, <4>1 DEF Unanswered, One
    <3>2. CASE end = "ok"
      <4>1. d.read # "none" /\ d.readEnd = "ok"
        BY <2>1, <2>3, <3>2
      <4>2. One(Unanswered(d)) = 0
        BY <4>1 DEF Unanswered, One
      <4>3. QED
        BY <1>1, <2>2, <3>1, <3>2, <4>2
    <3>3. CASE end # "ok"
      <4>1. One(Unanswered(d)) = 1
        BY <2>3, <3>3 DEF Unanswered, One
      <4>2. QED
        BY <1>1, <2>2, <3>1, <3>3, <4>1
    <3>4. QED
      BY <3>2, <3>3
  <2>5. conn' = d /\ conn.read # "accept"
    BY <2>1, <2>2 DEF d
  <2>6. d.late + One(d.readTimer) + One(d.writeTimer)
          <= conn.late + One(conn.readTimer) + One(conn.writeTimer)
    BY <1>2, <2>3
  <2>7. QED
    BY <2>1, <2>2, <2>3, <2>4, <2>5, <2>6, Passing
<1>5. CASE WriteEnds
  <2>1. PICK end \in {"ok", "error"} : conn' = [conn EXCEPT !.writeEnd = end]
    BY <1>5 DEF WriteEnds
  <2> DEFINE d == [conn EXCEPT !.writeEnd = end]
  <2>2. conn' = d /\ UNCHANGED <<reads, written, failed, phase>>
    BY <1>5, <2>1 DEF WriteEnds
  <2>3. /\ d \in Record /\ Sending(d) = Sending(conn) /\ d.closed = conn.closed
        /\ d.open = conn.open /\ d.graceful = conn.graceful
        /\ d.protocol = conn.protocol /\ d.released = conn.released
        /\ d.tasks = conn.tasks /\ d.read = conn.read
        /\ d.readEnd = conn.readEnd /\ d.late = conn.late
        /\ d.readTimer = conn.readTimer /\ d.writeTimer = conn.writeTimer
    BY <1>1 DEF Record, Sending
  <2> HIDE DEF d
  <2>4. One(Unanswered(d)) = One(Unanswered(conn))
    BY <2>3 DEF Unanswered
  <2>5. d.late + One(d.readTimer) + One(d.writeTimer)
          <= conn.late + One(conn.readTimer) + One(conn.writeTimer)
    BY <1>2, <2>3
  <2>6. QED
    BY <1>1, <2>2, <2>3, <2>4, <2>5, Passing
<1>6. CASE ReadTimerExpires \/ WriteTimerExpires
  <2> DEFINE l == conn.late + 1
             d == IF ReadTimerExpires
                  THEN [conn EXCEPT !.readTimer = FALSE, !.late = l]
                  ELSE [conn EXCEPT !.writeTimer = FALSE, !.late = l]
  <2>1. l \in Nat /\ l = conn.late + 1
    BY <1>2
  <2>2. conn' = d /\ UNCHANGED <<reads, written, failed, phase>>
    BY <1>6 DEF ReadTimerExpires, WriteTimerExpires
  <2>3. conn.readTimer \/ conn.writeTimer
    BY <1>6 DEF ReadTimerExpires, WriteTimerExpires
  <2>4. conn.read # "accept"
    BY <1>1, <2>3 DEF Opening
  <2> HIDE DEF l
  <2>5. /\ d \in Record /\ Sending(d) = Sending(conn) /\ d.closed = conn.closed
        /\ d.open = conn.open /\ d.graceful = conn.graceful
        /\ d.protocol = conn.protocol /\ d.released = conn.released
        /\ d.tasks = conn.tasks /\ d.read = conn.read
        /\ d.readEnd = conn.readEnd /\ d.late = l
        /\ \/ /\ conn.readTimer /\ ~d.readTimer /\ d.writeTimer = conn.writeTimer
           \/ /\ conn.writeTimer /\ ~d.writeTimer /\ d.readTimer = conn.readTimer
    <3>1. CASE ReadTimerExpires
      BY <1>1, <2>1, <3>1 DEF Record, Sending, ReadTimerExpires
    <3>2. CASE ~ReadTimerExpires
      BY <1>1, <1>6, <2>1, <3>2 DEF Record, Sending, WriteTimerExpires
    <3>3. QED
      BY <3>1, <3>2
  <2> HIDE DEF d
  <2>6. One(Unanswered(d)) = One(Unanswered(conn))
    BY <2>5 DEF Unanswered
  <2>7. One(d.readTimer) + One(d.writeTimer) + 1
          = One(conn.readTimer) + One(conn.writeTimer)
    BY <1>1, <2>5 DEF One, Record
  <2>8. One(d.readTimer) \in Nat /\ One(d.writeTimer) \in Nat
    BY DEF One
  <2>9. d.late + One(d.readTimer) + One(d.writeTimer)
          <= conn.late + One(conn.readTimer) + One(conn.writeTimer)
    BY <1>2, <2>1, <2>5, <2>7, <2>8
  <2>10. QED
    BY <1>1, <2>2, <2>4, <2>5, <2>6, <2>9, Passing
<1>7. QED
  BY <1>3, <1>4, <1>5, <1>6

LEMMA Halting == ASSUME IInv, Stop \/ Die PROVE IInv'
<1>1. /\ UNCHANGED <<conn, reads, written, failed>>
      /\ phase' \in {"stopping", "dead"} /\ (phase' = "stopping" => phase = "running")
  <2>1. "stopping" # "dead"
    OBVIOUS
  <2>2. QED
    BY <2>1 DEF Stop, Die
<1>2. conn.sent <= conn'.sent /\ Gone(conn') = Gone(conn)
  BY <1>1, Numbers DEF IInv, Sound, Good, Almost
<1>3. Serving' => Serving
  BY <1>1 DEF Serving
<1>4. phase' # "running"
  BY <1>1
<1>5. Sound(conn', failed', reads') /\ failed' = failed /\ failed \in BOOLEAN
      /\ reads' \in 0..MaxReads
  BY <1>1 DEF IInv
<1>6. QED
  BY <1>1, <1>2, <1>3, <1>4, <1>5, Carried

(* What a closed socket leaves as it was. *)
LEMMA ShutKeeps ==
  ASSUME NEW c, NEW f, NEW n \in Int, Good(c, f, n, n),
         NEW d \in Record, Sending(d) = Sending(c), Identity(d) = Identity(c),
         d.closed = c.closed, d.graceful = c.graceful, d.tasks = c.tasks,
         d.readTimer => c.readTimer, d.writeTimer => c.writeTimer
  PROVE  /\ Numbered(d, f) /\ Driven(d, f) /\ ReleasedOnce(d) /\ Within(d, n, n)
         /\ f => d.closed
         /\ d.graceful => d.closed
<1>1. /\ c \in Record /\ Numbered(c, f) /\ Driven(c, f) /\ Farewell(c, f)
      /\ ReleasedOnce(c) /\ Within(c, n, n) /\ (f => c.closed)
  BY DEF Good, Almost
<1>2. /\ d.queue = c.queue /\ d.sent = c.sent /\ d.write = c.write
      /\ d.protocol = c.protocol /\ d.released = c.released /\ d.late = c.late
  BY DEF Sending, Identity
<1>3. /\ One(d.write) = One(c.write)
      /\ One(d.readTimer) \in Nat /\ One(d.writeTimer) \in Nat
      /\ One(c.readTimer) \in Nat /\ One(c.writeTimer) \in Nat
      /\ One(d.readTimer) <= One(c.readTimer)
      /\ One(d.writeTimer) <= One(c.writeTimer)
      /\ One(d.closed /\ d.protocol) = One(c.closed /\ c.protocol)
  BY <1>2 DEF One
<1>4. Writes(d) = Writes(c) /\ Writes(c) \in Int /\ c.late \in Nat
  BY <1>1, <1>2, <1>3, Numbers DEF Writes, Gone
<1>5. /\ c.late + One(c.readTimer) + One(c.writeTimer) <= n + Writes(c)
      /\ Len(c.tasks) <= n + One(c.closed /\ c.protocol)
  BY <1>1 DEF Within
<1>6. d.late + One(d.readTimer) + One(d.writeTimer) <= n + Writes(d)
  BY <1>2, <1>3, <1>4, <1>5
<1>7. Within(d, n, n)
  BY <1>3, <1>5, <1>6 DEF Within
<1>8. QED
  BY <1>1, <1>2, <1>7
  DEF Numbered, Gone, Driven, Farewell, ReleasedOnce, Posted

LEMMA Sockets == ASSUME IInv, Destroy \/ CloseAll PROVE IInv'
<1> DEFINE n == reads + One(Unanswered(conn))
           e == CloseSocket(conn)
<1>1. /\ n \in Nat /\ reads \in 0..MaxReads /\ failed \in BOOLEAN
      /\ Good(conn, failed, n, n) /\ conn \in Record /\ Opening(conn)
      /\ ~conn.closed => conn.read # "none"
      /\ UNCHANGED <<reads, written, failed>>
  BY DEF IInv, One, Sound, Good, Almost, Destroy, CloseAll
<1>2. /\ Shut(conn, e) /\ e.closed = conn.closed /\ e.graceful = conn.graceful
      /\ e.tasks = conn.tasks
  BY <1>1, CloseSocketFacts
<1> HIDE DEF e
<1>3. /\ conn' \in Record /\ Sending(conn') = Sending(conn)
      /\ Identity(conn') = Identity(conn)
      /\ conn'.closed = conn.closed /\ conn'.graceful = conn.graceful
      /\ conn'.tasks = conn.tasks /\ (conn'.readEnd = "ok" <=> conn.readEnd = "ok")
      /\ conn'.readTimer => conn.readTimer
      /\ conn'.writeTimer => conn.writeTimer
  <2>1. CASE Destroy
    BY <1>2, <2>1 DEF Destroy, Shut, e
  <2>2. CASE CloseAll /\ conn.registered
    <3> DEFINE g == [e EXCEPT !.registered = FALSE, !.readTimer = conn.readTimer,
                              !.writeTimer = conn.writeTimer]
    <3>1. conn' = g
      BY <2>2 DEF CloseAll, e
    <3>2. e \in Record /\ conn.readTimer \in BOOLEAN /\ conn.writeTimer \in BOOLEAN
      BY <1>1, <1>2 DEF Shut, Record
    <3>3. /\ g \in Record /\ Sending(g) = Sending(e) /\ Identity(g) = Identity(e)
          /\ g.closed = e.closed /\ g.graceful = e.graceful /\ g.tasks = e.tasks
          /\ g.readEnd = e.readEnd /\ g.readTimer = conn.readTimer
          /\ g.writeTimer = conn.writeTimer
      BY <3>2 DEF Record, Sending, Identity
    <3> HIDE DEF g
    <3>4. QED
      BY <1>2, <3>1, <3>3 DEF Shut
  <2>3. CASE CloseAll /\ ~conn.registered
    BY <1>1, <2>3 DEF CloseAll
  <2>4. QED
    BY <2>1, <2>2, <2>3
<1>4. /\ Numbered(conn', failed) /\ Driven(conn', failed)
      /\ ReleasedOnce(conn') /\ Within(conn', n, n)
      /\ failed => conn'.closed
      /\ conn'.graceful => conn'.closed
  <2> HIDE DEF n
  <2>1. QED
    BY <1>1, <1>3, ShutKeeps
<1>5. /\ conn'.read = conn.read /\ conn'.protocol = conn.protocol
      /\ conn'.late = conn.late /\ conn'.write = conn.write
      /\ conn'.queue = conn.queue /\ conn'.sent = conn.sent
  BY <1>3 DEF Identity, Sending
<1>6. Opening(conn') /\ (~conn'.closed => conn'.read # "none")
  BY <1>1, <1>3, <1>5 DEF Opening
<1>7. /\ phase' \in {"running", "stopping", "down", "dead"}
      /\ Serving' => Serving
      /\ phase' = "running" => phase = "running"
      /\ Farewell(conn', failed) \/ ~Serving'
  <2>1. CASE CloseAll
    <3>1. phase' = "down" /\ "down" \notin {"running", "stopping"}
      BY <2>1 DEF CloseAll
    <3>2. QED
      BY <3>1 DEF Serving
  <2>2. CASE Destroy
    <3>1. conn.read = "none" /\ ~conn.write /\ phase' = phase
      BY <2>2 DEF Destroy, Alive
    <3>2. conn.closed /\ (conn.queue # <<>> => failed)
      BY <1>1, <3>1 DEF Good, Almost, Driven
    <3>3. Farewell(conn', failed)
      BY <1>3, <1>5, <3>2 DEF Farewell
    <3>4. QED
      BY <3>1, <3>3 DEF IInv, Serving
  <2>3. QED
    BY <2>1, <2>2
<1>8. One(Unanswered(conn')) = One(Unanswered(conn))
  BY <1>3, <1>5 DEF Unanswered, One
<1>9. /\ Len(written') <= conn'.sent /\ (~failed' => Len(written') = Gone(conn'))
      /\ \A i \in 1..Len(written') : written'[i] = i
      /\ written' \in Seq(1..MaxMessages)
  BY <1>1, <1>5 DEF IInv, Gone
<1> DEFINE m == reads' + One(Unanswered(conn'))
<1>10. m = n
  BY <1>1, <1>8
<1> HIDE DEF n, m
<1>11. m = reads' + One(Unanswered(conn')) /\ failed' = failed
       /\ reads' \in 0..MaxReads
  BY <1>1 DEF m
<1>12. QED
  BY <1>1, <1>3, <1>4, <1>6, <1>7, <1>9, <1>10, <1>11, CarriedOver

LEMMA Initially == Init => IInv
<1> SUFFICES ASSUME Init PROVE IInv
  OBVIOUS
<1> USE ConnectionAssumption DEF Init
<1>1. conn \in Record
  <2>1. <<>> \in Seq(1..MaxMessages) /\ <<>> \in Seq(Tasks) /\ 0 \in 0..MaxMessages
    BY EmptySeq
  <2>2. QED
    BY <2>1 DEF Record
<1>2. Len(conn.queue) = 0 /\ Len(conn.tasks) = 0 /\ Len(written) = 0
  BY EmptySeq
<1>3. Unanswered(conn) = FALSE /\ One(FALSE) = 0
  BY DEF Unanswered, One
<1>4. Within(conn, 0, 0) /\ Gone(conn) = 0
  <2>1. /\ ~conn.write /\ ~conn.readTimer /\ ~conn.writeTimer /\ ~conn.closed
        /\ conn.late = 0 /\ conn.sent = 0
    OBVIOUS
  <2>2. Gone(conn) = 0
    BY <1>2, <2>1 DEF Gone
  <2>3. /\ One(conn.write) = 0 /\ One(conn.readTimer) = 0
        /\ One(conn.writeTimer) = 0 /\ One(conn.closed /\ conn.protocol) = 0
    BY <2>1 DEF One
  <2>a. conn.late = 0
    BY <2>1
  <2>4. Writes(conn) = 0
    <3>1. Gone(conn) + One(conn.write) = 0
      <4> HIDE DEF Init
      <4>1. QED
        BY <2>2, <2>3
    <3>2. QED
      BY <3>1 DEF Writes
  <2>5. /\ conn.late + One(conn.readTimer) + One(conn.writeTimer) <= 0 + Writes(conn)
        /\ Len(conn.tasks) <= 0 + One(conn.closed /\ conn.protocol)
    <3> HIDE DEF Init
    <3>1. QED
      BY <1>2, <2>3, <2>a, <2>4
  <2>6. QED
    BY <2>2, <2>5 DEF Within
<1>5. /\ Numbered(conn, failed) /\ Driven(conn, failed) /\ Farewell(conn, failed)
      /\ ReleasedOnce(conn)
  BY <1>2 DEF Numbered, Driven, Farewell, ReleasedOnce, Posted
<1>6. Sound(conn, failed, reads)
  <2>1. reads + One(Unanswered(conn)) = 0
    <3>1. One(Unanswered(conn)) = 0
      BY <1>3 DEF One
    <3>2. reads = 0
      OBVIOUS
    <3> HIDE DEF Init
    <3>3. QED
      BY <3>1, <3>2
  <2>2. Good(conn, failed, 0, 0)
    BY <1>1, <1>4, <1>5 DEF Good, Almost
  <2>3. QED
    BY <2>1, <2>2 DEF Sound, Opening
<1>7. Len(written) <= conn.sent /\ (~failed => Len(written) = Gone(conn))
      /\ \A i \in 1..Len(written) : written[i] = i
  BY <1>2, <1>4
<1>8. written \in Seq(1..MaxMessages) /\ reads \in 0..MaxReads
  BY EmptySeq
<1>9. QED
  BY <1>6, <1>7, <1>8 DEF IInv

LEMMA Inductive == IInv /\ [Next]_vars => IInv'
<1> SUFFICES ASSUME IInv, [Next]_vars PROVE IInv'
  OBVIOUS
<1>1. CASE UNCHANGED vars
  BY <1>1 DEF vars, IInv, Sound, Good, Almost, Record, Tasks, Numbered, Gone, Driven,
              Farewell, Serving, ReleasedOnce, Posted, Within, Writes, One,
              Unanswered, Opening
<1>2. CASE OnAccept \/ ParseHeader \/ ParsePacket
  BY <1>2, Accepting, ParsingHeader, ParsingPacket
<1>3. CASE OnWriteOperation \/ HandleTimeout
  BY <1>3, Writing, TimingOut
<1>4. CASE HandlerReturns \/ ReadEnds \/ WriteEnds
           \/ ReadTimerExpires \/ WriteTimerExpires
  BY <1>4, Elsewhere
<1>5. CASE RunTask \/ Play
  BY <1>5, RunningTask, Playing
<1>6. CASE Destroy \/ CloseAll \/ Stop \/ Die
  BY <1>6, Sockets, Halting
<1>7. QED
  BY <1>1, <1>2, <1>3, <1>4, <1>5, <1>6 DEF Next

LEMMA InductiveInvariant == Spec => []IInv
BY Initially, Inductive, PTL DEF Spec

LEMMA Enough == IInv => ConnectionInv
<1> SUFFICES ASSUME IInv PROVE ConnectionInv
  OBVIOUS
<1> DEFINE n == reads + One(Unanswered(conn))
<1>1. /\ conn \in Record /\ Numbered(conn, failed) /\ Driven(conn, failed)
      /\ Farewell(conn, failed) /\ ReleasedOnce(conn) /\ Within(conn, n, n)
      /\ (failed => conn.closed)
  BY DEF IInv, Sound, Good, Almost
<1>2. /\ reads \in 0..MaxReads /\ failed \in BOOLEAN
      /\ phase \in {"running", "stopping", "down", "dead"}
      /\ written \in Seq(1..MaxMessages) /\ Len(written) \in Nat
      /\ Len(written) <= conn.sent /\ (~failed => Len(written) = Gone(conn))
      /\ \A i \in 1..Len(written) : written[i] = i
  BY SeqFacts DEF IInv
<1>3. /\ Len(conn.queue) \in Nat /\ Len(conn.tasks) \in Nat /\ conn.late \in Nat
      /\ conn.sent \in Nat /\ conn.sent <= MaxMessages
      /\ conn.queue \in Seq(1..MaxMessages) /\ conn.tasks \in Seq(Tasks)
      /\ MaxMessages \in Nat /\ MaxReads \in Nat
  BY <1>1, Numbers, ConnectionAssumption DEF Record
<1>4. TypeOK
  <2>1. /\ conn.late + One(conn.readTimer) + One(conn.writeTimer) <= n + Writes(conn)
        /\ Len(conn.tasks) <= n + One(conn.closed /\ conn.protocol)
    BY <1>1 DEF Within
  <2>2. /\ One(conn.readTimer) \in 0..1 /\ One(conn.writeTimer) \in 0..1
        /\ One(conn.closed /\ conn.protocol) \in 0..1
        /\ One(Unanswered(conn)) \in 0..1 /\ One(conn.write) \in 0..1
    BY DEF One
  <2>3. n \in Nat /\ n <= MaxReads + 1
    BY <1>2, <1>3, <2>2
  <2>4. Writes(conn) <= MaxMessages + 1 /\ Writes(conn) \in Int
    BY <1>3, <2>2 DEF Writes, Gone
  <2> HIDE DEF n
  <2>5. conn.late <= MaxReads + MaxMessages + 2
    BY <1>3, <2>1, <2>2, <2>3, <2>4
  <2>6. Len(conn.tasks) <= 2 + MaxReads
    BY <1>3, <2>1, <2>2, <2>3
  <2> DEFINE M == MaxReads + MaxMessages + 2
  <2>7. conn.late \in 0..M
    BY <1>3, <2>5
  <2> HIDE DEF M
  <2>8. conn \in [registered : BOOLEAN, closed : BOOLEAN, graceful : BOOLEAN,
               open : BOOLEAN, queue : Seq(1..MaxMessages),
               sent : 0..MaxMessages,
               read : {"none", "accept", "header", "packet"},
               readEnd : {"pending", "ok", "error"},
               write : BOOLEAN, writeEnd : {"pending", "ok", "error"},
               readTimer : BOOLEAN, writeTimer : BOOLEAN,
               late : 0..M,
               protocol : BOOLEAN, receivedFirst : BOOLEAN,
               tasks : Seq(Tasks),
               released : BOOLEAN, held : BOOLEAN]
    BY <1>1, <2>7 DEF Record
  <2>9. QED
    BY <1>2, <2>6, <2>8 DEF TypeOK, M, Tasks
<1>5. WrittenInOrder
  <2> DEFINE ids == [i \in 1..conn.sent |-> i]
  <2>1. ids \in Seq(Nat) /\ Len(ids) = conn.sent
    BY <1>3
  <2>2. IsPrefix(written, ids)
    <3>1. SubSeq(written, 1, Len(written)) = SubSeq(ids, 1, Len(written))
      BY <1>2, <1>3, <2>1
    <3>2. QED
      BY <1>2, <2>1, <3>1 DEF IsPrefix
  <2>3. ASSUME ~failed PROVE written \o conn.queue = ids
    <3>1. /\ Len(written) = Gone(conn)
          /\ \A i \in 1..Len(conn.queue) : conn.queue[i] = Gone(conn) + i
      BY <1>1, <1>2, <2>3 DEF Numbered
    <3>2. Len(written) + Len(conn.queue) = conn.sent
      BY <1>2, <1>3, <3>1 DEF Gone
    <3>3. /\ written \o conn.queue \in Seq(1..MaxMessages)
          /\ Len(written \o conn.queue) = conn.sent
          /\ \A i \in 1..conn.sent :
               (written \o conn.queue)[i] = IF i <= Len(written) THEN written[i]
                                            ELSE conn.queue[i - Len(written)]
      BY <1>2, <1>3, <3>2, ConcatProperties
    <3>4. \A i \in 1..conn.sent : (written \o conn.queue)[i] = i
      <4>1. ASSUME NEW i \in 1..conn.sent PROVE (written \o conn.queue)[i] = i
        <5>1. CASE i <= Len(written)
          BY <1>2, <3>3, <5>1
        <5>2. CASE ~(i <= Len(written))
          <6>1. i - Len(written) \in 1..Len(conn.queue)
            BY <1>2, <1>3, <3>2, <5>2
          <6>2. QED
            BY <1>2, <3>1, <3>3, <5>2, <6>1
        <5>3. QED
          BY <5>1, <5>2
      <4>2. QED
        BY <4>1
    <3>5. written \in Seq(Nat) /\ conn.queue \in Seq(Nat)
      <4>1. 1..MaxMessages \subseteq Nat
        BY <1>3
      <4>2. QED
        BY <1>2, <1>3, <4>1, SeqMonotonic
    <3>6. written \o conn.queue \in Seq(Nat)
      BY <3>5, ConcatProperties
    <3>7. \A i \in 1..Len(ids) : (written \o conn.queue)[i] = ids[i]
      BY <2>1, <3>4
    <3> HIDE DEF ids
    <3>8. QED
      BY <2>1, <3>3, <3>6, <3>7, SeqEqual
  <2>4. QED
    BY <2>2, <2>3 DEF WrittenInOrder
<1>6. QueueIsDriven
  BY <1>1 DEF Driven, QueueIsDriven
<1>7. FarewellIsSent
  BY <1>1 DEF Farewell, Serving, FarewellIsSent
<1>8. ReleaseIsLast
  <2>1. ReleasedOnce(conn)
    BY <1>1
  <2> DEFINE todo == IF conn.released THEN <<"release">> \o conn.tasks
                     ELSE conn.tasks
  <2>2. ASSUME phase = "running", conn.released
        PROVE  /\ \A i \in 1..Len(todo) : i = Len(todo)
               /\ todo # <<>> /\ Last(todo) = "release"
    <3>1. conn.tasks = <<>>
      BY <2>1, <2>2 DEF ReleasedOnce
    <3>2. todo = <<"release">>
      BY <2>2, <3>1, <1>3
    <3> HIDE DEF todo
    <3>3. QED
      BY <3>2 DEF Last
  <2>3. ASSUME phase = "running", ~conn.released
        PROVE  /\ \A i \in 1..Len(todo) : todo[i] = "release" => i = Len(todo)
               /\ conn.closed /\ conn.protocol => todo # <<>> /\ Last(todo) = "release"
    BY <2>1, <2>3 DEF ReleasedOnce, Last
  <2>4. QED
    BY <2>2, <2>3 DEF ReleaseIsLast
<1>9. QED
  BY <1>4, <1>5, <1>6, <1>7, <1>8 DEF ConnectionInv

(* A connection keeps to what ConnectionInv asks: its messages are written  *)
(* in order, its queue is driven, the farewell of a closed one is sent, and *)
(* release is the last task of its protocol.                                *)
THEOREM ConnectionIsSound == Spec => []ConnectionInv
BY InductiveInvariant, Enough, PTL

-----------------------------------------------------------------------------
(* A connection lives as ConnectionLife promises.  What a call leaves of a  *)
(* connection, and what it leaves of it when it is closed already.          *)
Leaves(c, d) ==
  /\ d \in Record
  /\ d.protocol = c.protocol /\ d.released = c.released /\ d.held = c.held
  /\ c.closed => d.closed /\ d.tasks = c.tasks

Spares(c, d) ==
  /\ Leaves(c, d)
  /\ d.read = c.read
  /\ c.closed => (d.registered => c.registered) /\ (d.write => c.write)

LEMMA CloseSpares ==
  ASSUME NEW c \in Record, NEW force \in BOOLEAN
  PROVE  Spares(c, Close(c, force))
<1> DEFINE d == Close(c, force)
<1>1. Shut(c, d) /\ d.closed /\ ~d.registered /\ d.tasks = ClosedTasks(c)
  BY CloseFacts
<1> HIDE DEF d
<1>2. Spares(c, d)
  BY <1>1 DEF Spares, Leaves, Shut, Identity, Sending, ClosedTasks
<1>3. QED
  BY <1>2 DEF d

LEMMA StartWriteSpares ==
  ASSUME NEW c \in Record, NEW armed \in BOOLEAN
  PROVE  /\ Leaves(c, StartWrite(c, armed))
         /\ StartWrite(c, armed).read = c.read
<1>1. CASE armed
  <2> DEFINE we == IF c.open THEN "pending" ELSE "error"
  <2>1. we \in {"pending", "ok", "error"}
    OBVIOUS
  <2>2. StartWrite(c, armed)
          = [c EXCEPT !.writeTimer = TRUE, !.write = TRUE, !.writeEnd = we]
    BY <1>1 DEF StartWrite
  <2> HIDE DEF we
  <2> DEFINE d == [c EXCEPT !.writeTimer = TRUE, !.write = TRUE, !.writeEnd = we]
  <2>3. d \in Record
    BY <2>1 DEF Record
  <2>4. /\ d.protocol = c.protocol /\ d.released = c.released /\ d.held = c.held
        /\ d.closed = c.closed /\ d.tasks = c.tasks /\ d.read = c.read
    BY DEF Record
  <2> HIDE DEF d
  <2>5. QED
    BY <2>2, <2>3, <2>4 DEF Leaves, d
<1>2. CASE ~armed
  <2> DEFINE b == [c EXCEPT !.write = FALSE]
  <2>1. /\ b \in Record /\ b.protocol = c.protocol /\ b.released = c.released
        /\ b.held = c.held /\ b.read = c.read /\ b.closed = c.closed
        /\ b.tasks = c.tasks
    BY DEF Record
  <2>2. StartWrite(c, armed) = Close(b, TRUE)
    BY <1>2 DEF StartWrite
  <2> HIDE DEF b
  <2>3. Spares(b, Close(b, TRUE))
    BY <2>1, CloseSpares
  <2>4. QED
    BY <2>1, <2>2, <2>3 DEF Spares, Leaves
<1>3. QED
  BY <1>1, <1>2

LEMMA SendSpares ==
  ASSUME NEW c \in Record, c.sent < MaxMessages, NEW armed \in BOOLEAN
  PROVE  Spares(c, Send(c, armed))
<1>1. CASE c.closed
  BY <1>1 DEF Send, Spares, Leaves
<1>2. CASE ~c.closed
  <2> DEFINE q == Append(c.queue, c.sent + 1)
             k == c.sent + 1
             d == [c EXCEPT !.queue = q, !.sent = k]
  <2>1. q \in Seq(1..MaxMessages) /\ k \in 0..MaxMessages
    <3>1. c.sent + 1 \in 1..MaxMessages
      BY ConnectionAssumption DEF Record
    <3>2. QED
      BY <3>1, SeqFacts DEF Record
  <2>2. Send(c, armed) = IF Idle(c) THEN StartWrite(d, armed) ELSE d
    BY <1>2 DEF Send
  <2> HIDE DEF q, k
  <2>3. /\ d \in Record /\ d.protocol = c.protocol /\ d.released = c.released
        /\ d.held = c.held /\ d.read = c.read /\ d.closed = c.closed
    BY <2>1 DEF Record
  <2> HIDE DEF d
  <2>4. Leaves(d, StartWrite(d, armed)) /\ StartWrite(d, armed).read = d.read
    BY <2>3, StartWriteSpares
  <2>5. QED
    BY <1>2, <2>2, <2>3, <2>4 DEF Spares, Leaves
<1>3. QED
  BY <1>1, <1>2

LEMMA ReactionsSpare ==
  ASSUME NEW c \in Record, c.sent = conn.sent, NEW d \in Reactions(c)
  PROVE  Spares(c, d)
<1>1. Spares(c, c)
  BY DEF Spares, Leaves
<1>2. ASSUME NEW e \in Record, Spares(c, e) PROVE Spares(c, Close(e, FALSE))
  <2>1. Spares(e, Close(e, FALSE))
    BY CloseSpares
  <2>2. QED
    BY <1>2, <2>1 DEF Spares, Leaves
<1>3. ASSUME NEW armed \in Armings, CanSend
      PROVE  Spares(c, Send(c, armed)) /\ Send(c, armed) \in Record
  BY <1>3, SendSpares, ConnectionAssumption DEF CanSend, Spares, Leaves
<1>4. \/ d = c \/ d = Close(c, FALSE)
      \/ \E armed \in Armings :
           CanSend /\ (d = Send(c, armed) \/ d = Close(Send(c, armed), FALSE))
  BY DEF Reactions
<1>5. QED
  BY <1>1, <1>2, <1>3, <1>4

LEMMA StartReadLeaves ==
  ASSUME NEW c \in Record, NEW kind \in {"header", "packet"}, NEW armed \in BOOLEAN
  PROVE  Leaves(c, StartRead(c, kind, armed))
<1>1. CASE armed
  <2> DEFINE re == IF c.open THEN "pending" ELSE "error"
  <2>1. re \in {"pending", "ok", "error"}
    OBVIOUS
  <2>2. StartRead(c, kind, armed)
          = [c EXCEPT !.readTimer = TRUE, !.read = kind, !.readEnd = re]
    BY <1>1 DEF StartRead, StartReadTimer, Record
  <2> HIDE DEF re
  <2> DEFINE d == [c EXCEPT !.readTimer = TRUE, !.read = kind, !.readEnd = re]
  <2>3. d \in Record
    BY <2>1 DEF Record
  <2>4. /\ d.protocol = c.protocol /\ d.released = c.released /\ d.held = c.held
        /\ d.closed = c.closed /\ d.tasks = c.tasks
    BY DEF Record
  <2> HIDE DEF d
  <2>5. QED
    BY <2>2, <2>3, <2>4 DEF Leaves, d
<1>2. CASE ~armed
  <2> DEFINE b == [c EXCEPT !.read = "none"]
  <2>1. /\ b \in Record /\ b.protocol = c.protocol /\ b.released = c.released
        /\ b.held = c.held /\ b.closed = c.closed /\ b.tasks = c.tasks
    BY DEF Record
  <2>2. StartRead(c, kind, armed) = Close(b, TRUE)
    BY <1>2 DEF StartRead
  <2> HIDE DEF b
  <2>3. Spares(b, Close(b, TRUE))
    BY <2>1, CloseSpares
  <2>4. QED
    BY <2>1, <2>2, <2>3 DEF Spares, Leaves
<1>3. QED
  BY <1>1, <1>2

LEMMA PostLeaves ==
  ASSUME NEW c \in Record, NEW job \in Tasks
  PROVE  LET d == Post(c, job) IN
         /\ d \in Record
         /\ d.protocol = c.protocol /\ d.released = c.released /\ d.held = c.held
<1> DEFINE t == Append(c.tasks, IF phase = "running" THEN job ELSE "lost")
<1>1. t \in Seq(Tasks)
  BY SeqFacts DEF Record, Tasks
<1>2. Post(c, job) = [c EXCEPT !.tasks = t]
  BY DEF Post
<1> HIDE DEF t
<1>3. QED
  BY <1>1, <1>2 DEF Record

(* The values of ConnectionLife, and what a step may do to them.            *)
LifeOf(c) == IF ~Alive(c) THEN "gone" ELSE IF c.closed THEN "closing" ELSE "open"
ReleaseOf(c) ==
  IF c.released THEN "run"
  ELSE IF Posted(c) THEN "posted"
  ELSE IF c.closed /\ c.protocol THEN "lost" ELSE "none"

OpenStep(c, d) ==
  /\ c.protocol => d.protocol
  /\ d.closed => Alive(d) /\ ~d.released

ClosedStep(c, d) ==
  /\ d.closed /\ d.protocol = c.protocol
  /\ \/ (Alive(d) => Alive(c)) /\ ReleaseOf(d) = ReleaseOf(c)
     \/ (Alive(d) <=> Alive(c)) /\ ReleaseOf(c) = "posted" /\ ReleaseOf(d) = "run"

StepOk == /\ ~conn.closed => OpenStep(conn, conn')
          /\ conn.closed => ClosedStep(conn, conn')

LEMMA Untouched ==
  ASSUME NEW c, NEW d, c.closed, d.closed, d.protocol = c.protocol,
         d.released = c.released, d.tasks = c.tasks, Alive(d) => Alive(c)
  PROVE  ClosedStep(c, d)
<1>1. ReleaseOf(d) = ReleaseOf(c)
  BY DEF ReleaseOf, Posted
<1>2. QED
  BY <1>1 DEF ClosedStep

(* A handler holds the connection until it returns.                         *)
LEMMA HandlerStep ==
  ASSUME NEW c \in Record, NEW d, Leaves(c, d), c.held, Alive(conn),
         c.closed = conn.closed, c.released = conn.released,
         conn.protocol => c.protocol,
         conn.closed => c.tasks = conn.tasks /\ c.protocol = conn.protocol,
         ~conn.closed => ~conn.released, d = conn'
  PROVE  StepOk
<1>1. d.held /\ d.released = conn.released
  BY DEF Leaves
<1>2. Alive(d)
  BY <1>1 DEF Alive
<1>3. ASSUME conn.closed PROVE ClosedStep(conn, d)
  BY <1>1, <1>3, Untouched DEF Leaves
<1>4. ASSUME ~conn.closed PROVE OpenStep(conn, d)
  BY <1>1, <1>2, <1>4 DEF Leaves, OpenStep
<1>5. QED
  BY <1>3, <1>4 DEF StepOk

LEMMA Facts ==
  ASSUME IInv
  PROVE  /\ conn \in Record
         /\ Received \in Record /\ Received.held /\ Received.sent = conn.sent
         /\ Received.closed = conn.closed /\ Received.protocol = conn.protocol
         /\ Received.released = conn.released /\ Received.tasks = conn.tasks
         /\ ~conn.closed => conn.read # "none" /\ ~conn.released /\ ~Posted(conn)
         /\ conn.read = "accept" => ~conn.closed /\ ~conn.protocol
<1>1. conn \in Record /\ ReleasedOnce(conn) /\ Opening(conn)
      /\ (~conn.closed => conn.read # "none")
  BY DEF IInv, Sound, Good, Almost
<1>2. QED
  BY <1>1 DEF Received, Record, ReleasedOnce, Opening

LEMMA NetworkSteps ==
  ASSUME IInv, OnAccept \/ ParseHeader \/ ParsePacket
  PROVE  StepOk
<1>1. /\ conn \in Record
      /\ Received \in Record /\ Received.held /\ Received.sent = conn.sent
      /\ Received.closed = conn.closed /\ Received.protocol = conn.protocol
      /\ Received.released = conn.released /\ Received.tasks = conn.tasks
      /\ ~conn.closed => conn.read # "none" /\ ~conn.released
      /\ conn.read = "accept" => ~conn.closed
  BY Facts
<1>2. Alive(conn)
  <2>1. "accept" # "none" /\ "header" # "none" /\ "packet" # "none"
    OBVIOUS
  <2>2. QED
    BY <2>1 DEF OnAccept, ParseHeader, ParsePacket, Ready, Alive
<1> DEFINE r == Received
<1> HIDE DEF r
<1>3. /\ r \in Record /\ r.held /\ r.closed = conn.closed
      /\ r.released = conn.released /\ r.protocol = conn.protocol
      /\ r.tasks = conn.tasks /\ r.sent = conn.sent
  BY <1>1 DEF r
<1>4. Armings \subseteq BOOLEAN
  BY ConnectionAssumption
<1>5. ASSUME Leaves(r, conn') PROVE StepOk
  BY <1>1, <1>2, <1>3, <1>5, HandlerStep
<1>6. ASSUME NEW force \in BOOLEAN, conn' = Close(r, force) PROVE StepOk
  BY <1>3, <1>5, <1>6, CloseSpares DEF Spares
<1>7. ASSUME NEW kind \in {"header", "packet"}, NEW armed \in BOOLEAN,
             conn' = StartRead(r, kind, armed)
      PROVE  StepOk
  BY <1>3, <1>5, <1>7, StartReadLeaves
<1>8. CASE OnAccept
  <2>1. conn.read = "accept" /\ ~conn.closed
    BY <1>1, <1>8 DEF OnAccept, Ready
  <2>2. \/ conn' = Close(r, TRUE)
        \/ \E armed \in Armings : conn' = StartRead(r, "header", armed)
        \/ \E armed \in Armings :
             conn' = StartRead(Post([r EXCEPT !.protocol = TRUE], "connect"),
                               "header", armed)
    BY <1>8 DEF OnAccept, r
  <2>3. ASSUME NEW armed \in Armings,
               conn' = StartRead(Post([r EXCEPT !.protocol = TRUE], "connect"),
                                 "header", armed)
        PROVE  StepOk
    <3> DEFINE p == [r EXCEPT !.protocol = TRUE]
               c == Post(p, "connect")
    <3>1. p \in Record /\ p.protocol /\ p.held /\ p.released = conn.released
      BY <1>3 DEF Record
    <3> HIDE DEF p
    <3>2. c \in Record /\ c.protocol /\ c.held /\ c.released = conn.released
      BY <3>1, PostLeaves DEF Tasks
    <3>3. conn' = StartRead(c, "header", armed)
      BY <2>3 DEF p
    <3> HIDE DEF c
    <3>4. Leaves(c, conn')
      BY <1>4, <3>2, <3>3, StartReadLeaves
    <3>5. OpenStep(conn, conn')
      BY <1>1, <2>1, <3>2, <3>4 DEF Leaves, OpenStep, Alive
    <3>6. QED
      BY <2>1, <3>5 DEF StepOk
  <2>4. QED
    BY <1>4, <1>6, <1>7, <2>2, <2>3
<1>9. ASSUME conn' = Refuse(r) PROVE StepOk
  <2>1. Leaves(r, r)
    BY <1>3 DEF Leaves
  <2>2. conn' = Close(r, TRUE) \/ conn' = r
    BY <1>9 DEF Refuse
  <2>3. QED
    BY <1>5, <1>6, <2>1, <2>2
<1>10. CASE ParseHeader
  <2>1. \/ conn' = Refuse(r) \/ conn' = Close(r, FALSE) \/ conn' = Close(r, TRUE)
        \/ \E armed \in Armings : conn' = StartRead(r, "packet", armed)
    BY <1>10 DEF ParseHeader, r
  <2>2. QED
    BY <1>4, <1>6, <1>7, <1>9, <2>1
<1>11. CASE ParsePacket
  <2>1. CASE Refused(r)
    BY <1>9, <1>11, <2>1 DEF ParsePacket, r
  <2>2. CASE ~Refused(r)
    <3> DEFINE c == [r EXCEPT !.receivedFirst = TRUE]
               p == [c EXCEPT !.protocol = TRUE]
    <3>1. ~conn.closed /\ ~conn.released
      BY <1>1, <1>3, <2>2 DEF Refused, IsClosed
    <3>2. /\ c \in Record /\ c.held /\ c.closed = conn.closed
          /\ c.released = conn.released /\ c.protocol = conn.protocol
      BY <1>3 DEF Record
    <3>3. /\ p \in Record /\ p.protocol /\ p.held /\ p.released = conn.released
          /\ p.sent = conn.sent
      BY <1>3 DEF Record
    <3>4. \/ conn' = Close(c, TRUE)
          \/ \E d \in Reactions(p) \cup {Post(p, "work")}, armed \in Armings :
               conn' = StartRead(d, "header", armed)
      BY <1>11, <2>2 DEF ParsePacket, r
    <3> HIDE DEF c, p
    <3>5. ASSUME conn' = Close(c, TRUE) PROVE StepOk
      <4>1. Leaves(c, conn')
        BY <3>2, <3>5, CloseSpares DEF Spares
      <4>2. OpenStep(conn, conn')
        BY <3>1, <3>2, <4>1 DEF Leaves, OpenStep, Alive
      <4>3. QED
        BY <3>1, <4>2 DEF StepOk
    <3>6. ASSUME NEW d \in Reactions(p) \cup {Post(p, "work")}, NEW armed \in Armings,
                 conn' = StartRead(d, "header", armed)
          PROVE  StepOk
      <4>1. d \in Record /\ d.protocol /\ d.held /\ d.released = conn.released
        <5>1. CASE d \in Reactions(p)
          BY <3>3, <5>1, ReactionsSpare DEF Spares, Leaves
        <5>2. CASE d = Post(p, "work")
          BY <3>3, <5>2, PostLeaves DEF Tasks
        <5>3. QED
          BY <5>1, <5>2
      <4>2. Leaves(d, conn')
        BY <1>4, <3>6, <4>1, StartReadLeaves
      <4>3. OpenStep(conn, conn')
        BY <3>1, <4>1, <4>2 DEF Leaves, OpenStep, Alive
      <4>4. QED
        BY <3>1, <4>3 DEF StepOk
    <3>7. QED
      BY <3>4, <3>5, <3>6
  <2>3. QED
    BY <2>1, <2>2
<1>12. QED
  BY <1>8, <1>10, <1>11

LEMMA WriteSteps == ASSUME IInv, OnWriteOperation PROVE StepOk
<1> DEFINE q == Popped(conn)
           c == [conn EXCEPT !.write = FALSE, !.writeTimer = FALSE,
                             !.held = TRUE, !.queue = q]
           b == [c EXCEPT !.queue = <<>>]
<1>1. conn \in Record /\ (~conn.closed => ~conn.released)
  BY Facts
<1>2. q \in Seq(1..MaxMessages) /\ <<>> \in Seq(1..MaxMessages) /\ Alive(conn)
  <2>1. conn.queue # <<>>
    BY DEF IInv, Sound, Good, Almost, Driven, OnWriteOperation
  <2>2. QED
    BY <1>1, <2>1, SeqFacts DEF Popped, Record, Alive, OnWriteOperation
<1>3. \/ conn' = Close(b, TRUE)
      \/ conn' = c \/ conn' = CloseSocket(c)
      \/ \E armed \in Armings : conn' = StartWrite(c, armed)
  BY DEF OnWriteOperation
<1> HIDE DEF q
<1>4. /\ c \in Record /\ c.held /\ c.closed = conn.closed
      /\ c.released = conn.released /\ c.protocol = conn.protocol
      /\ c.tasks = conn.tasks
  BY <1>1, <1>2 DEF Record
<1>5. /\ b \in Record /\ b.held /\ b.closed = conn.closed
      /\ b.released = conn.released /\ b.protocol = conn.protocol
      /\ b.tasks = conn.tasks
  BY <1>1, <1>2 DEF Record
<1> HIDE DEF c, b
<1>6. Leaves(b, Close(b, TRUE)) /\ Leaves(c, c)
  BY <1>4, <1>5, CloseSpares DEF Spares, Leaves
<1>7. Leaves(c, CloseSocket(c))
  BY <1>4, CloseSocketFacts DEF Leaves, Shut, Identity
<1>8. \A armed \in Armings : Leaves(c, StartWrite(c, armed))
  BY <1>4, StartWriteSpares, ConnectionAssumption
<1>9. Leaves(c, conn') \/ Leaves(b, conn')
  BY <1>3, <1>6, <1>7, <1>8
<1>10. QED
  BY <1>1, <1>2, <1>4, <1>5, <1>9, HandlerStep

LEMMA TimeoutSteps == ASSUME IInv, HandleTimeout PROVE StepOk
<1> DEFINE l == conn.late - 1
           c == [conn EXCEPT !.late = l, !.held = Alive(conn)]
<1>1. conn \in Record /\ (~conn.closed => conn.read # "none" /\ ~conn.released)
  BY Facts
<1>2. l \in Nat /\ Alive(conn) \in BOOLEAN
  BY <1>1 DEF Record, Alive, HandleTimeout
<1>3. conn' = IF Alive(conn) THEN Close(c, TRUE) ELSE c
  BY DEF HandleTimeout
<1> HIDE DEF l
<1>4. /\ c \in Record /\ (c.held <=> Alive(conn)) /\ c.closed = conn.closed
      /\ c.released = conn.released /\ c.protocol = conn.protocol
      /\ c.tasks = conn.tasks
      /\ c.registered = conn.registered /\ c.read = conn.read /\ c.write = conn.write
  BY <1>1, <1>2 DEF Record
<1> HIDE DEF c
<1>5. CASE Alive(conn)
  BY <1>1, <1>3, <1>4, <1>5, CloseSpares, HandlerStep DEF Spares
<1>6. CASE ~Alive(conn)
  <2>1. conn.closed
    BY <1>1, <1>6 DEF Alive
  <2>2. ~Alive(c)
    BY <1>4, <1>6 DEF Alive
  <2>3. ClosedStep(conn, c)
    BY <1>4, <2>1, <2>2, Untouched
  <2>4. QED
    BY <1>3, <1>6, <2>1, <2>3 DEF StepOk
<1>7. QED
  BY <1>5, <1>6

(* Steps that do not close the connection.                                  *)
LEMMA QuietSteps ==
  ASSUME IInv,
         HandlerReturns \/ Destroy \/ Stop \/ CloseAll \/ Die \/ ReadEnds
           \/ WriteEnds \/ ReadTimerExpires \/ WriteTimerExpires
  PROVE  StepOk
<1>1. conn \in Record
  BY Facts
<1>2. /\ conn'.closed = conn.closed /\ conn'.protocol = conn.protocol
      /\ conn'.released = conn.released /\ conn'.tasks = conn.tasks
      /\ Alive(conn') => Alive(conn)
  <2>1. CASE HandlerReturns
    BY <1>1, <2>1 DEF HandlerReturns, Record, Alive
  <2>2. /\ Shut(conn, CloseSocket(conn))
        /\ CloseSocket(conn).registered = conn.registered
        /\ CloseSocket(conn).closed = conn.closed
        /\ CloseSocket(conn).tasks = conn.tasks
    BY <1>1, CloseSocketFacts
  <2>3. CASE Destroy
    BY <2>2, <2>3 DEF Destroy, Shut, Identity, Sending, Alive
  <2>4. CASE CloseAll
    <3>1. CASE conn.registered
      <4> DEFINE s == CloseSocket(conn)
      <4>1. conn' = [s EXCEPT !.registered = FALSE, !.readTimer = conn.readTimer,
                              !.writeTimer = conn.writeTimer]
        BY <2>4, <3>1 DEF CloseAll
      <4>2. s \in Record /\ Identity(s) = Identity(conn) /\ Sending(s) = Sending(conn)
            /\ s.closed = conn.closed /\ s.tasks = conn.tasks
        BY <2>2 DEF Shut
      <4> HIDE DEF s
      <4>3. /\ conn'.closed = s.closed /\ conn'.tasks = s.tasks
            /\ conn'.protocol = s.protocol /\ conn'.released = s.released
        BY <4>1, <4>2 DEF Record
      <4>4. QED
        BY <3>1, <4>2, <4>3 DEF Identity, Alive
    <3>2. CASE ~conn.registered
      BY <2>4, <3>2 DEF CloseAll
    <3>3. QED
      BY <3>1, <3>2
  <2>5. CASE Stop \/ Die
    BY <2>5 DEF Stop, Die
  <2>6. CASE ReadEnds
    BY <1>1, <2>6 DEF ReadEnds, Record, Alive
  <2>7. CASE WriteEnds
    BY <1>1, <2>7 DEF WriteEnds, Record, Alive
  <2>8. CASE ReadTimerExpires
    BY <1>1, <2>8 DEF ReadTimerExpires, Record, Alive
  <2>9. CASE WriteTimerExpires
    BY <1>1, <2>9 DEF WriteTimerExpires, Record, Alive
  <2>10. QED
    BY <2>1, <2>3, <2>4, <2>5, <2>6, <2>7, <2>8, <2>9
<1>3. ASSUME conn.closed PROVE ClosedStep(conn, conn')
  BY <1>2, <1>3, Untouched
<1>4. QED
  BY <1>2, <1>3 DEF StepOk, OpenStep

LEMMA DispatcherSteps == ASSUME IInv, RunTask \/ Play PROVE StepOk
<1>1. /\ conn \in Record
      /\ ~conn.closed => conn.read # "none" /\ ~conn.released /\ ~Posted(conn)
  BY Facts
<1>2. ASSUME NEW c \in Record, c.sent = conn.sent, c.closed = conn.closed,
             c.protocol = conn.protocol, c.released = conn.released,
             c.registered = conn.registered, c.read = conn.read,
             c.write = conn.write, c.held = conn.held,
             Posted(c) <=> Posted(conn),
             conn' \in Reactions(c)
      PROVE  StepOk
  <2>1. Spares(c, conn')
    BY <1>2, ReactionsSpare
  <2>2. ASSUME conn.closed PROVE ClosedStep(conn, conn')
    <3>1. ReleaseOf(conn') = ReleaseOf(conn)
      BY <1>2, <2>1, <2>2 DEF Spares, Leaves, ReleaseOf, Posted
    <3>2. QED
      BY <1>2, <2>1, <2>2, <3>1 DEF Spares, Leaves, ClosedStep, Alive
  <2>3. ASSUME ~conn.closed PROVE OpenStep(conn, conn')
    BY <1>1, <1>2, <2>1, <2>3 DEF Spares, Leaves, OpenStep, Alive
  <2>4. QED
    BY <2>2, <2>3 DEF StepOk
<1>3. CASE Play
  BY <1>1, <1>2, <1>3 DEF Play
<1>4. CASE RunTask
  <2> DEFINE t == Tail(conn.tasks)
             c == [conn EXCEPT !.tasks = t]
  <2>1. /\ t \in Seq(Tasks) /\ Len(t) \in Nat /\ Len(conn.tasks) \in Nat
        /\ Len(conn.tasks) = Len(t) + 1
        /\ \A i \in 1..Len(t) : t[i] = conn.tasks[i + 1]
        /\ Head(conn.tasks) = conn.tasks[1]
    BY <1>1, <1>4, SeqFacts DEF RunTask, Record
  <2>2. \/ /\ Head(conn.tasks) # "release"
           /\ conn' \in Reactions(c)
        \/ /\ Head(conn.tasks) = "release"
           /\ conn' = [c EXCEPT !.released = TRUE]
    <3>1. c \in Reactions(c)
      BY DEF Reactions
    <3>2. "connect" # "release" /\ "work" # "release" /\ "lost" # "release"
      OBVIOUS
    <3>3. QED
      BY <1>4, <3>1, <3>2 DEF RunTask
  <2> HIDE DEF t
  <2>3. /\ c \in Record /\ c.sent = conn.sent /\ c.closed = conn.closed
        /\ c.protocol = conn.protocol /\ c.released = conn.released
        /\ c.registered = conn.registered /\ c.read = conn.read
        /\ c.write = conn.write /\ c.held = conn.held /\ c.tasks = t
    BY <1>1, <2>1 DEF Record
  <2>4. CASE Head(conn.tasks) # "release"
    <3>1. Posted(c) <=> Posted(conn)
      <4>1. ASSUME NEW i \in 1..Len(t), t[i] = "release" PROVE Posted(conn)
        <5>1. i + 1 \in 1..Len(conn.tasks) /\ conn.tasks[i + 1] = "release"
          BY <2>1, <4>1
        <5>2. QED
          BY <5>1 DEF Posted
      <4>2. ASSUME NEW i \in 1..Len(conn.tasks), conn.tasks[i] = "release"
            PROVE  Posted(c)
        <5>1. i # 1
          BY <2>1, <2>4, <4>2
        <5>2. i - 1 \in 1..Len(t) /\ (i - 1) + 1 = i
          BY <2>1, <5>1
        <5>3. t[i - 1] = "release"
          BY <2>1, <4>2, <5>2
        <5>4. QED
          BY <2>3, <5>2, <5>3 DEF Posted
      <4>3. QED
        BY <2>3, <4>1, <4>2 DEF Posted
    <3> HIDE DEF c
    <3>2. QED
      BY <1>2, <2>2, <2>3, <2>4, <3>1
  <2>5. CASE Head(conn.tasks) = "release"
    <3>1. conn' = [c EXCEPT !.released = TRUE]
      BY <2>2, <2>5
    <3> HIDE DEF c
    <3>2. /\ conn'.closed = conn.closed /\ conn'.protocol = conn.protocol
          /\ conn'.released /\ (Alive(conn') <=> Alive(conn))
      BY <2>3, <3>1 DEF Record, Alive
    <3>3. Posted(conn)
      <4>1. 1 \in 1..Len(conn.tasks)
        BY <2>1
      <4>2. QED
        BY <2>1, <2>5, <4>1 DEF Posted
    <3>4. conn.closed
      BY <1>1, <3>3
    <3>5. ClosedStep(conn, conn')
      BY <3>2, <3>3, <3>4 DEF ClosedStep, ReleaseOf
    <3>6. QED
      BY <3>4, <3>5 DEF StepOk
  <2>6. QED
    BY <2>4, <2>5
<1>5. QED
  BY <1>3, <1>4

LEMMA StepsAreOk == ASSUME IInv, Next PROVE StepOk
<1>1. CASE OnAccept \/ ParseHeader \/ ParsePacket
  BY <1>1, NetworkSteps
<1>2. CASE OnWriteOperation
  BY <1>2, WriteSteps
<1>3. CASE HandleTimeout
  BY <1>3, TimeoutSteps
<1>4. CASE HandlerReturns \/ Destroy \/ Stop \/ CloseAll \/ Die \/ ReadEnds
           \/ WriteEnds \/ ReadTimerExpires \/ WriteTimerExpires
  BY <1>4, QuietSteps
<1>5. CASE RunTask \/ Play
  BY <1>5, DispatcherSteps
<1>6. QED
  BY <1>1, <1>2, <1>3, <1>4, <1>5 DEF Next

(* The values in the states that IInv allows.                               *)
LEMMA Values ==
  ASSUME NEW c, c.released \/ Posted(c) => c.closed /\ c.protocol,
         ~c.closed => c.read # "none"
  PROVE  /\ ~c.closed => LifeOf(c) = "open" /\ ReleaseOf(c) = "none"
         /\ c.closed /\ Alive(c) => LifeOf(c) = "closing"
         /\ ~Alive(c) => LifeOf(c) = "gone"
         /\ c.closed /\ ~c.released =>
              ReleaseOf(c) \in IF c.protocol THEN {"posted", "lost"} ELSE {"none"}
<1>1. ~c.closed => Alive(c)
  BY DEF Alive
<1>2. QED
  BY <1>1 DEF LifeOf, ReleaseOf

LEMMA StepOfLife ==
  ASSUME IInv, IInv', [Next]_vars
  PROVE  [Life!LifeNext]_(Life!lifeVars)
<1> DEFINE l == LifeOf(conn)    m == LifeOf(conn)'
           r == ReleaseOf(conn) s == ReleaseOf(conn)'
<1>1. CASE UNCHANGED vars
  BY <1>1 DEF vars, Life!lifeVars, Alive
<1>2. CASE Next
  <2>1. StepOk
    BY <1>2, StepsAreOk
  <2>2. /\ ~conn.closed => l = "open" /\ r = "none"
        /\ conn.closed /\ Alive(conn) => l = "closing"
        /\ ~Alive(conn) => l = "gone"
    BY Values DEF IInv, Sound, Good, Almost, ReleasedOnce
  <2>3. /\ ~conn'.closed => m = "open" /\ s = "none"
        /\ conn'.closed /\ Alive(conn') => m = "closing"
        /\ ~Alive(conn') => m = "gone"
        /\ conn'.closed /\ ~conn'.released =>
             s \in IF conn'.protocol THEN {"posted", "lost"} ELSE {"none"}
    <3>1. /\ conn'.released \/ Posted(conn') => conn'.closed /\ conn'.protocol
          /\ ~conn'.closed => conn'.read # "none"
      BY DEF IInv, Sound, Good, Almost, ReleasedOnce, Posted
    <3>2. m = LifeOf(conn') /\ s = ReleaseOf(conn')
      BY DEF LifeOf, ReleaseOf, Alive, Posted
    <3> HIDE DEF m, s
    <3>3. QED
      BY <3>1, <3>2, Values
  <2>4. /\ conn.protocol \in BOOLEAN /\ conn'.protocol \in BOOLEAN
    BY DEF IInv, Sound, Good, Almost, Record
  <2> HIDE DEF l, m, r, s
  <2>5. \/ /\ l = "open" /\ ~conn.protocol /\ conn'.protocol /\ m = l /\ s = r
        \/ /\ l = "open" /\ m = "closing" /\ (conn.protocol => conn'.protocol)
           /\ s \in IF conn'.protocol THEN {"posted", "lost"} ELSE {"none"}
        \/ r = "posted" /\ s = "run" /\ m = l /\ conn'.protocol = conn.protocol
        \/ l = "closing" /\ m = "gone" /\ s = r /\ conn'.protocol = conn.protocol
        \/ m = l /\ s = r /\ conn'.protocol = conn.protocol
    <3>1. CASE ~conn.closed
      BY <2>1, <2>2, <2>3, <2>4, <3>1 DEF StepOk, OpenStep
    <3>2. CASE conn.closed
      <4>1. ClosedStep(conn, conn')
        BY <2>1, <3>2 DEF StepOk
      <4>2. \/ s = r /\ (Alive(conn') => Alive(conn))
            \/ r = "posted" /\ s = "run" /\ (Alive(conn') <=> Alive(conn))
        BY <4>1 DEF ClosedStep, r, s
      <4>3. conn'.closed /\ conn'.protocol = conn.protocol
        BY <4>1 DEF ClosedStep
      <4>4. QED
        BY <2>2, <2>3, <3>2, <4>2, <4>3
    <3>3. QED
      BY <3>1, <3>2
  <2>6. QED
    BY <2>4, <2>5
    DEF l, m, r, s, LifeOf, ReleaseOf, Posted, Life!LifeNext, Life!Bind, Life!Close,
        Life!Release, Life!Lose, Life!Expire, Life!lifeVars
<1>3. QED
  BY <1>1, <1>2

(* Closing a connection posts release once, after every task of its         *)
(* protocol, and the object goes away only after it was closed: the         *)
(* connection implements ConnectionLife.                                    *)
THEOREM LivesAsPromised == Spec => ImplementsLife
<1>1. Init => Life!LifeInit
  <2> SUFFICES ASSUME Init PROVE Life!LifeInit
    OBVIOUS
  <2>1. conn.tasks = <<>> /\ Len(conn.tasks) = 0
    BY EmptySeq DEF Init
  <2>2. QED
    BY <2>1 DEF Init, Alive, Life!LifeInit
<1>2. IInv /\ IInv' /\ [Next]_vars => [Life!LifeNext]_(Life!lifeVars)
  BY StepOfLife
<1>3. QED
  BY <1>1, <1>2, InductiveInvariant, PTL DEF Spec, ImplementsLife, Life!LifeSpec


-----------------------------------------------------------------------------
(* Who owns a task: the handlers of an event in the queue.                  *)
Owning(h, e) == h.kind \in {"insert", "fired", "aborted"} /\ h.id = e
At(s, e) == {i \in 1..Len(s) : Owning(s[i], e)}

LEMMA HandlerKinds ==
  ASSUME NEW h \in Timers!Handler
  PROVE  /\ h.kind \in {"insert", "stop", "fired", "aborted", "shutdown"}
         /\ h.kind # "shutdown" => h.id \in Timers!Ids /\ h = [kind |-> h.kind, id |-> h.id]
BY DEF Timers!Handler

LEMMA AtSpots ==
  ASSUME NEW s \in Seq(Timers!Handler), NEW e
  PROVE  At(s, e) = Spots(s, {h \in Timers!Handler : Owning(h, e)})
<1>1. \A i \in 1..Len(s) : s[i] \in Timers!Handler
  BY SeqFacts
<1>2. QED
  BY <1>1 DEF At, Spots

LEMMA AtAppend ==
  ASSUME NEW s \in Seq(Timers!Handler), NEW h \in Timers!Handler, NEW e
  PROVE  At(Append(s, h), e) = IF Owning(h, e) THEN At(s, e) \cup {Len(s) + 1} ELSE At(s, e)
<1>1. Append(s, h) \in Seq(Timers!Handler)
  BY SeqFacts
<1> DEFINE H == {x \in Timers!Handler : Owning(x, e)}
<1>2. At(s, e) = Spots(s, H) /\ At(Append(s, h), e) = Spots(Append(s, h), H)
  BY <1>1, AtSpots
<1>3. h \in H <=> Owning(h, e)
  OBVIOUS
<1> HIDE DEF H
<1>4. Spots(Append(s, h), H) = IF h \in H THEN Spots(s, H) \cup {Len(s) + 1} ELSE Spots(s, H)
  BY SpotsAppend
<1>5. QED
  BY <1>2, <1>3, <1>4

LEMMA AtTail ==
  ASSUME NEW s \in Seq(Timers!Handler), s # <<>>, NEW e
  PROVE  /\ At(s, e) = {} => At(Tail(s), e) = {}
         /\ Single(At(s, e)) /\ Owning(Head(s), e) => At(Tail(s), e) = {}
         /\ Single(At(s, e)) /\ ~Owning(Head(s), e) => Single(At(Tail(s), e))
<1>1. Tail(s) \in Seq(Timers!Handler) /\ Head(s) \in Timers!Handler
  BY SeqFacts
<1> DEFINE H == {h \in Timers!Handler : Owning(h, e)}
<1>2. At(s, e) = Spots(s, H) /\ At(Tail(s), e) = Spots(Tail(s), H)
  BY <1>1, AtSpots
<1>3. Head(s) \in H <=> Owning(Head(s), e)
  BY <1>1
<1> HIDE DEF H
<1>4. /\ Spots(s, H) = {} => Spots(Tail(s), H) = {}
      /\ Single(Spots(s, H)) /\ Head(s) \in H => Spots(Tail(s), H) = {}
      /\ Single(Spots(s, H)) /\ Head(s) \notin H => Single(Spots(Tail(s), H))
  BY SpotsTail
<1>5. QED
  BY <1>2, <1>3, <1>4

LEMMA AtConcat ==
  ASSUME NEW s \in Seq(Timers!Handler), NEW t \in Seq(Timers!Handler), NEW e
  PROVE  /\ At(t, e) = {} => At(s \o t, e) = At(s, e)
         /\ At(s, e) = {} /\ Single(At(t, e)) => Single(At(s \o t, e))
<1>1. s \o t \in Seq(Timers!Handler)
  BY ConcatProperties
<1> DEFINE H == {h \in Timers!Handler : Owning(h, e)}
<1>2. At(s, e) = Spots(s, H) /\ At(t, e) = Spots(t, H) /\ At(s \o t, e) = Spots(s \o t, H)
  BY <1>1, AtSpots
<1> HIDE DEF H
<1>3. /\ Spots(t, H) = {} => Spots(s \o t, H) = Spots(s, H)
      /\ Spots(s, H) = {} /\ Single(Spots(t, H)) => Single(Spots(s \o t, H))
  BY SpotsConcat
<1>4. QED
  BY <1>2, <1>3

(* steady_timer::cancel makes one handler ready for each timer.             *)
LEMMA AnyOrder ==
  ASSUME NEW S, IsFiniteSet(S)
  PROVE  LET f == Timers!SetToSeq(S) IN
         /\ Cardinality(S) \in Nat /\ f \in [1..Cardinality(S) -> S]
         /\ \A i, j \in 1..Cardinality(S) : f[i] = f[j] => i = j
         /\ \A x \in S : \E i \in 1..Cardinality(S) : f[i] = x
<1> DEFINE n == Cardinality(S)
           f == Timers!SetToSeq(S)
<1>1. n \in Nat /\ ExistsBijection(1..n, S)
  BY FS_CardinalityType
<1>2. \E g \in [1..n -> S] : IsInjective(g)
  BY <1>1 DEF ExistsBijection, Bijection, Injection
<1>3. f \in [1..n -> S] /\ IsInjective(f)
  BY <1>2, TimersCount DEF Timers!SetToSeq, Timers!IsInjective, IsInjective
<1>4. f \in Injection(1..n, S)
  BY <1>3 DEF Injection
<1>5. IsFiniteSet(1..n) /\ Cardinality(1..n) = n
  BY <1>1, FS_Interval
<1>6. f \in Surjection(1..n, S)
  BY <1>4, <1>5, FS_Injection
<1>7. QED
  BY <1>1, <1>3, <1>6 DEF Surjection, IsInjective

LEMMA AbortedFacts ==
  ASSUME NEW S \in SUBSET Timers!Ids, MaxEvents \in Nat
  PROVE  /\ Timers!Aborted(S) \in Seq(Timers!Handler)
         /\ \A i \in 1..Len(Timers!Aborted(S)) : /\ Timers!Aborted(S)[i].kind = "aborted"
                                                 /\ Timers!Aborted(S)[i].id \in S
         /\ \A e : e \notin S => At(Timers!Aborted(S), e) = {}
         /\ \A e \in S : Single(At(Timers!Aborted(S), e))
<1> DEFINE n == Cardinality(S)
           f == Timers!SetToSeq(S)
           s == Timers!Aborted(S)
<1>0. IsFiniteSet(Timers!Ids)
  BY FS_Interval DEF Timers!Ids
<1>1. IsFiniteSet(S)
  BY <1>0, FS_Subset
<1>2. /\ n \in Nat /\ f \in [1..n -> S]
      /\ \A i, j \in 1..n : f[i] = f[j] => i = j
      /\ \A x \in S : \E i \in 1..n : f[i] = x
  BY <1>1, AnyOrder
<1>3. s = [i \in 1..n |-> [kind |-> "aborted", id |-> f[i]]]
  BY TimersCount DEF Timers!Aborted
<1> HIDE DEF s, f, n
<1>4. \A i \in 1..n : [kind |-> "aborted", id |-> f[i]] \in Timers!Handler
  BY <1>2 DEF Timers!Handler
<1>5. s \in Seq(Timers!Handler) /\ Len(s) = n
  BY <1>2, <1>3, <1>4, IsASeq, LenProperties
<1>6. \A i \in 1..n : s[i].kind = "aborted" /\ s[i].id = f[i] /\ f[i] \in S
  BY <1>2, <1>3
<1>7. \A e : At(s, e) = {i \in 1..n : f[i] = e}
  BY <1>5, <1>6 DEF At, Owning
<1>8. ASSUME NEW e \in S PROVE Single(At(s, e))
  <2>1. PICK i \in 1..n : f[i] = e
    BY <1>2
  <2>2. At(s, e) = {i}
    BY <1>2, <1>7, <2>1
  <2>3. QED
    BY <2>2 DEF Single
<1>9. \A e : e \notin S => At(s, e) = {}
  BY <1>2, <1>7
<1>10. QED
  BY <1>5, <1>6, <1>8, <1>9 DEF s

-----------------------------------------------------------------------------
(* What makes the scheduler's invariant inductive.  A task the scheduler    *)
(* holds is in one handler, in an armed timer or about to be added, and in  *)
(* one of them only; ids not given out yet are in nothing; and a task whose *)
(* timer a stop cancelled is in a handler that will delete it.              *)
Owner(e) ==
  \/ At(ops, e) = {} /\ eventIdTimerMap[e] = "armed" /\ adding # e
  \/ At(ops, e) = {} /\ eventIdTimerMap[e] # "armed" /\ adding = e
  \/ Single(At(ops, e)) /\ eventIdTimerMap[e] # "armed" /\ adding # e
NoOwner(e) == At(ops, e) = {} /\ eventIdTimerMap[e] # "armed" /\ adding # e

Owned == \A e \in Timers!Ids : IF task[e] = "held" THEN Owner(e) ELSE NoOwner(e)
Fresh == \A e \in Timers!Ids : e > lastEventId => task[e] = "none"
Known == \A i \in 1..Len(ops) : ops[i].kind # "shutdown" => ops[i].id <= lastEventId
Cancelled ==
  \A e \in stopped :
    \/ task[e] = "deleted"
    \/ task[e] = "held" /\ \E i \in 1..Len(ops) : ops[i].kind = "aborted" /\ ops[i].id = e

SchedulerIInv ==
  Timers!TypeOK /\ Owned /\ Fresh /\ Known /\ Timers!StopAfterInsert /\ Cancelled

LEMMA Counted ==
  ASSUME SchedulerIInv
  PROVE  Timers!SchedulerInv
<1>1. Timers!OneOwner
  <2> SUFFICES ASSUME NEW e \in Timers!Ids
               PROVE  Timers!Holders(e) = IF task[e] = "held" THEN 1 ELSE 0
    BY DEF Timers!OneOwner
  <2>1. At(ops, e) = {i \in 1..Len(ops) : ops[i].kind \in {"insert", "fired", "aborted"}
                                          /\ ops[i].id = e}
    BY DEF At, Owning
  <2>2. At(ops, e) = {} => Cardinality(At(ops, e)) = 0
    BY FS_EmptySet
  <2>3. Single(At(ops, e)) => Cardinality(At(ops, e)) = 1
    BY FS_Singleton DEF Single
  <2>4. IF task[e] = "held" THEN Owner(e) ELSE NoOwner(e)
    BY DEF SchedulerIInv, Owned
  <2>5. Timers!Holders(e) = Cardinality(At(ops, e))
                     + (IF eventIdTimerMap[e] = "armed" THEN 1 ELSE 0)
                     + (IF adding = e THEN 1 ELSE 0)
    BY <2>1, TimersCount DEF Timers!Holders
  <2>6. QED
    BY <2>2, <2>3, <2>4, <2>5 DEF Owner, NoOwner
<1>2. Timers!StoppedIsDropped
  BY DEF SchedulerIInv, Cancelled, Timers!StoppedIsDropped
<1>3. QED
  BY <1>1, <1>2 DEF SchedulerIInv, Timers!SchedulerInv

LEMMA SchedulerInitially ==
  ASSUME MaxEvents \in Nat, Timers!Init
  PROVE  SchedulerIInv
<1> USE DEF Timers!Init
<1>1. \A e : At(ops, e) = {}
  BY SeqFacts DEF At
<1>2. Timers!TypeOK
  <2>1. ops \in Seq(Timers!Handler)
    BY SeqFacts
  <2>2. lastEventId \in 0..MaxEvents /\ stopped \subseteq Timers!Ids
    OBVIOUS
  <2>3. /\ eventIdTimerMap \in [Timers!Ids -> {"absent", "armed", "completed"}]
        /\ task \in [Timers!Ids -> {"none", "held", "queued", "run", "deleted"}]
    OBVIOUS
  <2>4. adding \in Timers!Ids \cup {0} /\ io \in {"running", "stopping", "ended"}
    OBVIOUS
  <2>5. terminated \in BOOLEAN /\ dispatcherOpen \in BOOLEAN
    OBVIOUS
  <2> HIDE DEF Timers!Init
  <2>6. QED
    BY <2>1, <2>2, <2>3, <2>4, <2>5 DEF Timers!TypeOK
<1>3. Owned /\ Fresh /\ Cancelled
  BY <1>1 DEF Owned, NoOwner, Fresh, Cancelled, Timers!Ids
<1>4. Known /\ Timers!StopAfterInsert
  BY SeqFacts DEF Known, Timers!StopAfterInsert
<1>5. QED
  BY <1>2, <1>3, <1>4 DEF SchedulerIInv

(* A handler is put at the end of the queue.                                *)
LEMMA PostedKeeps ==
  ASSUME SchedulerIInv, MaxEvents \in Nat, NEW h \in Timers!Handler, ops' = Append(ops, h),
         lastEventId' \in {lastEventId, lastEventId + 1},
         h.kind # "shutdown" => h.id <= lastEventId',
         h.kind = "insert" => h.id > lastEventId
  PROVE  /\ ops' \in Seq(Timers!Handler) /\ Known' /\ Timers!StopAfterInsert'
         /\ \A i \in 1..Len(ops) : i \in 1..Len(ops') /\ ops'[i] = ops[i]
<1> USE DEF SchedulerIInv, Timers!TypeOK
<1>1. /\ ops' \in Seq(Timers!Handler) /\ Len(ops) \in Nat /\ Len(ops') = Len(ops) + 1
      /\ \A i \in 1..Len(ops) : ops'[i] = ops[i]
      /\ ops'[Len(ops) + 1] = h
  BY SeqFacts
<1>2. \A i \in 1..Len(ops') : i \in 1..Len(ops) \/ i = Len(ops) + 1
  BY <1>1
<1>3. \A i \in 1..Len(ops) : ops[i].kind # "shutdown" => ops[i].id \in Timers!Ids
  BY SeqFacts, HandlerKinds
<1>4. Known'
  BY <1>1, <1>2, <1>3 DEF Known, Timers!Ids
<1>5. Timers!StopAfterInsert'
  <2> SUFFICES ASSUME NEW i \in 1..Len(ops'), NEW j \in 1..Len(ops'), i < j,
                      ops'[i].kind = "stop", ops'[j].kind = "insert"
               PROVE  ops'[i].id # ops'[j].id
    BY DEF Timers!StopAfterInsert
  <2>1. i \in 1..Len(ops)
    BY <1>1, <1>2
  <2>2. CASE j \in 1..Len(ops)
    BY <1>1, <2>1, <2>2 DEF Timers!StopAfterInsert
  <2>3. CASE j = Len(ops) + 1
    <3>1. h.id > lastEventId /\ h.id \in Timers!Ids
      BY <1>1, <2>3, HandlerKinds
    <3>2. ops[i].id <= lastEventId /\ ops[i].id \in Timers!Ids
      BY <1>1, <1>3, <2>1 DEF Known
    <3>3. QED
      BY <1>1, <2>1, <2>3, <3>1, <3>2 DEF Timers!Ids
  <2>4. QED
    BY <1>2, <2>2, <2>3
<1>6. QED
  BY <1>1, <1>4, <1>5

(* The oldest handler is taken, and aborted ones may follow.                *)
LEMMA TakenKeeps ==
  ASSUME SchedulerIInv, MaxEvents \in Nat, ops # <<>>,
         NEW S \in SUBSET Timers!Ids, \A e \in S : task[e] = "held",
         ops' = Tail(ops) \o Timers!Aborted(S), lastEventId' = lastEventId
  PROVE  /\ ops' \in Seq(Timers!Handler) /\ Known' /\ Timers!StopAfterInsert'
         /\ \A i \in 1..Len(ops) :
              \/ ops[i] = Head(ops)
              \/ \E j \in 1..Len(ops') : ops'[j] = ops[i]
         /\ \A i \in 1..Len(ops') :
              \/ \E j \in 1..Len(ops) : ops'[i] = ops[j]
              \/ ops'[i].kind = "aborted" /\ ops'[i].id \in S
<1> USE DEF SchedulerIInv, Timers!TypeOK
<1> DEFINE t == Tail(ops)
           a == Timers!Aborted(S)
<1>1. /\ t \in Seq(Timers!Handler) /\ Len(ops) \in Nat \ {0} /\ Len(t) = Len(ops) - 1
      /\ Head(ops) = ops[1]
      /\ \A i \in 1..Len(t) : t[i] = ops[i + 1]
  BY SeqFacts
<1>2. /\ a \in Seq(Timers!Handler) /\ Len(a) \in Nat
      /\ \A i \in 1..Len(a) : a[i].kind = "aborted" /\ a[i].id \in S
  BY AbortedFacts, SeqFacts
<1> HIDE DEF t, a
<1>3. /\ ops' \in Seq(Timers!Handler) /\ Len(ops') = Len(t) + Len(a)
      /\ \A i \in 1..Len(t) + Len(a) : ops'[i] = IF i <= Len(t) THEN t[i] ELSE a[i - Len(t)]
  BY <1>1, <1>2, ConcatProperties DEF t, a
<1>4. ASSUME NEW i \in 1..Len(ops')
      PROVE  \/ i + 1 \in 1..Len(ops) /\ i <= Len(t) /\ ops'[i] = ops[i + 1]
             \/ i > Len(t) /\ ops'[i].kind = "aborted" /\ ops'[i].id \in S
  BY <1>1, <1>2, <1>3
<1>5. \A e \in S : e <= lastEventId
  BY DEF Fresh, Timers!Ids
<1>6. Known'
  BY <1>4, <1>5 DEF Known
<1>7. Timers!StopAfterInsert'
  <2> SUFFICES ASSUME NEW i \in 1..Len(ops'), NEW j \in 1..Len(ops'), i < j,
                      ops'[i].kind = "stop", ops'[j].kind = "insert"
               PROVE  ops'[i].id # ops'[j].id
    BY DEF Timers!StopAfterInsert
  <2>1. /\ i + 1 \in 1..Len(ops) /\ ops'[i] = ops[i + 1]
        /\ j + 1 \in 1..Len(ops) /\ ops'[j] = ops[j + 1]
    BY <1>4
  <2>2. i + 1 < j + 1
    BY <1>3
  <2>3. QED
    BY <2>1, <2>2 DEF Timers!StopAfterInsert
<1>8. ASSUME NEW i \in 1..Len(ops), ops[i] # Head(ops)
      PROVE  \E j \in 1..Len(ops') : ops'[j] = ops[i]
  <2>1. i - 1 \in 1..Len(t) /\ t[i - 1] = ops[i]
    BY <1>1, <1>8
  <2>2. i - 1 \in 1..Len(ops') /\ ops'[i - 1] = t[i - 1]
    BY <1>1, <1>2, <1>3, <2>1
  <2>3. QED
    BY <2>1, <2>2
<1>9. QED
  BY <1>3, <1>4, <1>6, <1>7, <1>8

LEMMA NoneAborted ==
  ASSUME MaxEvents \in Nat, NEW s \in Seq(Timers!Handler)
  PROVE  s \o Timers!Aborted({}) = s
<1>1. Timers!Aborted({}) \in Seq(Timers!Handler)
  BY AbortedFacts
<1>2. Len(Timers!Aborted({})) = 0
  BY <1>1, SeqFacts, AbortedFacts
<1>3. Timers!Aborted({}) = <<>>
  BY <1>1, <1>2, SeqFacts
<1>4. QED
  BY <1>3, ConcatEmptySeq

LEMMA HeadOwns ==
  ASSUME SchedulerIInv, ops # <<>>
  PROVE  /\ Head(ops) \in Timers!Handler /\ Tail(ops) \in Seq(Timers!Handler)
         /\ \A e : Owning(Head(ops), e) => 1 \in At(ops, e)
         /\ Head(ops) = ops[1] /\ 1 \in 1..Len(ops)
<1>1. ops \in Seq(Timers!Handler) /\ Len(ops) \in Nat \ {0} /\ Head(ops) = ops[1]
  BY SeqFacts DEF SchedulerIInv, Timers!TypeOK
<1>2. QED
  BY <1>1, SeqFacts DEF At

(* Of the handlers of one task there is one.                                *)
LEMMA OnlyHandler ==
  ASSUME SchedulerIInv, NEW e \in Timers!Ids, NEW i \in 1..Len(ops), Owning(ops[i], e)
  PROVE  /\ task[e] = "held" /\ At(ops, e) = {i} /\ Single(At(ops, e))
         /\ eventIdTimerMap[e] # "armed" /\ adding # e
BY DEF SchedulerIInv, Owned, Owner, NoOwner, At, Single

LEMMA CancelKeeps ==
  ASSUME SchedulerIInv, MaxEvents \in Nat, ops # <<>>,
         Head(ops).kind \in {"stop", "shutdown"},
         NEW S \in SUBSET Timers!Ids, \A e \in S : eventIdTimerMap[e] = "armed",
         eventIdTimerMap' = [e \in Timers!Ids |-> IF e \in S THEN "completed"
                                           ELSE eventIdTimerMap[e]],
         ops' = Tail(ops) \o Timers!Aborted(S), stopped' \in {stopped, stopped \cup S},
         UNCHANGED <<terminated, lastEventId, adding, task, dispatcherOpen>>,
         io' \in {"running", "stopping", "ended"}
  PROVE  SchedulerIInv'
<1> USE DEF SchedulerIInv
<1>1. \A e \in S : task[e] = "held" /\ At(ops, e) = {} /\ adding # e
  BY DEF Owned, Owner, NoOwner
<1>2. /\ ops' \in Seq(Timers!Handler) /\ Known' /\ Timers!StopAfterInsert'
      /\ \A i \in 1..Len(ops) :
           \/ ops[i] = Head(ops)
           \/ \E j \in 1..Len(ops') : ops'[j] = ops[i]
      /\ \A i \in 1..Len(ops') :
           \/ \E j \in 1..Len(ops) : ops'[i] = ops[j]
           \/ ops'[i].kind = "aborted" /\ ops'[i].id \in S
  BY <1>1, TakenKeeps
<1>3. Tail(ops) \in Seq(Timers!Handler) /\ \A e : ~Owning(Head(ops), e)
  BY HeadOwns DEF Owning
<1>4. ops \in Seq(Timers!Handler)
  BY DEF Timers!TypeOK
<1>5. ASSUME NEW e \in S
      PROVE  Single(At(ops', e)) /\ eventIdTimerMap'[e] = "completed"
  <2>1. At(Tail(ops), e) = {}
    BY <1>1, <1>4, AtTail
  <2>2. Single(At(Timers!Aborted(S), e)) /\ Timers!Aborted(S) \in Seq(Timers!Handler)
    BY AbortedFacts
  <2>3. QED
    BY <1>3, <2>1, <2>2, AtConcat
<1>6. ASSUME NEW e \in Timers!Ids \ S
      PROVE  /\ At(ops, e) = {} => At(ops', e) = {}
             /\ Single(At(ops, e)) => Single(At(ops', e))
             /\ eventIdTimerMap'[e] = eventIdTimerMap[e]
  <2>1. At(Timers!Aborted(S), e) = {} /\ Timers!Aborted(S) \in Seq(Timers!Handler)
    BY AbortedFacts
  <2>2. At(ops', e) = At(Tail(ops), e)
    BY <1>3, <2>1, AtConcat
  <2>3. QED
    BY <1>3, <1>4, <2>2, AtTail
<1>7. Owned'
  BY <1>1, <1>5, <1>6 DEF Owned, Owner, NoOwner
<1>8. Timers!TypeOK'
  BY <1>2 DEF Timers!TypeOK
<1>9. Cancelled'
  <2>1. ASSUME NEW e \in stopped, task[e] # "deleted"
        PROVE  task[e] = "held" /\ \E j \in 1..Len(ops') : ops'[j].kind = "aborted"
                 /\ ops'[j].id = e
    <3>1. PICK i \in 1..Len(ops) : ops[i].kind = "aborted" /\ ops[i].id = e
      BY <2>1 DEF Cancelled
    <3>2. ops[i] # Head(ops)
      BY <3>1
    <3>3. \E j \in 1..Len(ops') : ops'[j] = ops[i]
      BY <1>2, <3>2
    <3>4. task[e] = "held"
      BY <2>1 DEF Cancelled
    <3>5. QED
      BY <3>1, <3>3, <3>4
  <2>2. ASSUME NEW e \in S
        PROVE  \E j \in 1..Len(ops') : ops'[j].kind = "aborted" /\ ops'[j].id = e
    <3>1. PICK j \in 1..Len(ops') : Owning(ops'[j], e)
      BY <1>5 DEF Single, At
    <3>2. \A k \in 1..Len(ops) : ~Owning(ops[k], e)
      BY <1>1 DEF At
    <3>3. ops'[j].kind = "aborted" /\ ops'[j].id \in S
      BY <1>2, <3>1, <3>2
    <3>4. ops'[j].id = e
      BY <3>1 DEF Owning
    <3>5. QED
      BY <3>3, <3>4
  <2>3. task' = task /\ stopped' \subseteq stopped \cup S
    OBVIOUS
  <2>4. ASSUME NEW e \in stopped'
        PROVE  \/ task'[e] = "deleted"
               \/ /\ task'[e] = "held"
                  /\ \E i \in 1..Len(ops') : ops'[i].kind = "aborted" /\ ops'[i].id = e
    <3>1. CASE e \in S
      <4>1. task'[e] = "held"
        BY <1>1, <2>3, <3>1
      <4>2. QED
        BY <2>2, <3>1, <4>1
    <3>2. CASE e \in stopped
      <4>1. \/ task[e] = "deleted"
            \/ task'[e] = "held" /\ task[e] = "held"
        BY <2>3, <3>2 DEF Cancelled
      <4>2. QED
        BY <2>1, <2>3, <3>2, <4>1
    <3>3. QED
      BY <2>3, <3>1, <3>2
  <2>5. QED
    BY <2>4 DEF Cancelled
<1>10. Fresh'
  BY DEF Fresh
<1>11. QED
  BY <1>2, <1>7, <1>8, <1>9, <1>10

(* A handler that owns a task is taken.                                     *)
LEMMA OwnerTaken ==
  ASSUME SchedulerIInv, MaxEvents \in Nat, ops # <<>>, Head(ops).kind # "shutdown",
         Head(ops).kind # "stop", ops' = Tail(ops), lastEventId' = lastEventId
  PROVE  LET e == Head(ops).id IN
         /\ e \in Timers!Ids /\ task[e] = "held" /\ At(ops, e) = {1} /\ adding # e
         /\ eventIdTimerMap[e] # "armed" /\ Owning(Head(ops), e)
         /\ At(ops', e) = {}
         /\ \A x \in Timers!Ids \ {e} : /\ At(ops, x) = {} => At(ops', x) = {}
                                        /\ Single(At(ops, x)) => Single(At(ops', x))
         /\ e \in stopped => Head(ops).kind = "aborted"
         /\ \A x \in stopped \ {e} : task[x] = "held" =>
              \E j \in 1..Len(ops') : ops'[j].kind = "aborted" /\ ops'[j].id = x
         /\ ops' \in Seq(Timers!Handler) /\ Known' /\ Timers!StopAfterInsert'
<1> DEFINE e == Head(ops).id
<1>1. /\ Head(ops) \in Timers!Handler /\ Tail(ops) \in Seq(Timers!Handler)
           /\ ops \in Seq(Timers!Handler)
      /\ Head(ops) = ops[1] /\ 1 \in 1..Len(ops)
  BY HeadOwns DEF SchedulerIInv, Timers!TypeOK
<1>2. e \in Timers!Ids /\ Owning(Head(ops), e)
  BY <1>1, HandlerKinds DEF Owning
<1> HIDE DEF e
<1>3. /\ task[e] = "held" /\ At(ops, e) = {1} /\ Single(At(ops, e))
      /\ eventIdTimerMap[e] # "armed" /\ adding # e
  BY <1>1, <1>2, OnlyHandler
<1>4. At(ops', e) = {}
  BY <1>1, <1>2, <1>3, AtTail
<1>5. ASSUME NEW x \in Timers!Ids \ {e}
      PROVE  /\ At(ops, x) = {} => At(ops', x) = {}
             /\ Single(At(ops, x)) => Single(At(ops', x))
  <2>1. ~Owning(Head(ops), x)
    BY DEF Owning, e
  <2>2. QED
    BY <1>1, <2>1, AtTail
<1>6. ops' = Tail(ops) \o Timers!Aborted({})
  BY <1>1, NoneAborted
<1>7. /\ ops' \in Seq(Timers!Handler) /\ Known' /\ Timers!StopAfterInsert'
      /\ \A i \in 1..Len(ops) :
              \/ ops[i] = Head(ops)
              \/ \E j \in 1..Len(ops') : ops'[j] = ops[i]
  BY <1>6, TakenKeeps
<1>8. ASSUME e \in stopped PROVE Head(ops).kind = "aborted"
  <2>1. PICK i \in 1..Len(ops) : ops[i].kind = "aborted" /\ ops[i].id = e
    BY <1>3, <1>8 DEF SchedulerIInv, Cancelled
  <2>2. i \in At(ops, e)
    BY <2>1 DEF At, Owning
  <2>3. QED
    BY <1>1, <1>3, <2>1, <2>2
<1>9. ASSUME NEW x \in stopped \ {e}, task[x] = "held"
      PROVE  \E j \in 1..Len(ops') : ops'[j].kind = "aborted" /\ ops'[j].id = x
  <2>1. PICK i \in 1..Len(ops) : ops[i].kind = "aborted" /\ ops[i].id = x
    BY <1>9 DEF SchedulerIInv, Cancelled
  <2>2. ops[i] # Head(ops)
    BY <2>1 DEF e
  <2>3. QED
    BY <1>7, <2>1, <2>2
<1>10. QED
  BY <1>2, <1>3, <1>4, <1>5, <1>7, <1>8, <1>9 DEF e

LEMMA IoStepKeeps ==
  ASSUME SchedulerIInv, MaxEvents \in Nat, Timers!IoStep
  PROVE  SchedulerIInv'
<1> USE DEF SchedulerIInv
<1> DEFINE e == Head(ops).id
<1>1. ASSUME Timers!RunInsert PROVE SchedulerIInv'
  <2>1. /\ ops # <<>> /\ Head(ops).kind = "insert" /\ ops' = Tail(ops)
        /\ eventIdTimerMap' = [eventIdTimerMap EXCEPT ![e] = "armed"]
        /\ UNCHANGED <<terminated, lastEventId, adding, io, task, dispatcherOpen, stopped>>
    BY <1>1 DEF Timers!RunInsert, Timers!Runs
  <2> HIDE DEF e
  <2>2. /\ e \in Timers!Ids /\ task[e] = "held" /\ adding # e
        /\ At(ops', e) = {}
        /\ \A x \in Timers!Ids \ {e} : /\ At(ops, x) = {} => At(ops', x) = {}
                                       /\ Single(At(ops, x)) => Single(At(ops', x))
        /\ e \notin stopped
        /\ \A x \in stopped \ {e} : task[x] = "held" =>
              \E j \in 1..Len(ops') : ops'[j].kind = "aborted" /\ ops'[j].id = x
        /\ ops' \in Seq(Timers!Handler) /\ Known' /\ Timers!StopAfterInsert'
    BY <2>1, OwnerTaken DEF e
  <2>3. /\ eventIdTimerMap'[e] = "armed"
        /\ \A x \in Timers!Ids \ {e} : eventIdTimerMap'[x] = eventIdTimerMap[x]
    BY <2>1, <2>2 DEF Timers!TypeOK
  <2>4. Owned'
    <3> SUFFICES ASSUME NEW x \in Timers!Ids
                 PROVE  (IF task[x] = "held" THEN Owner(x) ELSE NoOwner(x))'
      BY DEF Owned
    <3>1. IF task[x] = "held" THEN Owner(x) ELSE NoOwner(x)
      BY DEF Owned
    <3>2. CASE x = e
      BY <2>1, <2>2, <2>3, <3>2 DEF Owner
    <3>3. CASE x # e
      <4>1. /\ eventIdTimerMap'[x] = eventIdTimerMap[x] /\ task'[x] = task[x]
            /\ (adding' = x) = (adding = x)
        BY <2>1, <2>2, <2>3, <3>3
      <4>2. /\ At(ops, x) = {} => At(ops', x) = {}
            /\ Single(At(ops, x)) => Single(At(ops', x))
        BY <2>2, <3>3
      <4>3. QED
        BY <3>1, <4>1, <4>2 DEF Owner, NoOwner
    <3>4. QED
      BY <3>2, <3>3
  <2>5. Cancelled' /\ Fresh' /\ Timers!TypeOK'
    BY <2>1, <2>2 DEF Cancelled, Fresh, Timers!TypeOK
  <2>6. QED
    BY <2>2, <2>4, <2>5
<1>2. ASSUME Timers!RunStop PROVE SchedulerIInv'
  <2> DEFINE S == Timers!Armed({Head(ops).id})
  <2>1. /\ ops # <<>> /\ Head(ops).kind = "stop"
        /\ eventIdTimerMap' = [x \in Timers!Ids |-> IF x \in S THEN "completed"
                                             ELSE eventIdTimerMap[x]]
        /\ ops' = Tail(ops) \o Timers!Aborted(S) /\ stopped' = stopped \cup S
        /\ UNCHANGED <<terminated, lastEventId, adding, io, task, dispatcherOpen>>
    BY <1>2 DEF Timers!RunStop, Timers!Runs
  <2>2. e \in Timers!Ids
    BY <2>1, HeadOwns, HandlerKinds
  <2>3. S \in SUBSET Timers!Ids /\ \A x \in S : eventIdTimerMap[x] = "armed"
    BY <2>2 DEF Timers!Armed
  <2>4. io' \in {"running", "stopping", "ended"}
    BY <2>1 DEF Timers!TypeOK
  <2> HIDE DEF S
  <2>5. QED
    BY <2>1, <2>3, <2>4, CancelKeeps
<1>3. ASSUME Timers!RunShutdown PROVE SchedulerIInv'
  <2> DEFINE S == Timers!Armed(Timers!Ids)
  <2>1. /\ ops # <<>> /\ Head(ops).kind = "shutdown"
        /\ eventIdTimerMap' = [x \in Timers!Ids |-> IF x \in S THEN "completed"
                                             ELSE eventIdTimerMap[x]]
        /\ ops' = Tail(ops) \o Timers!Aborted(S) /\ stopped' = stopped
        /\ UNCHANGED <<terminated, lastEventId, adding, task, dispatcherOpen>>
        /\ io' \in {"running", "stopping", "ended"}
    BY <1>3 DEF Timers!RunShutdown, Timers!Runs, Timers!AfterStop
  <2>2. S \in SUBSET Timers!Ids /\ \A x \in S : eventIdTimerMap[x] = "armed"
    BY DEF Timers!Armed
  <2> HIDE DEF S
  <2>3. QED
    BY <2>1, <2>2, CancelKeeps
<1>4. ASSUME Timers!RunCompletion PROVE SchedulerIInv'
  <2>1. /\ ops # <<>> /\ Head(ops).kind \in {"fired", "aborted"} /\ ops' = Tail(ops)
        /\ adding = 0
        /\ eventIdTimerMap' = [eventIdTimerMap EXCEPT ![e] = "absent"]
        /\ \/ task' = [task EXCEPT ![e] = "deleted"] /\ adding' = adding
           \/ adding' = e /\ task' = task /\ Head(ops).kind # "aborted"
        /\ UNCHANGED <<terminated, lastEventId, io, dispatcherOpen, stopped>>
    BY <1>4 DEF Timers!RunCompletion, Timers!Runs, Timers!IsAborted
  <2> HIDE DEF e
  <2>2. /\ e \in Timers!Ids /\ task[e] = "held" /\ adding # e
        /\ At(ops', e) = {}
        /\ \A x \in Timers!Ids \ {e} : /\ At(ops, x) = {} => At(ops', x) = {}
                                       /\ Single(At(ops, x)) => Single(At(ops', x))
        /\ e \in stopped => Head(ops).kind = "aborted"
        /\ \A x \in stopped \ {e} : task[x] = "held" =>
              \E j \in 1..Len(ops') : ops'[j].kind = "aborted" /\ ops'[j].id = x
        /\ ops' \in Seq(Timers!Handler) /\ Known' /\ Timers!StopAfterInsert'
    BY <2>1, OwnerTaken DEF e
  <2>3. /\ eventIdTimerMap'[e] = "absent"
        /\ \A x \in Timers!Ids \ {e} : eventIdTimerMap'[x] = eventIdTimerMap[x]
             /\ task'[x] = task[x]
        /\ \/ task'[e] = "deleted" /\ adding' = 0
           \/ task'[e] = "held" /\ adding' = e /\ e \notin stopped
        /\ adding' \in {0, e} /\ 0 \notin Timers!Ids
    <3>1. eventIdTimerMap \in [Timers!Ids -> {"absent", "armed", "completed"}]
          /\ task \in [Timers!Ids -> {"none", "held", "queued", "run", "deleted"}]
      BY DEF Timers!TypeOK
    <3>2. 0 \notin Timers!Ids
      BY DEF Timers!Ids
    <3>3. QED
      BY <2>1, <2>2, <3>1, <3>2
  <2>4. Owned'
    <3> SUFFICES ASSUME NEW x \in Timers!Ids
                 PROVE  (IF task[x] = "held" THEN Owner(x) ELSE NoOwner(x))'
      BY DEF Owned
    <3>1. IF task[x] = "held" THEN Owner(x) ELSE NoOwner(x)
      BY DEF Owned
    <3>2. CASE x = e
      BY <2>2, <2>3, <3>2 DEF Owner, NoOwner
    <3>3. CASE x # e
      <4>1. /\ eventIdTimerMap'[x] = eventIdTimerMap[x] /\ task'[x] = task[x]
            /\ (adding' = x) = (adding = x)
        BY <2>1, <2>2, <2>3, <3>3
      <4>2. /\ At(ops, x) = {} => At(ops', x) = {}
            /\ Single(At(ops, x)) => Single(At(ops', x))
        BY <2>2, <3>3
      <4>3. QED
        BY <3>1, <4>1, <4>2 DEF Owner, NoOwner
    <3>4. QED
      BY <3>2, <3>3
  <2>5. Cancelled'
    BY <2>1, <2>2, <2>3 DEF Cancelled, Timers!TypeOK
  <2>6. Fresh' /\ Timers!TypeOK'
    BY <2>1, <2>2, <2>3 DEF Fresh, Timers!TypeOK
  <2>7. QED
    BY <2>2, <2>4, <2>5, <2>6
<1>5. ASSUME Timers!AddTask PROVE SchedulerIInv'
  <2> DEFINE a == adding
  <2>1. /\ a \in Timers!Ids /\ adding' = 0
        /\ task' = [task EXCEPT ![a] = IF dispatcherOpen THEN "queued" ELSE "deleted"]
        /\ UNCHANGED <<terminated, lastEventId, ops, eventIdTimerMap, io,
                       dispatcherOpen, stopped>>
    BY <1>5 DEF Timers!AddTask, Timers!TypeOK
  <2>2. task[a] = "held" /\ At(ops, a) = {} /\ eventIdTimerMap[a] # "armed"
    BY <2>1 DEF Owned, Owner, NoOwner
  <2>3. a \notin stopped
    BY <2>2 DEF Cancelled, At, Owning
  <2>4. /\ task'[a] \in {"queued", "deleted"}
        /\ \A x \in Timers!Ids \ {a} : task'[x] = task[x] /\ adding # x
        /\ 0 \notin Timers!Ids
    BY <2>1 DEF Timers!TypeOK, Timers!Ids
  <2> HIDE DEF a
  <2>5. Owned'
    BY <2>1, <2>2, <2>4 DEF Owned, Owner, NoOwner
  <2>6. Cancelled' /\ Fresh' /\ Known' /\ Timers!StopAfterInsert' /\ Timers!TypeOK'
    BY <2>1, <2>2, <2>3, <2>4 DEF Cancelled, Fresh, Known, Timers!StopAfterInsert, Timers!TypeOK
  <2>7. QED
    BY <2>5, <2>6
<1>6. ASSUME Timers!Return PROVE SchedulerIInv'
  BY <1>6 DEF Timers!Return, Timers!TypeOK, Owned, Owner, NoOwner, Fresh, Known,
              Timers!StopAfterInsert, Cancelled
<1>7. QED
  BY <1>1, <1>2, <1>3, <1>4, <1>5, <1>6 DEF Timers!IoStep

LEMMA CallsKeep ==
  ASSUME SchedulerIInv, MaxEvents \in Nat,
         \/ Timers!AddEvent \/ Timers!Shutdown \/ Timers!CloseDispatcher
         \/ \E e \in Timers!Ids : Timers!StopEvent(e) \/ Timers!Expire(e) \/ Timers!RunTask(e)
  PROVE  SchedulerIInv'
<1> USE DEF SchedulerIInv
<1>0. ops \in Seq(Timers!Handler) /\ lastEventId \in 0..MaxEvents /\ 0 \notin Timers!Ids
  BY DEF Timers!TypeOK, Timers!Ids
<1>1. ASSUME Timers!AddEvent PROVE SchedulerIInv'
  <2> DEFINE n == lastEventId + 1
             h == [kind |-> "insert", id |-> n]
  <2>1. /\ lastEventId < MaxEvents /\ lastEventId' = n
        /\ task' = [task EXCEPT ![n] = "held"] /\ ops' = Append(ops, h)
        /\ UNCHANGED <<terminated, eventIdTimerMap, adding, io, dispatcherOpen, stopped>>
    BY <1>1 DEF Timers!AddEvent, Timers!Posted, Timers!NextEventId
  <2>2. n \in Timers!Ids /\ h \in Timers!Handler
    BY <1>0, <2>1 DEF Timers!Ids, Timers!Handler
  <2>3. /\ ops' \in Seq(Timers!Handler) /\ Known' /\ Timers!StopAfterInsert'
        /\ \A i \in 1..Len(ops) : i \in 1..Len(ops') /\ ops'[i] = ops[i]
    BY <1>0, <2>1, <2>2, PostedKeeps
  <2>4. task[n] = "none" /\ n \notin stopped
    BY <1>0, <2>2 DEF Fresh, Cancelled
  <2>5. \A e : Owning(h, e) <=> e = n
    BY DEF Owning
  <2> HIDE DEF h
  <2>6. \A e : At(ops', e) = IF e = n THEN At(ops, e) \cup {Len(ops) + 1} ELSE At(ops, e)
    BY <1>0, <2>1, <2>2, <2>5, AtAppend
  <2>7. task'[n] = "held" /\ \A e \in Timers!Ids \ {n} : task'[e] = task[e]
    BY <2>1, <2>2 DEF Timers!TypeOK
  <2> HIDE DEF n
  <2>8. NoOwner(n) /\ Single(At(ops', n))
    BY <2>2, <2>4, <2>6 DEF Owned, NoOwner, Single
  <2>9. Owned'
    BY <2>1, <2>2, <2>6, <2>7, <2>8 DEF Owned, Owner, NoOwner
  <2>10. Timers!TypeOK' /\ Fresh'
    BY <1>0, <2>1, <2>2, <2>3, <2>7 DEF Timers!TypeOK, Fresh, n, Timers!Ids
  <2>11. Cancelled'
    BY <2>1, <2>3, <2>4, <2>7 DEF Cancelled, Timers!TypeOK
  <2>12. QED
    BY <2>3, <2>9, <2>10, <2>11
<1>2. ASSUME NEW h \in Timers!Handler, h.kind \in {"stop", "shutdown"}, ops' = Append(ops, h),
             h.kind # "shutdown" => h.id <= lastEventId, terminated' \in BOOLEAN,
             UNCHANGED <<lastEventId, eventIdTimerMap, adding, io, task,
                         dispatcherOpen, stopped>>
      PROVE  SchedulerIInv'
  <2>1. /\ ops' \in Seq(Timers!Handler) /\ Known' /\ Timers!StopAfterInsert'
        /\ \A i \in 1..Len(ops) : i \in 1..Len(ops') /\ ops'[i] = ops[i]
    BY <1>2, PostedKeeps
  <2>2. \A e : At(ops', e) = At(ops, e)
    BY <1>0, <1>2, AtAppend DEF Owning
  <2>3. Owned'
    BY <1>2, <2>2 DEF Owned, Owner, NoOwner
  <2>4. Timers!TypeOK' /\ Fresh' /\ Cancelled'
    BY <1>2, <2>1 DEF Timers!TypeOK, Fresh, Cancelled
  <2>5. QED
    BY <2>1, <2>3, <2>4
<1>3. ASSUME Timers!Shutdown PROVE SchedulerIInv'
  <2>1. [kind |-> "shutdown"] \in Timers!Handler
    BY DEF Timers!Handler
  <2>2. QED
    BY <1>2, <1>3, <2>1 DEF Timers!Shutdown, Timers!Posted
<1>4. ASSUME NEW e \in Timers!Ids, Timers!StopEvent(e) PROVE SchedulerIInv'
  <2>1. [kind |-> "stop", id |-> e] \in Timers!Handler
    BY DEF Timers!Handler
  <2>2. terminated' \in BOOLEAN
    BY <1>4 DEF Timers!StopEvent, Timers!TypeOK
  <2>3. QED
    BY <1>2, <1>4, <2>1, <2>2 DEF Timers!StopEvent, Timers!PostedStop, Timers!Posted
<1>5. ASSUME NEW e \in Timers!Ids, Timers!Expire(e) PROVE SchedulerIInv'
  <2> DEFINE h == [kind |-> "fired", id |-> e]
  <2>1. /\ eventIdTimerMap[e] = "armed" /\ ops' = Append(ops, h)
        /\ eventIdTimerMap' = [eventIdTimerMap EXCEPT ![e] = "completed"]
        /\ UNCHANGED <<terminated, lastEventId, adding, io, task, dispatcherOpen, stopped>>
    BY <1>5 DEF Timers!Expire, Timers!Posted
  <2>2. h \in Timers!Handler
    BY DEF Timers!Handler
  <2>3. task[e] = "held" /\ At(ops, e) = {} /\ adding # e
    BY <2>1 DEF Owned, Owner, NoOwner
  <2>4. e <= lastEventId
    BY <1>0, <2>3 DEF Fresh, Timers!Ids
  <2>5. /\ ops' \in Seq(Timers!Handler) /\ Known' /\ Timers!StopAfterInsert'
        /\ \A i \in 1..Len(ops) : i \in 1..Len(ops') /\ ops'[i] = ops[i]
    BY <2>1, <2>2, <2>4, PostedKeeps
  <2>6. \A x : Owning(h, x) <=> x = e
    BY DEF Owning
  <2> HIDE DEF h
  <2>7. \A x : At(ops', x) = IF x = e THEN At(ops, x) \cup {Len(ops) + 1} ELSE At(ops, x)
    BY <1>0, <2>1, <2>2, <2>6, AtAppend
  <2>8. /\ Single(At(ops', e)) /\ eventIdTimerMap'[e] = "completed"
        /\ \A x \in Timers!Ids \ {e} : eventIdTimerMap'[x] = eventIdTimerMap[x]
    BY <2>1, <2>3, <2>7 DEF Single, Timers!TypeOK
  <2>9. Owned'
    BY <2>1, <2>3, <2>7, <2>8 DEF Owned, Owner, NoOwner
  <2>10. Timers!TypeOK' /\ Fresh' /\ Cancelled'
    BY <2>1, <2>5 DEF Timers!TypeOK, Fresh, Cancelled
  <2>11. QED
    BY <2>5, <2>9, <2>10
<1>6. ASSUME NEW e \in Timers!Ids, Timers!RunTask(e) PROVE SchedulerIInv'
  <2>1. /\ task[e] = "queued" /\ task' = [task EXCEPT ![e] = "run"]
        /\ UNCHANGED <<terminated, lastEventId, ops, eventIdTimerMap, adding, io,
                       stopped, dispatcherOpen>>
    BY <1>6 DEF Timers!RunTask, Timers!schedVars
  <2>2. e \notin stopped /\ NoOwner(e) /\ e <= lastEventId
    BY <1>0, <2>1 DEF Cancelled, Owned, Fresh, Timers!Ids
  <2>3. task'[e] = "run" /\ \A x \in Timers!Ids \ {e} : task'[x] = task[x]
    BY <2>1 DEF Timers!TypeOK
  <2>4. Owned'
    BY <2>1, <2>2, <2>3 DEF Owned, Owner, NoOwner
  <2>5. Timers!TypeOK' /\ Fresh' /\ Cancelled' /\ Known' /\ Timers!StopAfterInsert'
    BY <1>0, <2>1, <2>2, <2>3 DEF Timers!TypeOK, Fresh, Cancelled, Known, Timers!StopAfterInsert,
       Timers!Ids
  <2>6. QED
    BY <2>4, <2>5
<1>7. ASSUME Timers!CloseDispatcher PROVE SchedulerIInv'
  <2>1. /\ dispatcherOpen' = FALSE
        /\ UNCHANGED <<terminated, lastEventId, ops, eventIdTimerMap, adding, io, task, stopped>>
    BY <1>7 DEF Timers!CloseDispatcher, Timers!schedVars
  <2>2. Timers!TypeOK'
    BY <2>1 DEF Timers!TypeOK
  <2>3. Owned'
    BY <2>1 DEF Owned, Owner, NoOwner
  <2>4. Fresh' /\ Known' /\ Timers!StopAfterInsert' /\ Cancelled'
    BY <2>1 DEF Fresh, Known, Timers!StopAfterInsert, Cancelled
  <2>5. QED
    BY <2>2, <2>3, <2>4
<1>8. QED
  BY <1>1, <1>3, <1>4, <1>5, <1>6, <1>7

LEMMA SchedulerStep ==
  ASSUME SchedulerIInv, MaxEvents \in Nat, [Timers!Next]_(Timers!vars)
  PROVE  SchedulerIInv'
<1>1. CASE UNCHANGED Timers!vars
  BY <1>1 DEF Timers!vars, Timers!schedVars, SchedulerIInv, Timers!TypeOK, Owned, Owner, NoOwner,
              Fresh, Known,
     Timers!StopAfterInsert, Cancelled
<1>2. QED
  BY <1>1, CallsKeep, IoStepKeeps DEF Timers!Next

-----------------------------------------------------------------------------
(* The table of scripts on top.  Whatever is on its way to being stopped    *)
(* has no entry left, unless the scheduler shuts down; and a timer that was *)
(* called or stopped is old and has no entry either.                        *)
NoEntry(e) == \A l \in Timers!Ids : timerEvents[l] # e
StopsErased ==
  \A i \in 1..Len(ops) :
    /\ ops[i].kind \in {"stop", "aborted"} => terminated \/ NoEntry(ops[i].id)
    /\ ops[i].kind = "shutdown" => terminated
Settled ==
  /\ lastEventTimerId <= lastEventId
  /\ \A l \in luaStopped \cup called : l <= lastEventTimerId /\ timerEvents[l] = 0
  /\ \A l \in Timers!Ids : timerEvents[l] # 0 => l <= lastEventTimerId

LuaIInv == SchedulerIInv /\ Timers!TimerTableInv /\ StopsErased /\ Settled

LEMMA LuaInitially ==
  ASSUME MaxEvents \in Nat, Timers!LuaInit
  PROVE  LuaIInv
<1>1. SchedulerIInv
  BY SchedulerInitially DEF Timers!LuaInit
<1>2. /\ ops = <<>> /\ lastEventId = 0 /\ lastEventTimerId = 0
      /\ timerEvents = [l \in Timers!Ids |-> 0] /\ bound = [e \in Timers!Ids |-> 0]
      /\ called = {} /\ luaStopped = {}
  BY DEF Timers!LuaInit, Timers!Init
<1>3. Timers!LuaTypeOK /\ Timers!EntriesHaveTasks /\ Timers!StopIsFinal /\ Settled
  BY <1>2 DEF Timers!LuaTypeOK, Timers!EntriesHaveTasks, Timers!StopIsFinal, Settled
<1>4. StopsErased
  BY <1>2, SeqFacts DEF StopsErased
<1>5. QED
  BY <1>1, <1>3, <1>4 DEF LuaIInv, Timers!TimerTableInv

(* Steps below the table.                                                   *)
LEMMA BelowKeeps ==
  ASSUME LuaIInv, MaxEvents \in Nat, Timers!Below, UNCHANGED Timers!luaVars
  PROVE  LuaIInv'
<1> USE DEF LuaIInv, Timers!TimerTableInv
<1>1. SchedulerIInv'
  BY CallsKeep, IoStepKeeps DEF Timers!Below
<1>2. /\ UNCHANGED <<lastEventTimerId, timerEvents, bound, called, luaStopped>>
      /\ lastEventId' = lastEventId
  BY DEF Timers!Below, Timers!luaVars, Timers!IoStep, Timers!Shutdown, Timers!CloseDispatcher,
         Timers!Expire, Timers!RunInsert, Timers!RunStop,
     Timers!RunCompletion, Timers!AddTask, Timers!RunShutdown, Timers!Return, Timers!schedVars
<1>3. Timers!LuaTypeOK' /\ Timers!StopIsFinal' /\ Settled'
  BY <1>2 DEF Timers!LuaTypeOK, Timers!StopIsFinal, Settled
<1>4. /\ terminated => terminated'
      /\ ~dispatcherOpen => ~dispatcherOpen'
      /\ terminated' \in BOOLEAN
  BY <1>1 DEF Timers!Below, Timers!IoStep, Timers!Shutdown, Timers!CloseDispatcher, Timers!Expire,
              Timers!RunInsert, Timers!RunStop,
     Timers!RunCompletion, Timers!AddTask, Timers!RunShutdown, Timers!Return, Timers!schedVars,
       SchedulerIInv, Timers!TypeOK
<1>5. ASSUME NEW i \in 1..Len(ops')
      PROVE  /\ ops'[i].kind \in {"stop", "aborted"} => terminated' \/ NoEntry(ops'[i].id)
             /\ ops'[i].kind = "shutdown" => terminated'
  <2>0. ops \in Seq(Timers!Handler)
    BY DEF SchedulerIInv, Timers!TypeOK
  <2>1. ASSUME NEW j \in 1..Len(ops), ops'[i] = ops[j]
        PROVE  /\ ops'[i].kind \in {"stop", "aborted"} => terminated' \/ NoEntry(ops'[i].id)
               /\ ops'[i].kind = "shutdown" => terminated'
    BY <1>4, <2>1 DEF StopsErased
  <2>2. CASE UNCHANGED ops
    BY <2>1, <2>2
  <2>3. ASSUME NEW h \in Timers!Handler, ops' = Append(ops, h),
               h.kind = "fired" \/ terminated'
        PROVE  /\ ops'[i].kind \in {"stop", "aborted"} => terminated' \/ NoEntry(ops'[i].id)
               /\ ops'[i].kind = "shutdown" => terminated'
    <3>1. /\ Len(ops) \in Nat /\ Len(ops') = Len(ops) + 1
          /\ \A j \in 1..Len(ops) : ops'[j] = ops[j]
          /\ ops'[Len(ops) + 1] = h
      BY <2>0, <2>3, SeqFacts
    <3>2. CASE i \in 1..Len(ops)
      BY <2>1, <3>1, <3>2
    <3>3. CASE i = Len(ops) + 1
      BY <2>3, <3>1, <3>3
    <3>4. QED
      BY <3>1, <3>2, <3>3
  <2>4. ASSUME NEW S \in SUBSET Timers!Ids, ops # <<>>, ops' = Tail(ops) \o Timers!Aborted(S),
               \A e \in S : task[e] = "held",
               terminated' \/ \A e \in S : NoEntry(e)
        PROVE  /\ ops'[i].kind \in {"stop", "aborted"} => terminated' \/ NoEntry(ops'[i].id)
               /\ ops'[i].kind = "shutdown" => terminated'
    <3>1. \/ \E j \in 1..Len(ops) : ops'[i] = ops[j]
          \/ ops'[i].kind = "aborted" /\ ops'[i].id \in S
      BY <1>2, <2>4, TakenKeeps
    <3>2. QED
      BY <2>1, <2>4, <3>1
  <2>5. CASE Timers!Shutdown
    <3>1. [kind |-> "shutdown"] \in Timers!Handler
      BY DEF Timers!Handler
    <3>2. QED
      BY <2>3, <2>5, <3>1 DEF Timers!Shutdown, Timers!Posted
  <2>6. ASSUME NEW e \in Timers!Ids, Timers!Expire(e)
        PROVE  /\ ops'[i].kind \in {"stop", "aborted"} => terminated' \/ NoEntry(ops'[i].id)
               /\ ops'[i].kind = "shutdown" => terminated'
    <3>1. [kind |-> "fired", id |-> e] \in Timers!Handler
      BY DEF Timers!Handler
    <3>2. QED
      BY <2>3, <2>6, <3>1 DEF Timers!Expire, Timers!Posted
  <2>7. CASE Timers!RunInsert \/ Timers!RunCompletion
    <3>1. ops # <<>> /\ ops' = Tail(ops)
      BY <2>7 DEF Timers!RunInsert, Timers!RunCompletion, Timers!Runs
    <3>2. Tail(ops) \in Seq(Timers!Handler)
      BY <2>0, <3>1, SeqFacts
    <3>3. ops' = Tail(ops) \o Timers!Aborted({})
      BY <3>1, <3>2, NoneAborted
    <3>4. QED
      BY <2>4, <3>1, <3>3
  <2>8. CASE Timers!RunStop
    <3> DEFINE S == Timers!Armed({Head(ops).id})
    <3>1. ops # <<>> /\ Head(ops).kind = "stop" /\ ops' = Tail(ops) \o Timers!Aborted(S)
      BY <2>8 DEF Timers!RunStop, Timers!Runs
    <3>2. Head(ops) \in Timers!Handler /\ Head(ops) = ops[1] /\ 1 \in 1..Len(ops)
      BY <3>1, HeadOwns
    <3>3. Head(ops).id \in Timers!Ids /\ (terminated \/ NoEntry(Head(ops).id))
      BY <3>1, <3>2, HandlerKinds DEF StopsErased
    <3>4. /\ S \in SUBSET Timers!Ids /\ \A e \in S : task[e] = "held"
          /\ terminated' \/ \A e \in S : NoEntry(e)
      BY <1>4, <3>3 DEF Timers!Armed, SchedulerIInv, Owned, NoOwner
    <3> HIDE DEF S
    <3>5. QED
      BY <2>4, <3>1, <3>4
  <2>9. CASE Timers!RunShutdown
    <3> DEFINE S == Timers!Armed(Timers!Ids)
    <3>1. ops # <<>> /\ Head(ops).kind = "shutdown" /\ ops' = Tail(ops) \o Timers!Aborted(S)
      BY <2>9 DEF Timers!RunShutdown, Timers!Runs
    <3>2. Head(ops) = ops[1] /\ 1 \in 1..Len(ops)
      BY <3>1, HeadOwns
    <3>3. /\ S \in SUBSET Timers!Ids /\ \A e \in S : task[e] = "held"
          /\ terminated'
      BY <1>4, <3>1, <3>2 DEF Timers!Armed, SchedulerIInv, Owned, NoOwner, StopsErased
    <3> HIDE DEF S
    <3>4. QED
      BY <2>4, <3>1, <3>3
  <2>10. QED
    BY <2>2, <2>5, <2>6, <2>7, <2>8, <2>9
       DEF Timers!Below, Timers!IoStep, Timers!CloseDispatcher, Timers!AddTask, Timers!Return,
           Timers!schedVars
<1>6. StopsErased'
  BY <1>2, <1>5 DEF StopsErased, NoEntry
<1>7. Timers!EntriesHaveTasks'
  <2> SUFFICES ASSUME NEW l \in Timers!Ids, timerEvents[l] # 0,
                      ~terminated', dispatcherOpen'
               PROVE  /\ bound[timerEvents[l]] = l
                      /\ task'[timerEvents[l]] \in {"held", "queued"}
    BY <1>2, <1>4 DEF Timers!EntriesHaveTasks
  <2> DEFINE e == timerEvents[l]
  <2>1. e \in Timers!Ids
    BY DEF Timers!LuaTypeOK, SchedulerIInv, Timers!TypeOK, Timers!Ids
  <2>2. ~terminated /\ dispatcherOpen
    BY <1>4 DEF SchedulerIInv, Timers!TypeOK
  <2>3. bound[e] = l /\ task[e] \in {"held", "queued"}
    BY <2>2 DEF Timers!EntriesHaveTasks
  <2> HIDE DEF e
  <2>4. CASE Timers!RunCompletion
    <3>1. /\ ops # <<>>
          /\ task' # task => task' = [task EXCEPT ![Head(ops).id] = "deleted"]
                             /\ Head(ops).kind = "aborted"
      BY <2>2, <2>4 DEF Timers!RunCompletion, Timers!Runs, Timers!IsAborted
    <3>2. Head(ops) = ops[1] /\ 1 \in 1..Len(ops)
      BY <3>1, HeadOwns
    <3>3. task' # task => Head(ops).id # e
      BY <2>2, <3>1, <3>2 DEF StopsErased, NoEntry, e
    <3>4. QED
      BY <2>1, <2>3, <3>1, <3>3 DEF SchedulerIInv, Timers!TypeOK, e
  <2>5. CASE Timers!AddTask
    <3>1. task' = [task EXCEPT ![adding] = "queued"]
      BY <2>2, <2>5 DEF Timers!AddTask
    <3>2. QED
      BY <2>1, <2>3, <3>1 DEF SchedulerIInv, Timers!TypeOK, e
  <2>6. CASE UNCHANGED task
    BY <2>3, <2>6 DEF e
  <2>7. QED
    BY <2>4, <2>5, <2>6 DEF Timers!Below, Timers!IoStep, Timers!Shutdown, Timers!CloseDispatcher,
       Timers!Expire, Timers!RunInsert,
       Timers!RunStop, Timers!RunShutdown, Timers!Return
<1>8. QED
  BY <1>1, <1>3, <1>6, <1>7

(* addEvent, of a script or of the server.                                  *)
LEMMA AddsKeep ==
  ASSUME LuaIInv, MaxEvents \in Nat, Timers!LuaAddEvent \/ Timers!ServerAddEvent
  PROVE  LuaIInv'
<1> USE DEF LuaIInv, Timers!TimerTableInv
<1> DEFINE e == lastEventId + 1
           t == lastEventTimerId + 1
<1>1. /\ lastEventId < MaxEvents /\ lastEventId' = e
      /\ task' = [task EXCEPT ![e] = "held"]
      /\ ops' = Append(ops, [kind |-> "insert", id |-> e])
      /\ UNCHANGED <<terminated, dispatcherOpen>>
  BY DEF Timers!LuaAddEvent, Timers!ServerAddEvent, Timers!AddEvent, Timers!Posted,
         Timers!NextEventId
<1>2. SchedulerIInv'
  BY CallsKeep DEF Timers!LuaAddEvent, Timers!ServerAddEvent
<1>3. UNCHANGED <<called, luaStopped>>
  BY DEF Timers!LuaAddEvent, Timers!ServerAddEvent, Timers!luaVars
<1>4. \/ UNCHANGED <<lastEventTimerId, timerEvents, bound>>
      \/ /\ lastEventTimerId' = t
         /\ bound' = [bound EXCEPT ![e] = t]
         /\ timerEvents' = [timerEvents EXCEPT ![t] = e]
  BY <1>1 DEF Timers!LuaAddEvent, Timers!ServerAddEvent, Timers!luaVars, Timers!NewTimer
<1>5. /\ ops \in Seq(Timers!Handler) /\ lastEventId \in 0..MaxEvents
      /\ lastEventTimerId \in 0..lastEventId
      /\ timerEvents \in [Timers!Ids -> 0..lastEventId] /\ bound \in [Timers!Ids -> 0..MaxEvents]
      /\ called \subseteq Timers!Ids /\ luaStopped \subseteq Timers!Ids
      /\ task \in [Timers!Ids -> {"none", "held", "queued", "run", "deleted"}]
  BY DEF SchedulerIInv, Timers!TypeOK, Timers!LuaTypeOK, Settled
<1>6. e \in Timers!Ids /\ t \in Timers!Ids /\ e \in Nat /\ t <= e /\ e \notin 0..lastEventId
  BY <1>1, <1>5 DEF Timers!Ids
<1>7. /\ \A l \in Timers!Ids : timerEvents'[l] = timerEvents[l] \/ (l = t /\ timerEvents'[l] = e)
      /\ timerEvents' \in [Timers!Ids -> 0..lastEventId']
      /\ \A x \in Timers!Ids \ {e} : bound'[x] = bound[x] /\ task'[x] = task[x]
      /\ bound' \in [Timers!Ids -> 0..MaxEvents]
      /\ task'[e] = "held"
  <2>1. 0..lastEventId \subseteq 0..lastEventId' /\ e \in 0..lastEventId'
        /\ t \in 0..MaxEvents
    BY <1>1, <1>5, <1>6 DEF Timers!Ids
  <2> HIDE DEF e, t
  <2>0. /\ timerEvents \in [Timers!Ids -> 0..lastEventId'] /\ t \in Timers!Ids /\ e \in Timers!Ids
        /\ bound \in [Timers!Ids -> 0..MaxEvents]
    BY <1>5, <1>6, <2>1
  <2>2. task'[e] = "held" /\ \A x \in Timers!Ids \ {e} : task'[x] = task[x]
    BY <1>1, <1>5, <1>6
  <2>3. CASE UNCHANGED <<lastEventTimerId, timerEvents, bound>>
    BY <2>0, <2>2, <2>3
  <2>4. CASE /\ bound' = [bound EXCEPT ![e] = t]
             /\ timerEvents' = [timerEvents EXCEPT ![t] = e]
    <3>1. timerEvents' \in [Timers!Ids -> 0..lastEventId']
      BY <2>0, <2>1, <2>4
    <3>2. bound' \in [Timers!Ids -> 0..MaxEvents]
            /\ \A x \in Timers!Ids \ {e} : bound'[x] = bound[x]
      BY <2>0, <2>1, <2>4
    <3>3. \A l \in Timers!Ids : timerEvents'[l] = timerEvents[l] \/ (l = t /\ timerEvents'[l] = e)
      BY <1>5, <1>6, <2>4
    <3>4. QED
      BY <2>2, <3>1, <3>2, <3>3
  <2>5. QED
    BY <1>4, <2>3, <2>4
<1>8. \A l \in Timers!Ids : timerEvents'[l] # timerEvents[l]
        => bound'[e] = l /\ lastEventTimerId' = t
  BY <1>4, <1>5, <1>6
<1>9. lastEventTimerId' \in {lastEventTimerId, t}
  BY <1>4
<1>10. Timers!LuaTypeOK'
  <2>1. lastEventTimerId' \in 0..MaxEvents
    BY <1>5, <1>6, <1>9 DEF Timers!Ids
  <2>2. QED
    BY <1>3, <1>5, <1>7, <2>1 DEF Timers!LuaTypeOK
<1>11. /\ \A l \in Timers!Ids : timerEvents[l] \in 0..lastEventId
       /\ \A l \in Timers!Ids : timerEvents[l] # 0 => timerEvents[l] \in Timers!Ids \ {e}
  BY <1>5, <1>6 DEF Timers!Ids
<1> HIDE DEF e, t
<1>12. Timers!EntriesHaveTasks'
  <2> SUFFICES ASSUME NEW l \in Timers!Ids, timerEvents'[l] # 0
               PROVE  /\ bound'[timerEvents'[l]] = l
                      /\ \/ task'[timerEvents'[l]] \in {"held", "queued"}
                         \/ terminated' \/ ~dispatcherOpen'
    BY DEF Timers!EntriesHaveTasks
  <2>1. CASE timerEvents'[l] = timerEvents[l]
    BY <1>1, <1>7, <1>11, <2>1 DEF Timers!EntriesHaveTasks
  <2>2. CASE timerEvents'[l] # timerEvents[l]
    <3>1. timerEvents'[l] = e /\ bound'[e] = l
      BY <1>7, <1>8, <2>2
    <3>2. QED
      BY <1>7, <3>1
  <2>3. QED
    BY <2>1, <2>2
<1>13. Settled'
  <2>1. lastEventTimerId' <= lastEventId'
    BY <1>1, <1>5, <1>6, <1>9 DEF e
  <2>2. \A l \in luaStopped \cup called : l # t
    BY <1>5 DEF Settled, t
  <2>3. \A l \in luaStopped \cup called : l <= lastEventTimerId' /\ timerEvents'[l] = 0
    BY <1>5, <1>7, <1>9, <2>2 DEF Settled, t, Timers!Ids
  <2>4. ASSUME NEW l \in Timers!Ids, timerEvents'[l] # 0 PROVE l <= lastEventTimerId'
    <3>1. l <= lastEventTimerId \/ l = lastEventTimerId'
      BY <1>7, <1>8, <2>4 DEF Settled
    <3>2. QED
      BY <1>5, <1>9, <3>1 DEF t, Timers!Ids
  <2>5. QED
    BY <1>3, <2>1, <2>3, <2>4 DEF Settled
<1>14. StopsErased'
  <2> DEFINE h == [kind |-> "insert", id |-> e]
  <2>1. h \in Timers!Handler
    BY <1>6 DEF Timers!Handler
  <2>2. /\ Len(ops) \in Nat /\ Len(ops') = Len(ops) + 1
        /\ \A j \in 1..Len(ops) : ops'[j] = ops[j] /\ ops[j] \in Timers!Handler
        /\ ops'[Len(ops) + 1].kind = "insert"
    BY <1>1, <1>5, <2>1, SeqFacts
  <2> SUFFICES ASSUME NEW i \in 1..Len(ops')
               PROVE  /\ ops'[i].kind \in {"stop", "aborted"}
                           => terminated' \/ \A l \in Timers!Ids : timerEvents'[l] # ops'[i].id
                      /\ ops'[i].kind = "shutdown" => terminated'
    BY DEF StopsErased, NoEntry
  <2>3. CASE i \in 1..Len(ops)
    <3>1. ops[i].kind # "shutdown" => ops[i].id # e
      BY <1>5, <2>3 DEF SchedulerIInv, Known, e
    <3>2. ops[i].kind # "shutdown" /\ NoEntry(ops[i].id)
            => \A l \in Timers!Ids : timerEvents'[l] # ops[i].id
      BY <1>7, <3>1 DEF NoEntry
    <3>3. QED
      BY <1>1, <2>2, <2>3, <3>2 DEF StopsErased, NoEntry
  <2>4. CASE i = Len(ops) + 1
    BY <2>2, <2>4
  <2>5. QED
    BY <2>2, <2>3, <2>4
<1>15. Timers!StopIsFinal'
  BY <1>3 DEF Timers!StopIsFinal
<1>16. QED
  BY <1>2, <1>10, <1>12, <1>13, <1>14, <1>15

(* stopEvent: of the server, for its own events, or of a script.            *)
LEMMA StopsKeep ==
  ASSUME LuaIInv, MaxEvents \in Nat,
         \/ \E l \in Timers!Ids : Timers!LuaStopEvent(l)
         \/ \E e \in Timers!Ids : Timers!ServerStopEvent(e)
  PROVE  LuaIInv'
<1> USE DEF LuaIInv, Timers!TimerTableInv
<1>0. /\ ops \in Seq(Timers!Handler) /\ lastEventId \in 0..MaxEvents /\ 0 \notin Timers!Ids
      /\ timerEvents \in [Timers!Ids -> 0..lastEventId]
      /\ called \subseteq Timers!Ids /\ luaStopped \subseteq Timers!Ids
      /\ \A l \in Timers!Ids : timerEvents[l] # 0 => timerEvents[l] \in Timers!Ids
  BY DEF SchedulerIInv, Timers!TypeOK, Timers!LuaTypeOK, Timers!Ids
<1>1. PICK e \in Timers!Ids :
        /\ Timers!StopEvent(e)
        /\ \A l \in Timers!Ids : timerEvents'[l] # e
        /\ \A l \in Timers!Ids : timerEvents'[l] \in {0, timerEvents[l]}
        /\ timerEvents' \in [Timers!Ids -> 0..lastEventId]
        /\ UNCHANGED <<lastEventTimerId, bound, called>>
        /\ \/ luaStopped' = luaStopped
           \/ \E l \in Timers!Ids : /\ luaStopped' = luaStopped \cup {l}
                            /\ timerEvents[l] # 0 /\ timerEvents'[l] = 0
  <2>1. CASE \E x \in Timers!Ids : Timers!ServerStopEvent(x)
    <3>1. PICK x \in Timers!Ids : Timers!ServerStopEvent(x)
      BY <2>1
    <3>2. \A l \in Timers!Ids : timerEvents[l] # x
      BY <1>0, <3>1 DEF Timers!ServerStopEvent, Timers!EntriesHaveTasks
    <3>3. QED
      BY <1>0, <3>1, <3>2 DEF Timers!ServerStopEvent, Timers!luaVars
  <2>2. CASE \E l \in Timers!Ids : Timers!LuaStopEvent(l)
    <3>1. PICK l \in Timers!Ids : Timers!LuaStopEvent(l)
      BY <2>2
    <3> DEFINE x == timerEvents[l]
    <3>2. /\ x # 0 /\ Timers!StopEvent(x) /\ luaStopped' = luaStopped \cup {l}
          /\ timerEvents' = [timerEvents EXCEPT ![l] = 0]
          /\ UNCHANGED <<lastEventTimerId, bound, called>>
      BY <3>1 DEF Timers!LuaStopEvent, Timers!Erase
    <3>3. /\ timerEvents'[l] = 0 /\ x \in Timers!Ids
          /\ \A k \in Timers!Ids \ {l} : timerEvents'[k] = timerEvents[k]
          /\ timerEvents' \in [Timers!Ids -> 0..lastEventId]
      BY <1>0, <3>2
    <3>4. \A k \in Timers!Ids : timerEvents[k] = x => k = l
      BY <3>2 DEF Timers!EntriesHaveTasks
    <3> HIDE DEF x
    <3>5. /\ \A k \in Timers!Ids : timerEvents'[k] # x
          /\ \A k \in Timers!Ids : timerEvents'[k] \in {0, timerEvents[k]}
      BY <1>0, <3>3, <3>4
    <3>6. QED
      BY <3>2, <3>3, <3>5 DEF x
  <2>3. QED
    BY <2>1, <2>2
<1>2. SchedulerIInv'
  BY <1>1, CallsKeep
<1>3. /\ ops' = Append(ops, [kind |-> "stop", id |-> e])
      /\ UNCHANGED <<terminated, lastEventId, task, dispatcherOpen>>
  BY <1>1 DEF Timers!StopEvent, Timers!PostedStop, Timers!Posted
<1>4. Timers!LuaTypeOK'
  BY <1>0, <1>1, <1>3 DEF Timers!LuaTypeOK
<1>5. Timers!EntriesHaveTasks'
  <2> SUFFICES ASSUME NEW l \in Timers!Ids, timerEvents'[l] # 0
               PROVE  /\ bound'[timerEvents'[l]] = l
                      /\ \/ task'[timerEvents'[l]] \in {"held", "queued"}
                         \/ terminated' \/ ~dispatcherOpen'
    BY DEF Timers!EntriesHaveTasks
  <2>1. timerEvents'[l] = timerEvents[l]
    BY <1>1
  <2>2. QED
    BY <1>1, <1>3, <2>1 DEF Timers!EntriesHaveTasks
<1>6. Settled'
  <2>1. \A l \in luaStopped' : l <= lastEventTimerId /\ timerEvents'[l] = 0
    BY <1>0, <1>1 DEF Settled
  <2>2. \A l \in called : l <= lastEventTimerId /\ timerEvents'[l] = 0
    BY <1>0, <1>1 DEF Settled
  <2>3. \A l \in Timers!Ids : timerEvents'[l] # 0 => l <= lastEventTimerId
    BY <1>1 DEF Settled
  <2>4. QED
    BY <1>1, <1>3, <2>1, <2>2, <2>3 DEF Settled
<1>7. Timers!StopIsFinal'
  BY <1>1 DEF Timers!StopIsFinal, Settled
<1>8. StopsErased'
  <2> DEFINE h == [kind |-> "stop", id |-> e]
  <2>1. h \in Timers!Handler
    BY DEF Timers!Handler
  <2>2. /\ Len(ops) \in Nat /\ Len(ops') = Len(ops) + 1
        /\ \A j \in 1..Len(ops) : ops'[j] = ops[j]
        /\ ops'[Len(ops) + 1].kind = "stop" /\ ops'[Len(ops) + 1].id = e
    BY <1>0, <1>3, <2>1, SeqFacts
  <2> SUFFICES ASSUME NEW i \in 1..Len(ops')
               PROVE  /\ ops'[i].kind \in {"stop", "aborted"}
                           => terminated' \/ \A l \in Timers!Ids : timerEvents'[l] # ops'[i].id
                      /\ ops'[i].kind = "shutdown" => terminated'
    BY DEF StopsErased, NoEntry
  <2>3. CASE i \in 1..Len(ops)
    <3>1. /\ ops[i].kind \in {"stop", "aborted"} => ops[i].id # 0
          /\ ops[i].kind \in {"stop", "aborted"} => terminated \/ NoEntry(ops[i].id)
      BY <1>0, <2>3, HandlerKinds, SeqFacts DEF StopsErased
    <3>2. ops[i].kind \in {"stop", "aborted"} /\ NoEntry(ops[i].id)
            => \A l \in Timers!Ids : timerEvents'[l] # ops[i].id
      BY <1>1, <3>1 DEF NoEntry
    <3>3. QED
      BY <1>3, <2>2, <2>3, <3>1, <3>2 DEF StopsErased, NoEntry
  <2>4. CASE i = Len(ops) + 1
    BY <1>1, <2>2, <2>4 DEF NoEntry
  <2>5. QED
    BY <2>2, <2>3, <2>4
<1>9. QED
  BY <1>2, <1>4, <1>5, <1>6, <1>7, <1>8

(* The dispatcher runs the task of an event.                                *)
LEMMA ExecutionKeeps ==
  ASSUME LuaIInv, MaxEvents \in Nat, NEW e \in Timers!Ids, Timers!ExecuteTimerEvent(e)
  PROVE  LuaIInv'
<1> USE DEF LuaIInv, Timers!TimerTableInv
<1> DEFINE l == bound[e]
<1>0. /\ lastEventId \in 0..MaxEvents /\ 0 \notin Timers!Ids
      /\ timerEvents \in [Timers!Ids -> 0..lastEventId] /\ bound \in [Timers!Ids -> 0..MaxEvents]
      /\ called \subseteq Timers!Ids /\ l \in 0..MaxEvents
      /\ task \in [Timers!Ids -> {"none", "held", "queued", "run", "deleted"}]
      /\ \A x \in Timers!Ids : timerEvents[x] # 0 => timerEvents[x] \in Timers!Ids
      /\ l # 0 => l \in Timers!Ids
  <2>1. /\ lastEventId \in 0..MaxEvents
        /\ timerEvents \in [Timers!Ids -> 0..lastEventId] /\ bound \in [Timers!Ids -> 0..MaxEvents]
        /\ called \subseteq Timers!Ids
        /\ task \in [Timers!Ids -> {"none", "held", "queued", "run", "deleted"}]
    BY DEF SchedulerIInv, Timers!TypeOK, Timers!LuaTypeOK
  <2>2. l \in 0..MaxEvents
    BY <2>1
  <2>3. \A x \in Timers!Ids : timerEvents[x] \in 0..lastEventId
    BY <2>1
  <2> HIDE DEF l
  <2>4. QED
    BY <2>1, <2>2, <2>3 DEF Timers!Ids
<1>1. /\ Timers!RunTask(e) /\ UNCHANGED <<lastEventTimerId, bound, luaStopped>>
      /\ \/ /\ l # 0 /\ timerEvents[l] # 0
            /\ timerEvents' = [timerEvents EXCEPT ![l] = 0] /\ called' = called \cup {l}
         \/ /\ l = 0 \/ timerEvents[l] = 0
            /\ UNCHANGED <<timerEvents, called>>
  BY DEF Timers!ExecuteTimerEvent, Timers!Erase
<1>2. SchedulerIInv'
  BY <1>1, CallsKeep
<1>3. /\ UNCHANGED <<ops, terminated, lastEventId, dispatcherOpen>>
      /\ task' = [task EXCEPT ![e] = "run"]
  BY <1>1 DEF Timers!RunTask, Timers!schedVars
<1>4. \A x \in Timers!Ids : timerEvents[x] = e => x = l
  BY <1>0 DEF Timers!EntriesHaveTasks
<1> HIDE DEF l
<1>5. /\ \A x \in Timers!Ids : timerEvents'[x] \in {0, timerEvents[x]}
      /\ \A x \in Timers!Ids : timerEvents'[x] # e
      /\ timerEvents' \in [Timers!Ids -> 0..lastEventId] /\ called' \subseteq Timers!Ids
      /\ called' \subseteq called \cup {l}
      /\ l \in called' \ called => l \in Timers!Ids /\ timerEvents[l] # 0 /\ timerEvents'[l] = 0
  BY <1>0, <1>1, <1>4
<1>6. Timers!LuaTypeOK'
  BY <1>0, <1>1, <1>3, <1>5 DEF Timers!LuaTypeOK
<1>7. Timers!EntriesHaveTasks'
  <2> SUFFICES ASSUME NEW x \in Timers!Ids, timerEvents'[x] # 0
               PROVE  /\ bound'[timerEvents'[x]] = x
                      /\ \/ task'[timerEvents'[x]] \in {"held", "queued"}
                         \/ terminated' \/ ~dispatcherOpen'
    BY DEF Timers!EntriesHaveTasks
  <2>1. timerEvents'[x] = timerEvents[x] /\ timerEvents[x] # e /\ timerEvents[x] \in Timers!Ids
    BY <1>0, <1>5
  <2>2. task'[timerEvents[x]] = task[timerEvents[x]]
    BY <1>0, <1>3, <2>1
  <2>3. QED
    BY <1>1, <1>3, <2>1, <2>2 DEF Timers!EntriesHaveTasks
<1>8. Settled'
  <2>1. \A x \in called' : x <= lastEventTimerId /\ timerEvents'[x] = 0
    BY <1>0, <1>5 DEF Settled
  <2>2. \A x \in luaStopped : x <= lastEventTimerId /\ timerEvents'[x] = 0
    BY <1>5 DEF Settled, Timers!LuaTypeOK
  <2>3. \A x \in Timers!Ids : timerEvents'[x] # 0 => x <= lastEventTimerId
    BY <1>5 DEF Settled
  <2>4. QED
    BY <1>1, <1>3, <2>1, <2>2, <2>3 DEF Settled
<1>9. Timers!StopIsFinal'
  BY <1>1, <1>5 DEF Timers!StopIsFinal, Settled
<1>10. StopsErased'
  <2> SUFFICES ASSUME NEW i \in 1..Len(ops)
               PROVE  /\ ops[i].kind \in {"stop", "aborted"}
                           => terminated \/ \A x \in Timers!Ids : timerEvents'[x] # ops[i].id
                      /\ ops[i].kind = "shutdown" => terminated
    BY <1>3 DEF StopsErased, NoEntry
  <2>1. ops[i].kind \in {"stop", "aborted"} => ops[i].id # 0
    BY <1>0, HandlerKinds, SeqFacts DEF SchedulerIInv, Timers!TypeOK
  <2>2. QED
    BY <1>5, <2>1, <1>3 DEF StopsErased, NoEntry
<1>11. QED
  BY <1>2, <1>6, <1>7, <1>8, <1>9, <1>10

LEMMA LuaStep ==
  ASSUME LuaIInv, MaxEvents \in Nat, [Timers!LuaNext]_(Timers!allVars)
  PROVE  LuaIInv'
<1>1. CASE UNCHANGED Timers!allVars
  <2>1. SchedulerIInv'
    BY <1>1, SchedulerStep DEF Timers!allVars, LuaIInv
  <2>2. UNCHANGED <<ops, terminated, lastEventId, task, dispatcherOpen, lastEventTimerId,
                    timerEvents, bound, called, luaStopped>>
    BY <1>1 DEF Timers!allVars, Timers!vars, Timers!schedVars, Timers!luaVars
  <2>3. Timers!LuaTypeOK' /\ Timers!StopIsFinal' /\ Settled'
    BY <2>2 DEF LuaIInv, Timers!TimerTableInv, Timers!LuaTypeOK, Timers!StopIsFinal, Settled
  <2>4. Timers!EntriesHaveTasks'
    BY <2>2 DEF LuaIInv, Timers!TimerTableInv, Timers!EntriesHaveTasks
  <2>5. StopsErased'
    BY <2>2 DEF LuaIInv, StopsErased, NoEntry
  <2>6. QED
    BY <2>1, <2>3, <2>4, <2>5 DEF LuaIInv, Timers!TimerTableInv
<1>2. QED
  BY <1>1, AddsKeep, StopsKeep, ExecutionKeeps, BelowKeeps DEF Timers!LuaNext


-----------------------------------------------------------------------------
(* The service ports.  A port is kept going by an accept, by one handler or *)
(* by one event, never by two; only a port that the manager has given up    *)
(* may have none.  What tells a port that it is being opened again, its     *)
(* pendingStart, agrees with the event.                                     *)
PortState ==
  [listening : BOOLEAN, accepting : BOOLEAN, pendingStart : BOOLEAN,
   reopen : {"none", "timer", "task"}]
HandlerSet == [kind : {"accepted", "failed", "aborted", "stop"}, port : Ports]
            \cup {[kind |-> "die"]}
ForPort(p) == {h \in HandlerSet : h.kind \in {"accepted", "failed"} /\ h.port = p}
Waiting(p) == Spots(ready, ForPort(p))

Kept(s, W) ==
  \/ s.accepting /\ W = {} /\ s.reopen = "none"
  \/ ~s.accepting /\ Single(W) /\ s.reopen = "none"
  \/ ~s.accepting /\ W = {} /\ s.reopen # "none"
Unkept(s, W) == ~s.accepting /\ W = {} /\ s.reopen = "none"

PortSound(s, W) ==
  /\ s.accepting => s.listening
  /\ s.pendingStart <=> s.reopen # "none"
  /\ Kept(s, W) \/ Unkept(s, W)

PortsSound == \A p \in Ports : PortSound(port[p], Waiting(p))
PortsKept == \A p \in acceptors : Kept(port[p], Waiting(p))
NotYet == loader = "loading" => \A p \in Ports \ acceptors : Unkept(port[p], Waiting(p))
StopsLast ==
  \A i \in 1..Len(ready) :
    ready[i].kind \in {"stop", "aborted"} => acceptors = {} /\ loader = "done"

ServicesIInv == Server!TypeOK /\ PortsSound /\ PortsKept /\ NotYet /\ StopsLast

LEMMA TypeOfPorts ==
  ASSUME Server!TypeOK
  PROVE  ready \in Seq(HandlerSet) /\ port \in [Ports -> PortState] /\ acceptors \in SUBSET Ports
BY DEF Server!TypeOK, HandlerSet, PortState

LEMMA HandlerFacts ==
  ASSUME NEW h \in HandlerSet
  PROVE  /\ h.kind \in {"accepted", "failed", "aborted", "stop", "die"}
         /\ h.kind # "die" => h.port \in Ports
         /\ \A p : h \in ForPort(p) <=> h.kind \in {"accepted", "failed"} /\ h.port = p
BY DEF HandlerSet, ForPort

LEMMA AtMostOneKeeper ==
  ASSUME ServicesIInv
  PROVE  Server!ServicesInv
<1>1. ready \in Seq(HandlerSet) /\ acceptors \in SUBSET Ports
  BY TypeOfPorts DEF ServicesIInv
<1>2. \A i \in 1..Len(ready) : ready[i] \in HandlerSet
  BY <1>1, SeqFacts
<1>3. ASSUME NEW p \in Ports
      PROVE  /\ Cardinality(Server!Keepers(p)) <= 1
             /\ p \in acceptors => Server!Keepers(p) # {}
             /\ port[p].accepting => port[p].listening
  <2>1. DOMAIN ready = 1..Len(ready)
    BY <1>1, LenProperties
  <2>2. (\E i \in DOMAIN ready : ready[i].kind \in {"accepted", "failed"} /\ ready[i].port = p)
          <=> Waiting(p) # {}
    BY <1>2, <2>1, HandlerFacts DEF Waiting, Spots
  <2>3. /\ "operation" \in Server!Keepers(p) <=> port[p].accepting
        /\ "handler" \in Server!Keepers(p) <=> Waiting(p) # {}
        /\ "event" \in Server!Keepers(p) <=> port[p].reopen # "none"
        /\ Server!Keepers(p) \subseteq {"operation", "handler", "event"}
    BY <2>2 DEF Server!Keepers
  <2>4. PortSound(port[p], Waiting(p)) /\ (p \in acceptors => Kept(port[p], Waiting(p)))
    BY DEF ServicesIInv, PortsSound, PortsKept
  <2>5. Single(Waiting(p)) => Waiting(p) # {}
    BY DEF Single
  <2>6. /\ Server!Keepers(p) = {} \/ \E k : Server!Keepers(p) = {k}
        /\ p \in acceptors => Server!Keepers(p) # {}
    <3>1. Unkept(port[p], Waiting(p)) => Server!Keepers(p) = {}
      BY <2>3 DEF Unkept
    <3>2. Kept(port[p], Waiting(p)) => \/ Server!Keepers(p) = {"operation"}
                                       \/ Server!Keepers(p) = {"handler"}
                                       \/ Server!Keepers(p) = {"event"}
      BY <2>3, <2>5 DEF Kept
    <3>3. QED
      BY <2>4, <3>1, <3>2 DEF PortSound
  <2>7. Cardinality(Server!Keepers(p)) <= 1
    <3>1. CASE Server!Keepers(p) = {}
      BY <3>1, FS_EmptySet
    <3>2. CASE \E k : Server!Keepers(p) = {k}
      <4>1. PICK k : Server!Keepers(p) = {k}
        BY <3>2
      <4>2. Cardinality({k}) = 1
        BY FS_Singleton
      <4>3. QED
        BY <4>1, <4>2
    <3>3. QED
      BY <2>6, <3>1, <3>2
  <2>8. QED
    BY <2>4, <2>6, <2>7 DEF PortSound
<1>4. QED
  BY <1>3, ServerCount DEF Server!ServicesInv, ServicesIInv

LEMMA ServicesInitially ==
  ASSUME MaxFailures \in Nat, Server!Init
  PROVE  ServicesIInv
<1> USE DEF Server!Init
<1>1. ready \in Seq([kind : {"accepted", "failed", "aborted", "stop"}, port : Ports]
                    \cup {[kind |-> "die"]})
  BY SeqFacts
<1>2. Server!TypeOK
  BY <1>1 DEF Server!TypeOK
<1>3. Len(ready) = 0 /\ \A p : Waiting(p) = {}
  BY SeqFacts DEF Waiting, Spots
<1>4. \A p \in Ports : Unkept(port[p], Waiting(p)) /\ PortSound(port[p], Waiting(p))
  BY <1>3 DEF Unkept, PortSound
<1>5. PortsSound /\ PortsKept /\ NotYet /\ StopsLast
  BY <1>3, <1>4 DEF PortsSound, PortsKept, NotYet, StopsLast
<1>6. QED
  BY <1>2, <1>5 DEF ServicesIInv

(* One port changes.                                                        *)
LEMMA OnePortChanges ==
  ASSUME ServicesIInv, NEW p \in Ports, NEW s \in PortState,
         port' = [port EXCEPT ![p] = s],
         acceptors' \in {acceptors, acceptors \cup {p}}, UNCHANGED <<loader, main, game>>,
         ready' \in Seq(HandlerSet), failures' \in 0..MaxFailures,
         \A q \in Ports \ {p} : /\ Waiting(q) = {} => Waiting(q)' = {}
                                /\ Single(Waiting(q)) => Single(Waiting(q)'),
         PortSound(s, Waiting(p)'),
         p \in acceptors' => Kept(s, Waiting(p)'),
         loader = "loading" /\ p \notin acceptors' => Unkept(s, Waiting(p)'),
         StopsLast'
  PROVE  ServicesIInv'
<1> USE DEF ServicesIInv
<1>1. /\ port \in [Ports -> PortState] /\ port' \in [Ports -> PortState]
      /\ port'[p] = s /\ \A q \in Ports \ {p} : port'[q] = port[q]
      /\ acceptors \subseteq Ports /\ acceptors' \subseteq Ports
  BY TypeOfPorts
<1>2. Server!TypeOK'
  BY <1>1 DEF Server!TypeOK, PortState, HandlerSet
<1>3. \A q \in Ports \ {p} : Kept(port[q], Waiting(q)) => Kept(port'[q], Waiting(q)')
  BY <1>1 DEF Kept
<1>4. \A q \in Ports \ {p} : Unkept(port[q], Waiting(q)) => Unkept(port'[q], Waiting(q)')
  BY <1>1 DEF Unkept
<1>5. PortsSound'
  <2>1. \A q \in Ports \ {p} : PortSound(port'[q], Waiting(q)')
    BY <1>1, <1>3, <1>4 DEF PortsSound, PortSound
  <2>2. QED
    BY <1>1, <2>1 DEF PortsSound
<1>6. PortsKept'
  BY <1>1, <1>3 DEF PortsKept
<1>7. NotYet'
  BY <1>1, <1>4 DEF NotYet
<1>8. QED
  BY <1>2, <1>5, <1>6, <1>7

(* What opening a port makes of it.                                         *)
LEMMA OpenFacts ==
  ASSUME MaxFailures \in Nat, ServicesIInv, NEW p \in Ports, Server!Open(p),
         Unkept(port[p], Waiting(p)) \/ port[p].reopen # "none"
  PROVE  \E s \in PortState :
           /\ port' = [port EXCEPT ![p] = s]
           /\ PortSound(s, Waiting(p)) /\ Kept(s, Waiting(p))
           /\ failures' \in 0..MaxFailures
<1> DEFINE t == port[p]
           W == Waiting(p)
<1>1. t \in PortState /\ port \in [Ports -> PortState] /\ failures \in 0..MaxFailures
  BY TypeOfPorts DEF ServicesIInv, Server!TypeOK
<1>2. W = {}
  BY DEF Unkept, ServicesIInv, PortsSound, PortSound, Kept
<1> HIDE DEF t, W
<1>3. Server!Opened(t) = [t EXCEPT !.listening = TRUE, !.pendingStart = FALSE, !.reopen = "none",
                                   !.accepting = TRUE]
  BY <1>1 DEF Server!Opened, Server!Accepting, Server!PendingInOpen, PortState
<1>4. Server!Retry(Server!Closed(t)) = [t EXCEPT !.listening = FALSE, !.accepting = FALSE,
                                                 !.pendingStart = TRUE, !.reopen = "timer"]
  BY <1>1 DEF Server!Retry, Server!Closed, PortState
<1>5. /\ Server!Opened(t) \in PortState /\ PortSound(Server!Opened(t), W)
           /\ Kept(Server!Opened(t), W)
  BY <1>1, <1>2, <1>3 DEF PortState, PortSound, Kept
<1>6. /\ Server!Retry(Server!Closed(t)) \in PortState
           /\ PortSound(Server!Retry(Server!Closed(t)), W)
      /\ Kept(Server!Retry(Server!Closed(t)), W)
  BY <1>1, <1>2, <1>4 DEF PortState, PortSound, Kept
<1>7. /\ \/ port' = [port EXCEPT ![p] = Server!Opened(t)]
         \/ port' = [port EXCEPT ![p] = Server!Retry(Server!Closed(t))]
      /\ failures' \in 0..MaxFailures
  BY <1>1 DEF Server!Open, Server!Fails, t
<1>8. QED
  BY <1>5, <1>6, <1>7 DEF W

(* The oldest handler is taken.                                             *)
LEMMA HeadTaken ==
  ASSUME ServicesIInv, ready # <<>>
  PROVE  LET h == Head(ready)
             t == Tail(ready) IN
         /\ h \in HandlerSet /\ t \in Seq(HandlerSet) /\ ready[1] = h /\ 1 \in 1..Len(ready)
         /\ \A i \in 1..Len(t) : \E j \in 1..Len(ready) : t[i] = ready[j]
         /\ \A q : /\ Waiting(q) = {} => Spots(t, ForPort(q)) = {}
                   /\ h \notin ForPort(q) /\ Single(Waiting(q)) => Single(Spots(t, ForPort(q)))
                   /\ h \in ForPort(q) => Waiting(q) # {}
                   /\ h \in ForPort(q) /\ Single(Waiting(q)) => Spots(t, ForPort(q)) = {}
<1> DEFINE h == Head(ready)
           t == Tail(ready)
<1>1. /\ ready \in Seq(HandlerSet) /\ h \in HandlerSet /\ t \in Seq(HandlerSet)
      /\ Len(ready) \in Nat \ {0} /\ Len(t) = Len(ready) - 1 /\ h = ready[1]
      /\ \A i \in 1..Len(t) : t[i] = ready[i + 1]
  BY TypeOfPorts, SeqFacts DEF ServicesIInv
<1>2. \A i \in 1..Len(t) : i + 1 \in 1..Len(ready)
  BY <1>1
<1>3. ASSUME NEW q
      PROVE  /\ Waiting(q) = {} => Spots(t, ForPort(q)) = {}
             /\ h \notin ForPort(q) /\ Single(Waiting(q)) => Single(Spots(t, ForPort(q)))
             /\ h \in ForPort(q) /\ Single(Waiting(q)) => Spots(t, ForPort(q)) = {}
             /\ h \in ForPort(q) => Waiting(q) # {}
  <2> DEFINE H == ForPort(q)
  <2>1. h \in H => 1 \in Spots(ready, H)
    BY <1>1 DEF Spots
  <2> HIDE DEF H, h, t
  <2>2. /\ Spots(ready, H) = {} => Spots(Tail(ready), H) = {}
        /\ Single(Spots(ready, H)) /\ Head(ready) \in H => Spots(Tail(ready), H) = {}
        /\ Single(Spots(ready, H)) /\ Head(ready) \notin H => Single(Spots(Tail(ready), H))
    BY <1>1, SpotsTail
  <2>3. QED
    BY <2>1, <2>2 DEF Waiting, H, h, t
<1>4. QED
  BY <1>1, <1>2, <1>3

(* A handler becomes ready.                                                 *)
LEMMA HandlerReady ==
  ASSUME NEW t \in Seq(HandlerSet), NEW h \in HandlerSet
  PROVE  /\ Append(t, h) \in Seq(HandlerSet)
         /\ \A i \in 1..Len(Append(t, h)) :
              (\E j \in 1..Len(t) : Append(t, h)[i] = t[j]) \/ Append(t, h)[i] = h
         /\ \A q : /\ h \notin ForPort(q) =>
                        Spots(Append(t, h), ForPort(q)) = Spots(t, ForPort(q))
                   /\ h \in ForPort(q) /\ Spots(t, ForPort(q)) = {} =>
                        Single(Spots(Append(t, h), ForPort(q)))
<1>1. /\ Append(t, h) \in Seq(HandlerSet) /\ Len(t) \in Nat
      /\ Len(Append(t, h)) = Len(t) + 1
      /\ \A i \in 1..Len(t) : Append(t, h)[i] = t[i]
      /\ Append(t, h)[Len(t) + 1] = h
  BY SeqFacts
<1>2. ASSUME NEW i \in 1..Len(Append(t, h))
      PROVE  (\E j \in 1..Len(t) : Append(t, h)[i] = t[j]) \/ Append(t, h)[i] = h
  BY <1>1
<1>3. ASSUME NEW q
      PROVE  /\ h \notin ForPort(q) =>
                  Spots(Append(t, h), ForPort(q)) = Spots(t, ForPort(q))
             /\ h \in ForPort(q) /\ Spots(t, ForPort(q)) = {} =>
                  Single(Spots(Append(t, h), ForPort(q)))
  BY SpotsAppend DEF Single
<1>4. QED
  BY <1>1, <1>2, <1>3

LEMMA PortStepsKeep ==
  ASSUME MaxFailures \in Nat, ServicesIInv, NEW p \in Ports,
         \/ Server!Add(p) \/ Server!Incoming(p) \/ Server!AcceptError(p) \/ Server!ReopenTimer(p)
              \/ Server!OpenAcceptor(p)
  PROVE  ServicesIInv'
<1> DEFINE t == port[p]
<1>0. /\ ready \in Seq(HandlerSet) /\ port \in [Ports -> PortState] /\ t \in PortState
      /\ failures \in 0..MaxFailures /\ acceptors \subseteq Ports
      /\ PortSound(t, Waiting(p))
      /\ loader = "loading" /\ p \notin acceptors => Unkept(t, Waiting(p))
      /\ p \in acceptors => Kept(t, Waiting(p))
  BY TypeOfPorts DEF ServicesIInv, Server!TypeOK, PortsSound, PortsKept, NotYet
<1>1. ASSUME Server!Add(p) PROVE ServicesIInv'
  <2>1. /\ loader = "loading" /\ p \notin acceptors /\ acceptors' = acceptors \cup {p}
        /\ Server!Open(p) /\ UNCHANGED <<loader, main, ready, game>>
    BY <1>1 DEF Server!Add
  <2>2. PICK s \in PortState :
          /\ port' = [port EXCEPT ![p] = s]
          /\ PortSound(s, Waiting(p)) /\ Kept(s, Waiting(p)) /\ failures' \in 0..MaxFailures
    BY <1>0, <2>1, OpenFacts
  <2>3. \A q : Waiting(q)' = Waiting(q)
    BY <2>1 DEF Waiting
  <2>4. StopsLast'
    BY <2>1 DEF ServicesIInv, StopsLast
  <2>5. QED
    BY <1>0, <2>1, <2>2, <2>3, <2>4, OnePortChanges
<1>2. ASSUME Server!OpenAcceptor(p) PROVE ServicesIInv'
  <2>1. /\ t.reopen = "task" /\ Server!Open(p) /\ UNCHANGED <<loader, main, acceptors, ready, game>>
    BY <1>2 DEF Server!OpenAcceptor
  <2>2. PICK s \in PortState :
          /\ port' = [port EXCEPT ![p] = s]
          /\ PortSound(s, Waiting(p)) /\ Kept(s, Waiting(p)) /\ failures' \in 0..MaxFailures
    BY <2>1, OpenFacts
  <2>3. \A q : Waiting(q)' = Waiting(q)
    BY <2>1 DEF Waiting
  <2>4. StopsLast'
    BY <2>1 DEF ServicesIInv, StopsLast
  <2>5. ~(loader = "loading" /\ p \notin acceptors)
    BY <1>0, <2>1 DEF Unkept
  <2>6. QED
    BY <1>0, <2>1, <2>2, <2>3, <2>4, <2>5, OnePortChanges
<1>3. ASSUME Server!ReopenTimer(p) PROVE ServicesIInv'
  <2> DEFINE s == [t EXCEPT !.reopen = "task"]
  <2>1. /\ t.reopen = "timer" /\ port' = [port EXCEPT ![p] = s]
        /\ UNCHANGED <<loader, main, acceptors, ready, game, failures>>
    BY <1>3 DEF Server!ReopenTimer
  <2> HIDE DEF t
  <2>2. /\ s \in PortState /\ PortSound(s, Waiting(p))
        /\ Kept(t, Waiting(p)) => Kept(s, Waiting(p))
        /\ ~Unkept(t, Waiting(p))
    BY <1>0, <2>1 DEF PortState, PortSound, Kept, Unkept
  <2> HIDE DEF s
  <2>3. \A q : Waiting(q)' = Waiting(q)
    BY <2>1 DEF Waiting
  <2>4. StopsLast'
    BY <2>1 DEF ServicesIInv, StopsLast
  <2>5. QED
    BY <1>0, <2>1, <2>2, <2>3, <2>4, OnePortChanges
<1>4. ASSUME Server!Incoming(p) \/ Server!AcceptError(p) PROVE ServicesIInv'
  <2> DEFINE s == [t EXCEPT !.accepting = FALSE]
  <2>1. PICK kind \in {"accepted", "failed"} :
          /\ t.accepting /\ port' = [port EXCEPT ![p] = s]
          /\ ready' = Append(ready, Server!Handler(kind, p))
          /\ failures' \in 0..MaxFailures
          /\ UNCHANGED <<loader, main, acceptors, game>>
    <3>1. CASE Server!Incoming(p)
      BY <1>0, <3>1 DEF Server!Incoming, Server!Complete
    <3>2. CASE Server!AcceptError(p)
      <4>1. failures' \in 0..MaxFailures
        BY <1>0, <3>2 DEF Server!AcceptError, Server!Fails
      <4>2. QED
        BY <3>2, <4>1 DEF Server!AcceptError, Server!Complete
    <3>3. QED
      BY <1>4, <3>1, <3>2
  <2> DEFINE h == Server!Handler(kind, p)
  <2>2. h \in HandlerSet /\ h.kind = kind /\ h.port = p
    BY DEF Server!Handler, HandlerSet
  <2>3. \A q : h \in ForPort(q) <=> q = p
    BY <2>2, HandlerFacts
  <2> HIDE DEF h, t
  <2>4. Waiting(p) = {} /\ ~Unkept(t, Waiting(p)) /\ t.reopen = "none"
    BY <1>0, <2>1 DEF PortSound, Kept, Unkept
  <2>5. /\ ready' \in Seq(HandlerSet)
        /\ \A q \in Ports \ {p} : Waiting(q)' = Waiting(q)
        /\ Single(Waiting(p)')
        /\ \A i \in 1..Len(ready') : (\E j \in 1..Len(ready) : ready'[i] = ready[j])
                                     \/ ready'[i] = h
    BY <1>0, <2>1, <2>2, <2>3, <2>4, HandlerReady DEF Waiting, h
  <2>6. s \in PortState /\ PortSound(s, Waiting(p)') /\ Kept(s, Waiting(p)')
    BY <1>0, <2>1, <2>4, <2>5 DEF PortState, PortSound, Kept
  <2>7. StopsLast'
    BY <2>1, <2>2, <2>5 DEF ServicesIInv, StopsLast
  <2> HIDE DEF s
  <2>8. QED
    BY <1>0, <2>1, <2>4, <2>5, <2>6, <2>7, OnePortChanges
<1>5. QED
  BY <1>1, <1>2, <1>3, <1>4

LEMMA HandlersKeep ==
  ASSUME MaxFailures \in Nat, ServicesIInv, Server!Handle, NEW p, p = Server!Current
  PROVE  ServicesIInv'
<1> DEFINE h == Head(ready)
           r == Tail(ready)
           t == port[p]
<1>0. /\ ready # <<>> /\ UNCHANGED <<loader, acceptors, game, failures>>
      /\ h.kind # "die" => main' = main
      /\ h.kind \in {"accepted", "failed", "aborted", "stop", "die"}
  BY DEF Server!Handle, Server!Runs, Server!OnAccept, Server!OnAcceptError, Server!OnAcceptAborted,
         Server!OnStopServer, Server!Die
<1>1. /\ h \in HandlerSet /\ r \in Seq(HandlerSet) /\ ready[1] = h /\ 1 \in 1..Len(ready)
      /\ \A i \in 1..Len(r) : \E j \in 1..Len(ready) : r[i] = ready[j]
      /\ \A q : /\ Waiting(q) = {} => Spots(r, ForPort(q)) = {}
                /\ h \notin ForPort(q) /\ Single(Waiting(q)) => Single(Spots(r, ForPort(q)))
                /\ h \in ForPort(q) => Waiting(q) # {}
                /\ h \in ForPort(q) /\ Single(Waiting(q)) => Spots(r, ForPort(q)) = {}
  BY <1>0, HeadTaken
<1>2. /\ port \in [Ports -> PortState] /\ failures \in 0..MaxFailures
      /\ h.kind # "die" => p \in Ports
      /\ \A q : h \in ForPort(q) <=> h.kind \in {"accepted", "failed"} /\ p = q
  BY <1>1, HandlerFacts, TypeOfPorts DEF ServicesIInv, Server!TypeOK, Server!Current
<1>3. \A i \in 1..Len(r) : r[i].kind \in {"stop", "aborted"} => acceptors = {} /\ loader = "done"
  BY <1>1 DEF ServicesIInv, StopsLast
<1>4. ASSUME h.kind \in {"accepted", "failed"}
      PROVE  /\ p \in Ports /\ t \in PortState
             /\ ~t.accepting /\ Single(Waiting(p)) /\ t.reopen = "none" /\ ~t.pendingStart
             /\ Spots(r, ForPort(p)) = {}
             /\ ~(loader = "loading" /\ p \notin acceptors)
  <2>1. p \in Ports /\ Waiting(p) # {} /\ h \in ForPort(p)
    BY <1>1, <1>2, <1>4
  <2>2. t \in PortState /\ PortSound(t, Waiting(p))
    BY <1>2, <2>1 DEF ServicesIInv, PortsSound
  <2>3. loader = "loading" /\ p \notin acceptors => Unkept(t, Waiting(p))
    BY <2>1 DEF ServicesIInv, NotYet
  <2> HIDE DEF t, h, r
  <2>4. ~t.accepting /\ Single(Waiting(p)) /\ t.reopen = "none" /\ ~t.pendingStart
    BY <2>1, <2>2 DEF PortSound, Kept, Unkept, PortState
  <2>5. QED
    BY <1>1, <2>1, <2>2, <2>3, <2>4 DEF Unkept
<1>5. ASSUME Server!OnAccept PROVE ServicesIInv'
  <2> DEFINE s == [t EXCEPT !.accepting = t.listening]
  <2>1. /\ h.kind = "accepted" /\ port' = [port EXCEPT ![p] = s]
        /\ ready' = IF t.listening THEN r ELSE Append(r, Server!Handler("failed", p))
        /\ UNCHANGED <<loader, main, acceptors, game, failures>>
    BY <1>5 DEF Server!OnAccept, Server!Runs, Server!AcceptAgain, Server!Accepting
  <2> DEFINE f == Server!Handler("failed", p)
  <2>2. f \in HandlerSet /\ f.kind = "failed" /\ f.port = p
    BY <1>4, <2>1 DEF Server!Handler, HandlerSet
  <2>3. \A q : f \in ForPort(q) <=> q = p
    BY <2>2, HandlerFacts
  <2>4. /\ Append(r, f) \in Seq(HandlerSet)
        /\ \A i \in 1..Len(Append(r, f)) :
             (\E j \in 1..Len(r) : Append(r, f)[i] = r[j]) \/ Append(r, f)[i] = f
        /\ \A q : /\ f \notin ForPort(q) =>
                       Spots(Append(r, f), ForPort(q)) = Spots(r, ForPort(q))
                  /\ f \in ForPort(q) /\ Spots(r, ForPort(q)) = {} =>
                       Single(Spots(Append(r, f), ForPort(q)))
    BY <1>1, <2>2, HandlerReady
  <2>5. p \in Ports /\ t \in PortState
    BY <1>4, <2>1
  <2> HIDE DEF t, h, r, f
  <2>6. s \in PortState /\ s.accepting = t.listening /\ s.listening = t.listening
        /\ s.reopen = "none" /\ ~s.pendingStart
    BY <1>4, <2>1, <2>5 DEF PortState
  <2> HIDE DEF s
  <2>7. ASSUME NEW q \in Ports \ {p}
        PROVE  /\ Waiting(q) = {} => Waiting(q)' = {}
               /\ Single(Waiting(q)) => Single(Waiting(q)')
    BY <1>1, <1>2, <2>1, <2>3, <2>4 DEF Waiting, f
  <2>8. IF t.listening THEN Waiting(p)' = {} ELSE Single(Waiting(p)')
    BY <1>4, <2>1, <2>3, <2>4 DEF Waiting, f
  <2>9. ready' \in Seq(HandlerSet)
    BY <1>1, <2>1, <2>4 DEF f, r
  <2>10. StopsLast'
    BY <1>3, <2>1, <2>2, <2>4 DEF StopsLast, f
  <2>11. PortSound(s, Waiting(p)') /\ Kept(s, Waiting(p)')
    BY <2>5, <2>6, <2>8 DEF PortSound, Kept, PortState
  <2>12. QED
    BY <1>2, <1>4, <2>1, <2>5, <2>6, <2>7, <2>9, <2>10, <2>11, OnePortChanges
<1>6. ASSUME Server!OnAcceptError PROVE ServicesIInv'
  <2> DEFINE s == [t EXCEPT !.listening = FALSE, !.accepting = FALSE,
                            !.pendingStart = TRUE, !.reopen = "timer"]
  <2>1. /\ h.kind = "failed" /\ ready' = r
        /\ port' = [port EXCEPT ![p] = IF t.pendingStart THEN t ELSE Server!Retry(Server!Closed(t))]
        /\ UNCHANGED <<loader, main, acceptors, game, failures>>
    BY <1>6 DEF Server!OnAcceptError, Server!Runs
  <2>2. p \in Ports /\ t \in PortState /\ ~t.pendingStart
    BY <1>4, <2>1
  <2>3. Server!Retry(Server!Closed(t)) = s
    BY <2>2 DEF Server!Retry, Server!Closed, PortState
  <2> HIDE DEF t, h, r
  <2>4. port' = [port EXCEPT ![p] = s]
    BY <2>1, <2>2, <2>3
  <2>5. s \in PortState /\ ~s.accepting /\ s.reopen = "timer" /\ s.pendingStart
    BY <2>2 DEF PortState
  <2> HIDE DEF s
  <2>6. Waiting(p)' = {}
    BY <1>4, <2>1 DEF Waiting
  <2>7. ASSUME NEW q \in Ports \ {p}
        PROVE  /\ Waiting(q) = {} => Waiting(q)' = {}
               /\ Single(Waiting(q)) => Single(Waiting(q)')
    BY <1>1, <1>2, <2>1 DEF Waiting
  <2>8. StopsLast'
    BY <1>3, <2>1 DEF StopsLast
  <2>9. PortSound(s, Waiting(p)') /\ Kept(s, Waiting(p)') /\ ready' \in Seq(HandlerSet)
    BY <1>1, <2>1, <2>5, <2>6 DEF PortSound, Kept
  <2>10. QED
    BY <1>2, <1>4, <2>1, <2>2, <2>4, <2>5, <2>7, <2>8, <2>9, OnePortChanges
<1>7. ASSUME Server!OnStopServer PROVE ServicesIInv'
  <2> DEFINE s == [t EXCEPT !.listening = FALSE, !.accepting = FALSE]
             f == Server!Handler("aborted", p)
  <2>1. /\ h.kind = "stop" /\ port' = [port EXCEPT ![p] = s]
        /\ ready' \in {r, Append(r, f)}
        /\ UNCHANGED <<loader, main, acceptors, game, failures>>
    BY <1>7 DEF Server!OnStopServer, Server!Runs, Server!Closed
  <2>2. /\ p \in Ports /\ t \in PortState /\ PortSound(t, Waiting(p))
        /\ acceptors = {} /\ loader = "done" /\ \A q : h \notin ForPort(q)
    BY <1>1, <1>2, <2>1 DEF ServicesIInv, StopsLast, PortsSound
  <2>3. f \in HandlerSet /\ f.kind = "aborted" /\ \A q : f \notin ForPort(q)
    <3>1. f \in HandlerSet /\ f.kind = "aborted"
      BY <2>2 DEF Server!Handler, HandlerSet
    <3>2. QED
      BY <3>1, HandlerFacts
  <2>4. /\ Append(r, f) \in Seq(HandlerSet)
        /\ \A q : Spots(Append(r, f), ForPort(q)) = Spots(r, ForPort(q))
    BY <1>1, <2>3, HandlerReady
  <2>5. ready' \in Seq(HandlerSet) /\ \A q : Waiting(q)' = Spots(r, ForPort(q))
    BY <1>1, <2>1, <2>4 DEF Waiting
  <2> HIDE DEF t, h, r, f
  <2>6. \A q : /\ Waiting(q) = {} => Waiting(q)' = {}
               /\ Single(Waiting(q)) => Single(Waiting(q)')
    BY <1>1, <2>2, <2>5
  <2>7. s \in PortState /\ ~s.accepting /\ ~s.listening /\ s.reopen = t.reopen
        /\ s.pendingStart = t.pendingStart
    BY <2>2 DEF PortState
  <2> HIDE DEF s
  <2>8. PortSound(s, Waiting(p)')
    BY <2>2, <2>6, <2>7 DEF PortSound, Kept, Unkept
  <2>9. StopsLast'
    BY <2>1, <2>2 DEF StopsLast
  <2>10. QED
    BY <1>2, <2>1, <2>2, <2>5, <2>6, <2>7, <2>8, <2>9, OnePortChanges
<1>8. ASSUME Server!OnAcceptAborted \/ Server!Die PROVE ServicesIInv'
  <2>1. /\ h.kind \in {"aborted", "die"} /\ ready' \in {r, ready}
        /\ UNCHANGED <<loader, acceptors, port, game, failures>>
        /\ main' \in {main, "ended"}
    BY <1>8 DEF Server!OnAcceptAborted, Server!Die, Server!Runs
  <2>2. \A q : h \notin ForPort(q)
    BY <1>2, <1>8 DEF Server!OnAcceptAborted, Server!Die, Server!Runs
  <2>3. \A q : /\ Waiting(q) = {} => Waiting(q)' = {}
               /\ Single(Waiting(q)) => Single(Waiting(q)')
    BY <1>1, <2>1, <2>2 DEF Waiting
  <2>4. ready' \in Seq(HandlerSet)
    BY <1>1, <2>1, TypeOfPorts DEF ServicesIInv
  <2>5. Server!TypeOK'
    BY <2>1, <2>4 DEF ServicesIInv, Server!TypeOK, HandlerSet
  <2>6. PortsSound' /\ PortsKept' /\ NotYet'
    BY <2>1, <2>3 DEF ServicesIInv, PortsSound, PortsKept, NotYet, PortSound, Kept, Unkept
  <2>7. StopsLast'
    BY <1>3, <2>1 DEF ServicesIInv, StopsLast
  <2>8. QED
    BY <2>5, <2>6, <2>7 DEF ServicesIInv
<1>9. QED
  BY <1>5, <1>6, <1>7, <1>8 DEF Server!Handle

(* The main thread, the end of the loader and the shutdown.                 *)
LEMMA MainStepsKeep ==
  ASSUME MaxFailures \in Nat, IsFiniteSet(Ports), ServicesIInv,
         Server!MainWaits \/ Server!LoaderEnds \/ Server!GameShutdown \/ Server!DeathTimerExpires
  PROVE  ServicesIInv'
<1> USE DEF ServicesIInv
<1>0. ready \in Seq(HandlerSet) /\ acceptors \subseteq Ports
  BY TypeOfPorts
<1>1. ASSUME Server!MainWaits \/ Server!LoaderEnds PROVE ServicesIInv'
  <2>1. /\ UNCHANGED <<acceptors, port, ready, game, failures>>
        /\ loader' = loader \/ loader' = "done"
        /\ main' \in {main, "waiting", "offline", "serving"}
    BY <1>1 DEF Server!MainWaits, Server!LoaderEnds, Server!Notified
  <2>2. \A q : Waiting(q)' = Waiting(q)
    BY <2>1 DEF Waiting
  <2>3. Server!TypeOK'
    BY <2>1 DEF Server!TypeOK
  <2>4. PortsSound' /\ PortsKept' /\ NotYet' /\ StopsLast'
    BY <2>1, <2>2 DEF PortsSound, PortsKept, NotYet, StopsLast
  <2>5. QED
    BY <2>3, <2>4
<1>2. ASSUME NEW t \in Seq(HandlerSet), ready' = ready \o t,
             \A i \in 1..Len(t) : t[i].kind \in {"stop", "die"},
             \A i \in 1..Len(t) : t[i].kind = "stop" => acceptors' = {} /\ loader = "done",
             acceptors' \in {acceptors, {}}, loader = "done" \/ acceptors' = acceptors,
             game' \in {"open", "closed", "dying", "dead"},
             UNCHANGED <<loader, main, port, failures>>
      PROVE  ServicesIInv'
  <2>1. \A q : Spots(t, ForPort(q)) = {}
    BY <1>2, HandlerFacts, SeqFacts DEF Spots
  <2>2. \A q : Waiting(q)' = Waiting(q)
    BY <1>0, <1>2, <2>1, SpotsConcat DEF Waiting
  <2>3. /\ ready' \in Seq(HandlerSet) /\ Len(ready) \in Nat /\ Len(t) \in Nat
        /\ Len(ready') = Len(ready) + Len(t)
        /\ \A i \in 1..Len(ready) + Len(t) :
             ready'[i] = IF i <= Len(ready) THEN ready[i] ELSE t[i - Len(ready)]
    BY <1>0, <1>2, ConcatProperties, SeqFacts
  <2>4. \A i \in 1..Len(ready') : \/ i \in 1..Len(ready) /\ ready'[i] = ready[i]
                                 \/ \E j \in 1..Len(t) : ready'[i] = t[j]
    BY <2>3
  <2>5. StopsLast'
    BY <1>2, <2>4 DEF StopsLast
  <2>6. Server!TypeOK'
    BY <1>2, <2>3 DEF Server!TypeOK, HandlerSet
  <2>7. PortsSound' /\ PortsKept' /\ NotYet'
    BY <1>2, <2>2 DEF PortsSound, PortsKept, NotYet
  <2>8. QED
    BY <2>5, <2>6, <2>7
<1>3. ASSUME Server!GameShutdown PROVE ServicesIInv'
  <2>1. /\ loader = "done" /\ UNCHANGED <<loader, main, port, failures>>
        /\ game' \in {"open", "closed", "dying", "dead"}
        /\ \/ UNCHANGED <<ready, acceptors>>
           \/ /\ acceptors' = {}
              /\ \E s \in Server!SetToSeqs(acceptors) :
                   ready' = ready \o [i \in DOMAIN s |-> Server!Handler("stop", s[i])]
    BY <1>3 DEF Server!GameShutdown, Server!DeathTimer
  <2>2. CASE UNCHANGED <<ready, acceptors>>
    <3>1. \A q : Waiting(q)' = Waiting(q)
      BY <2>2 DEF Waiting
    <3>2. Server!TypeOK'
      BY <2>1, <2>2 DEF Server!TypeOK
    <3>3. PortsSound' /\ PortsKept' /\ NotYet' /\ StopsLast'
      BY <2>1, <2>2, <3>1 DEF PortsSound, PortsKept, NotYet, StopsLast
    <3>4. QED
      BY <3>2, <3>3
  <2>3. ASSUME acceptors' = {}, NEW s \in Server!SetToSeqs(acceptors),
               ready' = ready \o [i \in DOMAIN s |-> Server!Handler("stop", s[i])]
        PROVE  ServicesIInv'
    <3> DEFINE n == Cardinality(acceptors)
               t == [i \in DOMAIN s |-> Server!Handler("stop", s[i])]
    <3>1. n \in Nat
      BY <1>0, FS_Subset, FS_CardinalityType
    <3>2. s \in [1..n -> acceptors] /\ DOMAIN s = 1..n
      BY <3>1, ServerCount DEF Server!SetToSeqs
    <3>3. \A i \in 1..n : Server!Handler("stop", s[i]) \in HandlerSet
            /\ Server!Handler("stop", s[i]).kind = "stop"
      BY <1>0, <3>2 DEF Server!Handler, HandlerSet
    <3>4. t = [i \in 1..n |-> Server!Handler("stop", s[i])]
      BY <3>2
    <3> HIDE DEF n, t
    <3>5. t \in Seq(HandlerSet) /\ Len(t) = n
      BY <3>1, <3>3, <3>4, IsASeq, LenProperties
    <3>6. \A i \in 1..Len(t) : t[i].kind = "stop"
      BY <3>3, <3>4, <3>5
    <3>7. ready' = ready \o t
      BY <2>3 DEF t
    <3>8. QED
      BY <1>2, <2>1, <2>3, <3>5, <3>6, <3>7
  <2>4. QED
    BY <2>1, <2>2, <2>3
<1>4. ASSUME Server!DeathTimerExpires PROVE ServicesIInv'
  <2> DEFINE d == [kind |-> "die"]
             t == <<d>>
  <2>1. /\ ready' = Append(ready, d) /\ game' = "dead"
        /\ UNCHANGED <<loader, main, acceptors, port, failures>>
    BY <1>4 DEF Server!DeathTimerExpires
  <2>2. d \in HandlerSet /\ d.kind = "die"
    BY DEF HandlerSet
  <2>3. t \in Seq(HandlerSet) /\ Len(t) = 1 /\ t[1] = d
    BY <2>2
  <2>4. ready' = ready \o t
    BY <1>0, <2>1, <2>2, AppendIsConcat
  <2> HIDE DEF t
  <2>5. \A i \in 1..Len(t) : t[i].kind = "die"
    BY <2>2, <2>3
  <2>6. QED
    BY <1>2, <2>1, <2>3, <2>4, <2>5
<1>5. QED
  BY <1>1, <1>3, <1>4

LEMMA ServicesStep ==
  ASSUME MaxFailures \in Nat, IsFiniteSet(Ports), ServicesIInv, [Server!Next]_(Server!vars)
  PROVE  ServicesIInv'
<1>1. CASE UNCHANGED Server!vars
  <2>1. \A q : Waiting(q)' = Waiting(q)
    BY <1>1 DEF Waiting, Server!vars
  <2>2. Server!TypeOK'
    BY <1>1 DEF ServicesIInv, Server!TypeOK, Server!vars
  <2>3. PortsSound' /\ PortsKept' /\ NotYet' /\ StopsLast'
    BY <1>1, <2>1 DEF ServicesIInv, PortsSound, PortsKept, NotYet, StopsLast, Server!vars
  <2>4. QED
    BY <2>2, <2>3 DEF ServicesIInv
<1>2. QED
  BY <1>1, PortStepsKeep, HandlersKeep, MainStepsKeep DEF Server!Next


BanAssumed == MaxBlock \in Nat /\ MaxBlock >= 12

-----------------------------------------------------------------------------
(* Ban::acceptConnection.  The count follows the attempts in a row: it is   *)
(* not less than the quick ones without the last, and not more than the     *)
(* slow ones.                                                               *)
BanIInv ==
  /\ Bans!TypeOK
  /\ \A c \in Clients :
       /\ row[c].fast <= ipConnectMap[c].count + 1
       /\ ipConnectMap[c].count <= row[c].slow
       /\ ipConnectMap[c].known \/ ipConnectMap[c].count = 0

LEMMA BanInitially ==
  ASSUME BanAssumed, Bans!Init
  PROVE  BanIInv
<1> USE DEF Bans!Init
<1>1. ipConnectMap \in [Clients -> [known : BOOLEAN, since : 0..(Bans!Long + 1),
                                    block : 0..MaxBlock, count : 0..5]]
  BY DEF Bans!Long, BanAssumed
<1>2. row \in [Clients -> [fast : 0..7, slow : 0..7]]
  OBVIOUS
<1>3. QED
  BY <1>1, <1>2 DEF BanIInv, Bans!TypeOK

(* What a call does to a block and to its row.                              *)
LEMMA AcceptFacts ==
  ASSUME BanAssumed, BanIInv, NEW c \in Clients, Bans!AcceptConnection(c)
  PROVE  /\ BanIInv'
         /\ \A d \in Clients \ {c} : ipConnectMap'[d] = ipConnectMap[d]
         /\ ipConnectMap'[c].block > ipConnectMap[c].block
              => Bans!Blocked(ipConnectMap[c]) \/ row[c].slow >= 5
<1> DEFINE b == ipConnectMap[c]
           r == row[c]
           a == Bans!After(b)
           s == IF Bans!Blocked(b) THEN r
                ELSE IF Bans!BlockStarts(b) THEN [fast |-> 0, slow |-> 0]
                ELSE [fast |-> IF b.since <= Bans!Quick THEN Bans!Capped(r.fast + 1, 7) ELSE 1,
                      slow |-> IF b.since <= Bans!Long THEN Bans!Capped(r.slow + 1, 7) ELSE 1]
<1>1. /\ ipConnectMap \in [Clients -> [known : BOOLEAN, since : 0..(Bans!Long + 1),
                                       block : 0..MaxBlock, count : 0..5]]
      /\ row \in [Clients -> [fast : 0..7, slow : 0..7]]
      /\ b \in [known : BOOLEAN, since : 0..(Bans!Long + 1), block : 0..MaxBlock, count : 0..5]
      /\ r \in [fast : 0..7, slow : 0..7]
      /\ b.block < MaxBlock
      /\ r.fast <= b.count + 1 /\ b.count <= r.slow /\ (b.known \/ b.count = 0)
  BY DEF BanIInv, Bans!TypeOK, Bans!AcceptConnection
<1>2. /\ ipConnectMap' = [ipConnectMap EXCEPT ![c] = a]
      /\ row' = [row EXCEPT ![c] = s]
  BY DEF Bans!AcceptConnection
<1> USE DEF Bans!Long, Bans!Quick, BanAssumed
<1>3. /\ a \in [known : BOOLEAN, since : 0..(Bans!Long + 1), block : 0..MaxBlock, count : 0..5]
      /\ s \in [fast : 0..7, slow : 0..7]
      /\ s.fast <= a.count + 1 /\ a.count <= s.slow /\ (a.known \/ a.count = 0)
      /\ a.block > b.block => Bans!Blocked(b) \/ r.slow >= 5
  <2> HIDE DEF b, r
  <2>1. CASE Bans!Blocked(b)
    <3>1. a = [b EXCEPT !.block = @ + 1] /\ s = r
      BY <2>1 DEF Bans!After
    <3>2. QED
      BY <1>1, <2>1, <3>1
  <2>2. CASE ~Bans!Blocked(b)
    <3>1. a = [known |-> TRUE, since |-> 0, count |-> Bans!NextCount(b),
               block |-> IF Bans!BlockStarts(b) THEN Bans!BlockTime ELSE 0]
      BY <2>2 DEF Bans!After
    <3>2. Bans!NextCount(b) \in 0..5
      BY <1>1 DEF Bans!NextCount, Bans!IsSixth, Bans!Counts
    <3>3. a \in [known : BOOLEAN, since : 0..(Bans!Long + 1), block : 0..MaxBlock, count : 0..5]
      <4>1. (IF Bans!BlockStarts(b) THEN Bans!BlockTime ELSE 0) \in 0..MaxBlock
        BY DEF Bans!BlockTime
      <4>2. QED
        BY <3>1, <3>2, <4>1
    <3>4. CASE Bans!BlockStarts(b)
      <4>1. s = [fast |-> 0, slow |-> 0]
        BY <2>2, <3>4
      <4>2. b.count = 5 /\ Bans!NextCount(b) = 0
        BY <3>4 DEF Bans!BlockStarts, Bans!NextCount, Bans!IsSixth
      <4>3. QED
        BY <1>1, <3>1, <3>3, <4>1, <4>2
    <3>5. CASE ~Bans!BlockStarts(b)
      <4>1. s = [fast |-> IF b.since <= Bans!Quick THEN Bans!Capped(r.fast + 1, 7) ELSE 1,
                 slow |-> IF b.since <= Bans!Long THEN Bans!Capped(r.slow + 1, 7) ELSE 1]
        BY <2>2, <3>5
      <4>2. s \in [fast : 0..7, slow : 0..7]
        BY <1>1, <4>1 DEF Bans!Capped
      <4>3. ~(a.block > b.block)
        BY <1>1, <3>1, <3>5
      <4>4. a.count = Bans!NextCount(b) /\ a.known
        BY <3>1
      <4> HIDE DEF a, s
      <4>5. s.fast <= Bans!NextCount(b) + 1
        <5>1. CASE b.since <= Bans!Quick
          <6>1. Bans!Counts(b) => Bans!NextCount(b) = b.count + 1
            BY <3>5, <5>1 DEF Bans!BlockStarts, Bans!NextCount, Bans!IsSixth
          <6>2. b.since <= Bans!Long
            <7>1. b.since \in 0..21
              BY <1>1
            <7>2. QED
              BY <5>1, <7>1
          <6>3. ~Bans!Counts(b) => Bans!NextCount(b) = 1
            BY DEF Bans!NextCount, Bans!IsSixth
          <6>4. ~Bans!Counts(b) => ~b.known
            BY <6>2 DEF Bans!Counts
          <6>5. QED
            BY <1>1, <4>1, <5>1, <6>1, <6>3, <6>4 DEF Bans!Capped
        <5>2. CASE ~(b.since <= Bans!Quick)
          BY <1>1, <3>2, <4>1, <5>2
        <5>3. QED
          BY <5>1, <5>2
      <4>6. Bans!NextCount(b) <= s.slow
        BY <1>1, <4>1 DEF Bans!Capped, Bans!NextCount, Bans!IsSixth, Bans!Counts
      <4>7. QED
        BY <3>3, <4>2, <4>3, <4>4, <4>5, <4>6
    <3>6. QED
      BY <3>4, <3>5
  <2>3. QED
    BY <2>1, <2>2
<1> HIDE DEF a, s
<1>4. /\ ipConnectMap'[c] = a /\ row'[c] = s
      /\ \A d \in Clients \ {c} : ipConnectMap'[d] = ipConnectMap[d] /\ row'[d] = row[d]
  BY <1>1, <1>2
<1>5. Bans!TypeOK'
  BY <1>1, <1>2, <1>3 DEF Bans!TypeOK
<1>6. \A d \in Clients : /\ row'[d].fast <= ipConnectMap'[d].count + 1
                         /\ ipConnectMap'[d].count <= row'[d].slow
                         /\ ipConnectMap'[d].known \/ ipConnectMap'[d].count = 0
  BY <1>3, <1>4 DEF BanIInv
<1>7. QED
  BY <1>3, <1>4, <1>5, <1>6 DEF BanIInv

LEMMA TickFacts ==
  ASSUME BanAssumed, BanIInv, Bans!Tick
  PROVE  BanIInv' /\ \A c \in Clients : ~(ipConnectMap'[c].block > ipConnectMap[c].block)
<1> USE DEF Bans!Long, BanAssumed
<1>1. /\ ipConnectMap \in [Clients -> [known : BOOLEAN, since : 0..(Bans!Long + 1),
                                       block : 0..MaxBlock, count : 0..5]]
      /\ row \in [Clients -> [fast : 0..7, slow : 0..7]] /\ row' = row
  BY DEF BanIInv, Bans!TypeOK, Bans!Tick
<1>2. ipConnectMap' = [c \in Clients |->
       [ipConnectMap[c] EXCEPT
          !.since = IF ipConnectMap[c].known THEN Bans!Capped(@ + 1, Bans!Long + 1) ELSE @,
          !.block = IF @ > 0 THEN @ - 1 ELSE 0]]
  BY DEF Bans!Tick
<1>3. ASSUME NEW c \in Clients
      PROVE  /\ ipConnectMap'[c] \in [known : BOOLEAN, since : 0..(Bans!Long + 1),
                                      block : 0..MaxBlock, count : 0..5]
             /\ ipConnectMap'[c].count = ipConnectMap[c].count
             /\ ipConnectMap'[c].known = ipConnectMap[c].known
             /\ ~(ipConnectMap'[c].block > ipConnectMap[c].block)
  <2> DEFINE b == ipConnectMap[c]
             n == IF b.known THEN Bans!Capped(b.since + 1, Bans!Long + 1) ELSE b.since
             k == IF b.block > 0 THEN b.block - 1 ELSE 0
  <2>1. b \in [known : BOOLEAN, since : 0..(Bans!Long + 1), block : 0..MaxBlock, count : 0..5]
    BY <1>1
  <2>2. ipConnectMap'[c] = [b EXCEPT !.since = n, !.block = k]
    BY <1>2
  <2> HIDE DEF b
  <2>3. n \in 0..(Bans!Long + 1)
    BY <2>1 DEF Bans!Capped
  <2>4. k \in 0..MaxBlock /\ k <= b.block
    BY <2>1
  <2> HIDE DEF n, k
  <2>5. /\ [b EXCEPT !.since = n, !.block = k]
              \in [known : BOOLEAN, since : 0..(Bans!Long + 1), block : 0..MaxBlock, count : 0..5]
        /\ [b EXCEPT !.since = n, !.block = k].count = b.count
        /\ [b EXCEPT !.since = n, !.block = k].known = b.known
        /\ [b EXCEPT !.since = n, !.block = k].block = k
    BY <2>1, <2>3, <2>4
  <2>6. k <= b.block /\ k \in Nat /\ b.block \in Nat
    BY <2>1, <2>4
  <2>7. /\ ipConnectMap'[c].block = k /\ ipConnectMap'[c].count = b.count
        /\ ipConnectMap'[c].known = b.known
        /\ ipConnectMap'[c] \in [known : BOOLEAN, since : 0..(Bans!Long + 1),
                                 block : 0..MaxBlock, count : 0..5]
    BY <2>2, <2>5
  <2>8. ~(k > b.block)
    BY <2>6
  <2>9. QED
    BY <2>7, <2>8 DEF b
<1>4. Bans!TypeOK'
  BY <1>1, <1>2, <1>3 DEF Bans!TypeOK
<1>5. QED
  BY <1>1, <1>3, <1>4 DEF BanIInv

LEMMA BanStep ==
  ASSUME BanAssumed, BanIInv, [Bans!Next]_(Bans!vars)
  PROVE  /\ BanIInv'
         /\ \A c \in Clients :
              ipConnectMap'[c].block > ipConnectMap[c].block
                => Bans!Blocked(ipConnectMap[c]) \/ row[c].slow >= 5
<1>0. \A c \in Clients : ipConnectMap[c].block \in Nat
  BY DEF BanIInv, Bans!TypeOK, BanAssumed
<1>1. CASE UNCHANGED Bans!vars
  BY <1>0, <1>1 DEF Bans!vars, BanIInv, Bans!TypeOK
<1>2. CASE Bans!Tick
  BY <1>2, TickFacts
<1>3. ASSUME NEW c \in Clients, Bans!AcceptConnection(c)
      PROVE  /\ BanIInv'
             /\ \A d \in Clients :
                  ipConnectMap'[d].block > ipConnectMap[d].block
                    => Bans!Blocked(ipConnectMap[d]) \/ row[d].slow >= 5
  BY <1>0, <1>3, AcceptFacts
<1>4. QED
  BY <1>1, <1>2, <1>3 DEF Bans!Next

LEMMA BanBounds ==
  ASSUME BanIInv
  PROVE  Bans!BanInv
BY DEF BanIInv, Bans!BanInv, Bans!TypeOK

-----------------------------------------------------------------------------
(* The theorems of the run: whichever component is busy, the others stand   *)
(* still, so that every step is a step of each component or leaves it alone. *)
LEMMA Apart ==
  [AsioNext]_asioVars =>
    /\ [Timers!LuaNext]_(Timers!allVars)
    /\ [Server!Next]_(Server!vars)
    /\ [Bans!Next]_(Bans!vars)
    /\ [Next]_vars
<1> SUFFICES ASSUME [AsioNext]_asioVars
             PROVE  /\ [Timers!LuaNext]_(Timers!allVars)
                    /\ [Server!Next]_(Server!vars)
                    /\ [Bans!Next]_(Bans!vars)
                    /\ [Next]_vars
  OBVIOUS
<1>1. /\ Timers!LuaNext \/ UNCHANGED timerVars
      /\ Server!Next \/ UNCHANGED serverVars
      /\ Bans!Next \/ UNCHANGED banVars
      /\ Next \/ UNCHANGED vars
  BY DEF AsioNext, asioVars
<1>2. UNCHANGED timerVars => UNCHANGED Timers!allVars
  BY DEF timerVars, Timers!allVars, Timers!vars, Timers!schedVars, Timers!luaVars
<1>3. UNCHANGED serverVars => UNCHANGED Server!vars
  BY DEF serverVars, Server!vars
<1>4. UNCHANGED banVars => UNCHANGED Bans!vars
  BY DEF banVars, Bans!vars
<1>5. QED
  BY <1>1, <1>2, <1>3, <1>4

(* The delayed events, the tasks they post and the table of the scripts'    *)
(* timers agree at every moment: an event runs at most once, never after it *)
(* was stopped, and every entry of the table has a task on its way that     *)
(* takes it out (scheduler.cpp, LuaEnvironment::executeTimerEvent).         *)
THEOREM TimersAgree == AsioSpec => []TimersInv
<1>1. AsioInit => LuaIInv
  BY AsioAssumption, LuaInitially DEF AsioInit
<1>2. LuaIInv /\ [AsioNext]_asioVars => LuaIInv'
  BY AsioAssumption, LuaStep, Apart
<1>3. LuaIInv => TimersInv
  BY Counted DEF LuaIInv, TimersInv
<1>4. QED
  BY <1>1, <1>2, <1>3, PTL DEF AsioSpec

(* A port of the server is always kept by exactly what is to call it next:  *)
(* an accept in progress or an openAcceptor on its way, and never by two     *)
(* (ServicePort::onAccept, ServiceManager::add, the reopening after errors). *)
THEOREM ServicesAreKept == AsioSpec => []ServicesInv
<1>1. AsioInit => ServicesIInv
  BY AsioAssumption, ServicesInitially DEF AsioInit
<1>2. ServicesIInv /\ [AsioNext]_asioVars => ServicesIInv'
  BY AsioAssumption, ServicesStep, Apart
<1>3. ServicesIInv => ServicesInv
  BY AsioAssumption, AtMostOneKeeper DEF ServicesInv
<1>4. QED
  BY <1>1, <1>2, <1>3, PTL DEF AsioSpec

(* No client is blocked longer than it has earned, and only one that        *)
(* connected too often is blocked (Ban::acceptConnection).                  *)
THEOREM ClientsAreBannedFairly == AsioSpec => BansAreFair
<1>1. AsioInit => BanIInv
  BY AsioAssumption, BanInitially DEF AsioInit, BanAssumed
<1>2. BanIInv /\ [AsioNext]_asioVars => BanIInv'
  BY AsioAssumption, BanStep, Apart DEF BanAssumed
<1>3. BanIInv => Bans!BanInv
  BY AsioAssumption, BanBounds DEF BanAssumed
<1>4. BanIInv /\ [AsioNext]_asioVars =>
        [\A c \in Clients :
       ipConnectMap'[c].block > ipConnectMap[c].block
         => Bans!Blocked(ipConnectMap[c]) \/ row[c].slow >= 5]_(Bans!vars)
  BY AsioAssumption, BanStep, Apart DEF BanAssumed
<1>5. QED
  BY <1>1, <1>2, <1>3, <1>4, PTL
     DEF AsioSpec, BansAreFair, Bans!BansAreFair, Bans!BlocksAreEarned

=============================================================================
