------------------------------ MODULE TaskQueue ------------------------------
(***************************************************************************)
(* What the dispatcher promises to the threads that call addTask: one      *)
(* queue, served from its head, that takes each task at most once.  It is  *)
(* opened once and closed by the task that asks the server to quit: what   *)
(* was accepted until then, before or after Game::shutdown, is served      *)
(* before the terminating task, and nothing is accepted behind that one.   *)
(* Only a queue that nobody has asked to quit may be terminated otherwise. *)
(***************************************************************************)
EXTENDS Naturals, Sequences, Lists

CONSTANTS Work, Quit, GameShutdown, Terminate

VARIABLES queue, served, open

vars == <<queue, served, open>>

Known == Elems(queue) \cup Elems(served)

Init ==
  /\ queue = <<>>
  /\ served = <<>>
  /\ open = FALSE

Open ==
  /\ Known = {} /\ ~open
  /\ open' = TRUE
  /\ UNCHANGED <<queue, served>>

Accept(t) ==
  /\ open
  /\ t \notin Known
  /\ queue' = Append(queue, t)
  /\ UNCHANGED <<served, open>>

(* Only the task that closes the queue adds Game::shutdown. *)
AcceptShutdown ==
  /\ queue # <<>> /\ Head(queue) \in Quit
  /\ Accept(GameShutdown)

(* main gives up before anybody could ask the server to quit. *)
Abort ==
  /\ Known \subseteq Work
  /\ queue' = Append(queue, Terminate)
  /\ UNCHANGED <<served, open>>

Served ==
  /\ queue # <<>>
  /\ queue' = Tail(queue)
  /\ served' = Append(served, Head(queue))

Serve == Served /\ Head(queue) \in Work /\ UNCHANGED open

(* Game::shutdown is in the queue once it is closed by a task. *)
ServeAndClose ==
  /\ Served /\ Head(queue) \in Quit \cup {Terminate}
  /\ Head(queue) \in Quit => GameShutdown \in Known
  /\ open' = FALSE

ServeAndTerminate ==
  /\ queue # <<>> /\ Head(queue) = GameShutdown
  /\ ~open
  /\ queue' = Append(Tail(queue), Terminate)
  /\ served' = Append(served, GameShutdown)
  /\ UNCHANGED open

Next ==
  \/ Open
  \/ \E t \in Work \cup Quit : Accept(t)
  \/ AcceptShutdown
  \/ Abort
  \/ Serve
  \/ ServeAndClose
  \/ ServeAndTerminate

Spec == Init /\ [][Next]_vars
=============================================================================
