------------------------------ MODULE Services ------------------------------
(***************************************************************************)
(* The service ports (server.cpp) and the main thread that serves them     *)
(* (otserv.cpp).  The dispatcher opens the ports while main waits for the  *)
(* loader, and again 15 seconds after an open or an accept has failed; the *)
(* handlers of the accepts run on the main thread, in the order in which   *)
(* they became ready.  Game::shutdown, on the dispatcher, stops it all.    *)
(* What becomes of an accepted connection is in Connection, who is let in  *)
(* in Ban.  A port has its services before main runs its io_service.       *)
(***************************************************************************)
EXTENDS Naturals, Sequences, FiniteSets, SequencesExt

CONSTANTS
  Ports,
  MaxFailures,  \* bound: opens and accepts that fail
  Prompt        \* main has got to its wait, and then to run, by the time the
                \* dispatcher goes on

VARIABLES
  loader,    \* mainLoader: loading, or done (it has notified main)
  main,      \* where the main thread is
  acceptors, \* ports in ServiceManager::acceptors
  port,      \* the ServicePort of each port, see TypeOK
  ready,     \* handlers io_service has ready, oldest first
  game,      \* open, or closed by Game::shutdown, and death_timer
  failures

vars == <<loader, main, acceptors, port, ready, game, failures>>

(* listening: the acceptor is open.  accepting: an async_accept is neither  *)
(* complete nor aborted.  reopen: where an openAcceptor is that has not run *)
(* yet, in the scheduler or in the dispatcher's queue.                      *)
TypeOK ==
  /\ loader \in {"loading", "done"}
  /\ main \in {"starting", "waiting", "serving", "offline", "ended"}
  /\ acceptors \subseteq Ports
  /\ port \in [Ports -> [listening : BOOLEAN, accepting : BOOLEAN,
                         pendingStart : BOOLEAN,
                         reopen : {"none", "timer", "task"}]]
  /\ ready \in Seq([kind : {"accepted", "failed", "aborted", "stop"}, port : Ports]
                   \cup {[kind |-> "die"]})
  /\ game \in {"open", "closed", "dying", "dead"}
  /\ failures \in 0..MaxFailures

Init ==
  /\ loader = "loading"
  /\ main = "starting"
  /\ acceptors = {}
  /\ port = [p \in Ports |-> [listening |-> FALSE, accepting |-> FALSE,
                              pendingStart |-> FALSE, reopen |-> "none"]]
  /\ ready = <<>>
  /\ game = "open"
  /\ failures = 0

(* Variants of the operators below, each with one slip a change of this     *)
(* code could make; the runs must notice them.                              *)
NotAgain(s) == s
StillPending(s) == s.pendingStart
NotifiesNobody == main
NoDeathTimer == "closed"

-----------------------------------------------------------------------------
(* ServicePort. *)

Handler(kind, p) == [kind |-> kind, port |-> p]

(* async_accept on the acceptor of s; on a closed one it completes at once, *)
(* with an error that is not operation_aborted (see AcceptAgain).           *)
Accepting(s) == [s EXCEPT !.accepting = s.listening]

Retry(s) == [s EXCEPT !.pendingStart = TRUE, !.reopen = "timer"]

Closed(s) == [s EXCEPT !.listening = FALSE, !.accepting = FALSE]

PendingInOpen(s) == FALSE

Opened(s) ==
  Accepting([s EXCEPT !.listening = TRUE, !.pendingStart = PendingInOpen(s),
                      !.reopen = "none"])

Fails == failures < MaxFailures /\ failures' = failures + 1

(* open.  It closes the acceptor first, which no accept is waiting for.     *)
Open(p) ==
  \/ port' = [port EXCEPT ![p] = Opened(@)] /\ UNCHANGED failures
  \/ port' = [port EXCEPT ![p] = Retry(Closed(@))] /\ Fails

(* ServiceManager::add, by the loader.  A port that could not be opened is  *)
(* kept.                                                                    *)
Add(p) ==
  /\ loader = "loading" /\ p \notin acceptors
  /\ acceptors' = acceptors \cup {p}
  /\ Open(p)
  /\ UNCHANGED <<loader, main, ready, game>>

(* A client connects, or the accept fails (no file descriptor is left). *)
Complete(kind, p) ==
  /\ port[p].accepting
  /\ port' = [port EXCEPT ![p].accepting = FALSE]
  /\ ready' = Append(ready, Handler(kind, p))
  /\ UNCHANGED <<loader, main, acceptors, game>>

Incoming(p) == Complete("accepted", p) /\ UNCHANGED failures
AcceptError(p) == Complete("failed", p) /\ Fails

(* The scheduler's event is due; its events end with the game. *)
ReopenTimer(p) ==
  /\ port[p].reopen = "timer" /\ game = "open"
  /\ port' = [port EXCEPT ![p].reopen = "task"]
  /\ UNCHANGED <<loader, main, acceptors, ready, game, failures>>

(* openAcceptor.  Its weak pointer can be locked: the manager keeps the     *)
(* port until Game::shutdown, the last task of the dispatcher.              *)
OpenAcceptor(p) ==
  /\ port[p].reopen = "task"
  /\ Open(p)
  /\ UNCHANGED <<loader, main, acceptors, ready, game>>

-----------------------------------------------------------------------------
(* The handlers, on the main thread. *)

Runs(kind) == main = "serving" /\ ready # <<>> /\ Head(ready).kind = kind
Current == Head(ready).port

(* onAccept without an error; the connection is passed on or closed. *)
AcceptAgain(s) == Accepting(s)

OnAccept ==
  /\ Runs("accepted")
  /\ port' = [port EXCEPT ![Current] = AcceptAgain(@)]
  /\ ready' = IF port[Current].listening THEN Tail(ready)
              ELSE Append(Tail(ready), Handler("failed", Current))
  /\ UNCHANGED <<loader, main, acceptors, game, failures>>

OnAcceptError ==
  /\ Runs("failed")
  /\ port' = [port EXCEPT ![Current] = IF @.pendingStart THEN @ ELSE Retry(Closed(@))]
  /\ ready' = Tail(ready)
  /\ UNCHANGED <<loader, main, acceptors, game, failures>>

OnAcceptAborted ==
  /\ Runs("aborted")
  /\ ready' = Tail(ready)
  /\ UNCHANGED <<loader, main, acceptors, port, game, failures>>

OnStopServer ==
  /\ Runs("stop")
  /\ port' = [port EXCEPT ![Current] = Closed(@)]
  /\ ready' = IF port[Current].accepting
              THEN Append(Tail(ready), Handler("aborted", Current)) ELSE Tail(ready)
  /\ UNCHANGED <<loader, main, acceptors, game, failures>>

Die ==
  /\ Runs("die")
  /\ main' = "ended"
  /\ UNCHANGED <<loader, acceptors, port, ready, game, failures>>

-----------------------------------------------------------------------------
(* main waits for the loader without a predicate. *)
MainWaits ==
  /\ main = "starting"
  /\ main' = "waiting"
  /\ UNCHANGED <<loader, acceptors, port, ready, game, failures>>

(* What notify_all does to main, which then looks whether there are ports. *)
Notified ==
  IF main # "waiting" THEN main
  ELSE IF acceptors = {} THEN "offline" ELSE "serving"

(* The end of mainLoader, or startupErrorMessage before any port is added. *)
LoaderEnds ==
  /\ loader = "loading" /\ acceptors \in {{}, Ports}
  /\ Prompt => main = "waiting"
  /\ loader' = "done"
  /\ main' = Notified
  /\ UNCHANGED <<acceptors, port, ready, game, failures>>

(* Game::shutdown, after all tasks before it, with ServiceManager::stop,    *)
(* which does nothing unless main has reached run.                          *)
DeathTimer == "dying"

GameShutdown ==
  /\ loader = "done" /\ game = "open" /\ acceptors # {}
  /\ \A p \in Ports : port[p].reopen # "task"
  /\ Prompt => main = "serving"
  /\ IF main = "serving"
     THEN /\ \E s \in SetToSeqs(acceptors) :
               ready' = ready \o [i \in DOMAIN s |-> Handler("stop", s[i])]
          /\ acceptors' = {}
          /\ game' = DeathTimer
     ELSE game' = "closed" /\ UNCHANGED <<ready, acceptors>>
  /\ UNCHANGED <<loader, main, port, failures>>

DeathTimerExpires ==
  /\ game = "dying"
  /\ game' = "dead"
  /\ ready' = Append(ready, [kind |-> "die"])
  /\ UNCHANGED <<loader, main, acceptors, port, failures>>

Handle == OnAccept \/ OnAcceptError \/ OnAcceptAborted \/ OnStopServer \/ Die

Next ==
  \/ \E p \in Ports : \/ Add(p) \/ Incoming(p) \/ AcceptError(p)
                      \/ ReopenTimer(p) \/ OpenAcceptor(p)
  \/ Handle \/ MainWaits \/ LoaderEnds \/ GameShutdown \/ DeathTimerExpires

(* Threads run, and timers expire.  Nobody has to connect, no accept has to *)
(* fail, and the server need not be shut down.                              *)
Fairness ==
  /\ WF_vars(Handle) /\ WF_vars(MainWaits) /\ WF_vars(LoaderEnds)
  /\ WF_vars(DeathTimerExpires)
  /\ \A p \in Ports : WF_vars(Add(p)) /\ WF_vars(ReopenTimer(p))
                      /\ WF_vars(OpenAcceptor(p))

Spec == Init /\ [][Next]_vars
FairSpec == Spec /\ Fairness

-----------------------------------------------------------------------------
(* What keeps a port going: the operation that waits for a client, its      *)
(* handler, or the event that opens the port again.                         *)
Keepers(p) ==
  {k \in {"operation", "handler", "event"} :
     CASE k = "operation" -> port[p].accepting
       [] k = "handler" -> \E i \in DOMAIN ready :
                             ready[i].kind \in {"accepted", "failed"}
                               /\ ready[i].port = p
       [] k = "event" -> port[p].reopen # "none"}

(* A port of a running server never has none of them, which would leave it  *)
(* deaf for good, nor two, which would close an acceptor under another       *)
(* accept or open the port twice.                                           *)
ServicesInv ==
  /\ TypeOK
  /\ \A p \in Ports :
       /\ Cardinality(Keepers(p)) <= 1
       /\ p \in acceptors => Keepers(p) # {}
       /\ port[p].accepting => port[p].listening

(* After every failed open or accept, alone or in a row, a port waits for   *)
(* a client again, unless the server is shut down.                          *)
ListensAgain ==
  \A p \in Ports : p \in acceptors ~> (port[p].accepting \/ game # "open")

(* main does not sleep through the end of the loader, and after a shutdown   *)
(* it returns from run although ports accept clients until they stop.        *)
MainGoesOn ==
  /\ main = "waiting" ~> main # "waiting"
  /\ game # "open" ~> main = "ended"

(* Neither a port nor the main thread is stuck. *)
ServerGoesOn == ListensAgain /\ MainGoesOn
=============================================================================
