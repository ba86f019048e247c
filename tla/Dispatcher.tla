----------------------------- MODULE Dispatcher -----------------------------
(***************************************************************************)
(* The dispatcher thread of the game server (tasks.h, tasks.cpp): a list   *)
(* of tasks guarded by taskLock, a condition variable taskSignal, and one  *)
(* thread that swaps the list out and runs what it got.  All game logic    *)
(* runs as such tasks.  Other threads (network, scheduler, database) only  *)
(* add tasks.  The end of the thread is driven by three tasks, modelled    *)
(* with the part of Game that creates them: a signal handler calls         *)
(* Game::setGameState(GAME_STATE_SHUTDOWN), which kicks everybody, queues  *)
(* Game::shutdown and later closes the dispatcher, and Game::shutdown      *)
(* queues the lambda that terminates the loop.  Until the dispatcher is    *)
(* closed the other threads go on adding tasks, behind Game::shutdown too. *)
(*                                                                         *)
(* A critical section under taskLock is one step; what the code does       *)
(* before taking or after releasing the lock is a step of its own.  The    *)
(* state of the thread is set without the lock and tested under it: an     *)
(* adder that has tested it before it was set is taken to have added       *)
(* before, which nobody can tell, for the list is still locked.            *)
(***************************************************************************)
EXTENDS Naturals, Sequences, FiniteSets, Lists

CONSTANTS
  Work,          \* ordinary tasks
  Timed,         \* those created with an expiration (Task(ms, ...))
  Quit,          \* SIGINT/SIGTERM handler tasks
  GameShutdown,  \* the task running Game::shutdown
  Terminate      \* the lambda queued by Dispatcher::shutdown

ASSUME TaskAssumption ==
  /\ Timed \subseteq Work
  /\ Work \cap Quit = {}
  /\ GameShutdown \notin Work \cup Quit
  /\ Terminate \notin Work \cup Quit \cup {GameShutdown}

VARIABLES
  threadState,  \* ThreadHolder::threadState
  taskList,     \* Dispatcher::taskList
  tmpTaskList,  \* the batch the thread swapped out, current task first
  pc,           \* where the dispatcher thread is
  owed,         \* tasks whose adder released taskLock with do_signal set
                \* and has not called notify_one yet
  gameClosing,  \* gameState = GAME_STATE_SHUTDOWN
  main,         \* main: waiting for the loader, serving, or giving up
  accepted,     \* history: tasks put into taskList, in that order
  done          \* history: tasks run or found expired, in that order

vars == <<threadState, taskList, tmpTaskList, pc, owed, gameClosing, main,
          accepted, done>>

Task == Work \cup Quit \cup {GameShutdown, Terminate}

(* Everything ever handed to addTask by a thread other than the dispatcher *)
(* is a fresh object: a pointer is added once.                             *)
Fresh(t) == t \notin Elems(accepted)

TypeOK ==
  /\ threadState \in {"TERMINATED", "RUNNING", "CLOSING"}
  /\ taskList \in Seq(Task)
  /\ tmpTaskList \in Seq(Task)
  /\ pc \in {"off", "loop", "lock", "wait", "swap", "next", "exec", "quit", "stop",
             "exit"}
  /\ owed \subseteq Task
  /\ gameClosing \in BOOLEAN
  /\ main \in {"loading", "online", "aborted"}
  /\ accepted \in Seq(Task)
  /\ done \in Seq(Task)

-----------------------------------------------------------------------------
Init ==
  /\ threadState = "TERMINATED"
  /\ taskList = <<>>
  /\ tmpTaskList = <<>>
  /\ pc = "off"
  /\ owed = {}
  /\ gameClosing = FALSE
  /\ main = "loading"
  /\ accepted = <<>>
  /\ done = <<>>

(* ThreadHolder::start, called by main before anything else runs. *)
Start ==
  /\ pc = "off"
  /\ threadState' = "RUNNING"
  /\ pc' = "loop"
  /\ UNCHANGED <<taskList, tmpTaskList, owed, gameClosing, main, accepted,
                 done>>

(* Variants of the operators below, each with one slip a change of this     *)
(* code could make; the runs must notice them.                              *)
PushFront(t) ==             \* the insert that is commented out in addTask
  /\ taskList' = <<t>> \o taskList
  /\ accepted' = Append(accepted, t)
DoSignalAfterPush == FALSE  \* empty() read after the push_back
NotifyNobody == UNCHANGED pc
StopMissing == UNCHANGED threadState
FinishWholeBatch ==
  /\ pc' = "next"
  /\ tmpTaskList' = Tail(tmpTaskList)
  /\ done' = Append(done, tmpTaskList)
AddTerminate ==             \* Dispatcher::shutdown going through addTask
  IF threadState = "RUNNING"
  THEN /\ taskList' = Append(taskList, Terminate)
       /\ accepted' = Append(accepted, Terminate)
  ELSE UNCHANGED <<taskList, accepted>>

Push(t) ==
  /\ taskList' = Append(taskList, t)
  /\ accepted' = Append(accepted, t)

DoSignal == taskList = <<>>

(* Dispatcher::addTask up to the unlock, by a thread that is not the        *)
(* dispatcher.  A task refused because the thread is not running is deleted *)
(* and leaves no trace.                                                     *)
AddTask(t) ==
  /\ Fresh(t)
  /\ t \in Quit => main = "online"
  /\ pc # "off"
  /\ threadState = "RUNNING"
  /\ owed' = IF DoSignal THEN owed \cup {t} ELSE owed
  /\ Push(t)
  /\ UNCHANGED <<threadState, tmpTaskList, pc, gameClosing, main, done>>

(* notify_one wakes the thread if it is blocked in wait, and is lost if not. *)
NotifyOne == pc' = IF pc = "wait" THEN "swap" ELSE pc

(* addTask after the unlock, when do_signal is set. *)
Signal(t) ==
  /\ t \in owed
  /\ owed' = owed \ {t}
  /\ NotifyOne
  /\ UNCHANGED <<threadState, taskList, tmpTaskList, gameClosing, main,
                 accepted, done>>

(* The push of Dispatcher::shutdown: no test of the state. *)
PushTerminate == Push(Terminate)

(* main after the loader signalled it: ServiceManager::run when a service is *)
(* open.  From here on the signal set of the io_service is served.           *)
Online ==
  /\ main = "loading" /\ pc # "off"
  /\ main' = "online"
  /\ UNCHANGED <<threadState, taskList, tmpTaskList, pc, owed, gameClosing,
                 accepted, done>>

(* main when no service is open: Dispatcher::shutdown from outside, pushing *)
(* and notifying under the lock, without a stop() before it.                *)
Abort ==
  /\ main = "loading" /\ pc # "off"
  /\ main' = "aborted"
  /\ PushTerminate
  /\ NotifyOne
  /\ UNCHANGED <<threadState, tmpTaskList, owed, gameClosing, done>>

-----------------------------------------------------------------------------
(* The dispatcher thread, Dispatcher::threadMain. *)

CheckState ==
  /\ pc = "loop"
  /\ pc' = IF threadState # "TERMINATED" THEN "lock" ELSE "exit"
  /\ UNCHANGED <<threadState, taskList, tmpTaskList, owed, gameClosing,
                 main, accepted, done>>

(* Under taskLock: wait when the list is empty, else go on holding the lock. *)
LockTaskList ==
  /\ pc = "lock"
  /\ IF taskList = <<>>
     THEN /\ pc' = "wait"
          /\ UNCHANGED <<taskList, tmpTaskList>>
     ELSE /\ pc' = "next"
          /\ tmpTaskList' = taskList
          /\ taskList' = tmpTaskList
  /\ UNCHANGED <<threadState, owed, gameClosing, main, accepted, done>>

(* A condition variable may return from wait without a notification. *)
SpuriousWakeup ==
  /\ pc = "wait"
  /\ pc' = "swap"
  /\ UNCHANGED <<threadState, taskList, tmpTaskList, owed, gameClosing,
                 main, accepted, done>>

(* wait returns with taskLock held; the list is swapped without a new test. *)
SwapTaskList ==
  /\ pc = "swap"
  /\ tmpTaskList' = taskList
  /\ taskList' = tmpTaskList
  /\ pc' = "next"
  /\ UNCHANGED <<threadState, owed, gameClosing, main, accepted, done>>

Current == Head(tmpTaskList)

(* The step of the for loop: an expired task is dropped, another one runs. *)
NextTask ==
  /\ pc = "next"
  /\ tmpTaskList # <<>>
  /\ \/ /\ pc' = "exec"
        /\ UNCHANGED <<tmpTaskList, done>>
     \/ /\ Current \in Timed
        /\ tmpTaskList' = Tail(tmpTaskList)
        /\ done' = Append(done, Current)
        /\ UNCHANGED pc
  /\ UNCHANGED <<threadState, taskList, owed, gameClosing, main, accepted>>

EndOfBatch ==
  /\ pc = "next"
  /\ tmpTaskList = <<>>
  /\ pc' = "loop"
  /\ UNCHANGED <<threadState, taskList, tmpTaskList, owed, gameClosing,
                 main, accepted, done>>

Finish ==
  /\ pc' = "next"
  /\ tmpTaskList' = Tail(tmpTaskList)
  /\ done' = Append(done, Current)

(* A running task adds another one, as do the kicks in setGameState; the     *)
(* notification finds nobody waiting.                                        *)
TaskAdds(t) ==
  /\ pc = "quit" \/ (pc = "exec" /\ Current \in Work)
  /\ Fresh(t)
  /\ threadState = "RUNNING"
  /\ Push(t)
  /\ UNCHANGED <<threadState, tmpTaskList, pc, owed, gameClosing, main,
                 done>>

RunWork ==
  /\ pc = "exec"
  /\ Current \in Work
  /\ Finish
  /\ UNCHANGED <<threadState, taskList, owed, gameClosing, main, accepted>>

(* Game::setGameState(GAME_STATE_SHUTDOWN) up to the end of the kicks and    *)
(* saves; a later call returns at once.                                     *)
SetGameState ==
  /\ pc = "exec"
  /\ Current \in Quit
  /\ gameClosing' = TRUE
  /\ IF gameClosing
     THEN Finish
     ELSE pc' = "quit" /\ UNCHANGED <<tmpTaskList, done>>
  /\ UNCHANGED <<threadState, taskList, owed, main, accepted>>

(* Its addTask of Game::shutdown, which tests the state like any other. *)
QueueShutdown ==
  /\ pc = "quit"
  /\ pc' = "stop"
  /\ IF threadState = "RUNNING"
     THEN Push(GameShutdown)
     ELSE UNCHANGED <<taskList, accepted>>
  /\ UNCHANGED <<threadState, tmpTaskList, owed, gameClosing, main, done>>

(* ThreadHolder::stop, called for the dispatcher after the other threads'. *)
Stop == threadState' = "CLOSING"

StopDispatcher ==
  /\ pc = "stop"
  /\ Stop
  /\ Finish
  /\ UNCHANGED <<taskList, owed, gameClosing, main, accepted>>

(* Game::shutdown calls Dispatcher::shutdown, which pushes whatever the state. *)
RunGameShutdown ==
  /\ pc = "exec"
  /\ Current = GameShutdown
  /\ Finish
  /\ PushTerminate
  /\ UNCHANGED <<threadState, owed, gameClosing, main>>

RunTerminate ==
  /\ pc = "exec"
  /\ Current = Terminate
  /\ Finish
  /\ threadState' = "TERMINATED"
  /\ UNCHANGED <<taskList, owed, gameClosing, main, accepted>>

-----------------------------------------------------------------------------
ThreadStep ==
  \/ CheckState \/ LockTaskList \/ SwapTaskList \/ NextTask \/ EndOfBatch
  \/ RunWork \/ SetGameState \/ QueueShutdown \/ StopDispatcher
  \/ RunGameShutdown \/ RunTerminate

Next ==
  \/ Start \/ Online \/ Abort
  \/ \E t \in Work \cup Quit : AddTask(t) \/ Signal(t)
  \/ \E t \in Work : TaskAdds(t)
  \/ SpuriousWakeup
  \/ ThreadStep

Spec == Init /\ [][Next]_vars

(* The operating system runs every thread, tasks return, and an adder that  *)
(* holds a wake-up delivers it.  Nobody is obliged to add tasks, to send a  *)
(* signal to the process, and no wait returns without a reason.             *)
FairSpec ==
  /\ Spec
  /\ WF_vars(ThreadStep)
  /\ \A t \in Work \cup Quit : WF_vars(Signal(t))

-----------------------------------------------------------------------------
(* No wake-up is lost: when the thread sleeps over a non-empty list, a      *)
(* thread that has just added to it is on its way to notify.  addTask only  *)
(* signals on the transition from empty, and only after the unlock.         *)
NoLostWakeup == pc = "wait" /\ taskList # <<>> => owed # {}

(* Unless main gave up, the thread ends with nothing left to run: stop() in *)
(* setGameState precedes shutdown(), so what other threads added behind     *)
(* Game::shutdown is still in front of the terminating lambda, the last     *)
(* task that is ever accepted.                                              *)
DrainedAtExit ==
  pc = "exit" /\ main # "aborted" => taskList = <<>> /\ tmpTaskList = <<>>

(* Every accepted task is run or found expired, unless main gave up.        *)
AcceptedIsDone ==
  \A t \in Work \cup Quit :
    t \in Elems(accepted) ~> (t \in Elems(done) \/ main = "aborted")

(* Once the game closes, the dispatcher thread ends and main can join it.   *)
ShutdownEnds == gameClosing ~> pc = "exit"

(* Nothing that Dispatcher::addTask accepted is forgotten, nor the end. *)
WorkEnds == AcceptedIsDone /\ ShutdownEnds

(* Seen from outside the dispatcher is a queue served in order, which is    *)
(* open from start() to stop() and takes only the last lambda afterwards.    *)
Queue == INSTANCE TaskQueue WITH
  queue <- tmpTaskList \o taskList,
  served <- done,
  open <- threadState = "RUNNING"

ImplementsQueue == Queue!Spec
=============================================================================
