--------------------------- MODULE DatabaseTasks ---------------------------
(***************************************************************************)
(* The queue of asynchronous queries (databasetasks.cpp).  Any thread adds *)
(* queries; the database thread takes and runs them one by one; and the    *)
(* dispatcher thread runs what is left itself when it saves the game       *)
(* (flush) and when the server goes down (shutdown), so the queue has two  *)
(* consumers.  A query is taken under taskLock and run outside of it.      *)
(***************************************************************************)
EXTENDS Naturals, Sequences, FiniteSets, Lists

CONSTANTS Tasks, NoTask

VARIABLES
  threadState,  \* ThreadHolder::threadState
  tasks,        \* DatabaseTasks::tasks
  owed,         \* tasks whose adder has yet to call notify_one
  pc,           \* where the database thread is in threadMain
  dpc,          \* where the dispatcher thread is in flush or shutdown
  dbTask,       \* the query the database thread has taken
  flushTask,    \* the query flush has taken
  accepted,     \* history: queries in the order of addTask
  taken,        \* history: queries in the order they left the queue
  executed,     \* history: queries in the order they were run
  callbacks,    \* queries whose callback was handed to the dispatcher
  dispatcherOpen

vars == <<threadState, tasks, owed, pc, dpc, dbTask, flushTask, accepted,
          taken, executed, callbacks, dispatcherOpen>>

TypeOK ==
  /\ threadState \in {"RUNNING", "CLOSING", "TERMINATED"}
  /\ tasks \in Seq(Tasks)
  /\ owed \subseteq Tasks
  /\ pc \in {"loop", "lock", "wait", "woken", "run", "exit"}
  /\ dpc \in {"idle", "flush", "run", "notify", "done"}
  /\ dbTask \in Tasks \cup {NoTask} /\ (dbTask # NoTask <=> pc = "run")
  /\ flushTask \in Tasks \cup {NoTask} /\ (flushTask # NoTask <=> dpc = "run")
  /\ accepted \in Seq(Tasks)
  /\ taken \in Seq(Tasks)
  /\ executed \in Seq(Tasks)
  /\ callbacks \subseteq Tasks
  /\ dispatcherOpen \in BOOLEAN

Init ==
  /\ threadState = "RUNNING"
  /\ tasks = <<>>
  /\ owed = {}
  /\ pc = "loop"
  /\ dpc = "idle"
  /\ dbTask = NoTask
  /\ flushTask = NoTask
  /\ accepted = <<>>
  /\ taken = <<>>
  /\ executed = <<>>
  /\ callbacks = {}
  /\ dispatcherOpen = TRUE

(* Variants of the operators below, each with one slip a change of this     *)
(* code could make; the runs must notice them.                              *)
SignalAfterPush == FALSE
Prepended(t) == <<t>> \o tasks
TakeBack ==
  /\ tasks' = SubSeq(tasks, 1, Len(tasks) - 1)
  /\ taken' = Append(taken, Head(tasks))
NotifyNobody == UNCHANGED pc
FlushOne == "idle"            \* an if where flush has a while

-----------------------------------------------------------------------------
DoSignal == tasks = <<>>

Enqueued(t) == Append(tasks, t)

(* addTask up to the unlock; a query for a thread that is not running is    *)
(* dropped.                                                                 *)
AddTask(t) ==
  /\ t \notin Elems(accepted)
  /\ threadState = "RUNNING"
  /\ tasks' = Enqueued(t)
  /\ accepted' = Append(accepted, t)
  /\ owed' = IF DoSignal THEN owed \cup {t} ELSE owed
  /\ UNCHANGED <<threadState, pc, dpc, dbTask, flushTask, taken, executed,
                 callbacks, dispatcherOpen>>

NotifyOne == pc' = IF pc = "wait" THEN "woken" ELSE pc

Signal(t) ==
  /\ t \in owed
  /\ owed' = owed \ {t}
  /\ NotifyOne
  /\ UNCHANGED <<threadState, tasks, dpc, dbTask, flushTask, accepted, taken,
                 executed, callbacks, dispatcherOpen>>

(* Taking the front of the queue, under taskLock. *)
Take ==
  /\ tasks' = Tail(tasks)
  /\ taken' = Append(taken, Head(tasks))

(* runTask: the query, and its callback when it has one. *)
Execute(t) ==
  /\ executed' = Append(executed, t)
  /\ \/ UNCHANGED callbacks
     \/ callbacks' = IF dispatcherOpen THEN callbacks \cup {t} ELSE callbacks

-----------------------------------------------------------------------------
(* The database thread. *)

CheckState ==
  /\ pc = "loop"
  /\ pc' = IF threadState # "TERMINATED" THEN "lock" ELSE "exit"
  /\ UNCHANGED <<threadState, tasks, owed, dpc, dbTask, flushTask, accepted,
                 taken, executed, callbacks, dispatcherOpen>>

(* The rest of the critical section: take a query if there is one. *)
TakeOrLoop ==
  IF tasks = <<>>
  THEN pc' = "loop" /\ UNCHANGED <<tasks, taken, dbTask>>
  ELSE pc' = "run" /\ Take /\ dbTask' = Head(tasks)

LockTasks ==
  /\ pc = "lock"
  /\ IF tasks = <<>>
     THEN pc' = "wait" /\ UNCHANGED <<tasks, taken, dbTask>>
     ELSE TakeOrLoop
  /\ UNCHANGED <<threadState, owed, dpc, flushTask, accepted, executed,
                 callbacks, dispatcherOpen>>

SpuriousWakeup ==
  /\ pc = "wait"
  /\ pc' = "woken"
  /\ UNCHANGED <<threadState, tasks, owed, dpc, dbTask, flushTask, accepted,
                 taken, executed, callbacks, dispatcherOpen>>

Woken ==
  /\ pc = "woken"
  /\ TakeOrLoop
  /\ UNCHANGED <<threadState, owed, dpc, flushTask, accepted, executed,
                 callbacks, dispatcherOpen>>

RunTask ==
  /\ pc = "run"
  /\ Execute(dbTask)
  /\ pc' = "loop"
  /\ dbTask' = NoTask
  /\ UNCHANGED <<threadState, tasks, owed, dpc, flushTask, accepted, taken,
                 dispatcherOpen>>

-----------------------------------------------------------------------------
(* The dispatcher thread. *)

(* Game::saveGameState calls flush. *)
SaveGameState ==
  /\ dpc = "idle" /\ threadState = "RUNNING"
  /\ dpc' = "flush"
  /\ UNCHANGED <<threadState, tasks, owed, pc, dbTask, flushTask, accepted,
                 taken, executed, callbacks, dispatcherOpen>>

(* Game::setGameState(GAME_STATE_SHUTDOWN) stops this thread and the         *)
(* dispatcher; Game::shutdown follows as a task of the dispatcher.          *)
Stop ==
  /\ dpc = "idle" /\ threadState = "RUNNING"
  /\ threadState' = "CLOSING"
  /\ dispatcherOpen' = FALSE
  /\ UNCHANGED <<tasks, owed, pc, dpc, dbTask, flushTask, accepted, taken,
                 executed, callbacks>>

(* shutdown up to flush. *)
Shutdown ==
  /\ dpc = "idle" /\ threadState = "CLOSING"
  /\ threadState' = "TERMINATED"
  /\ dpc' = "flush"
  /\ UNCHANGED <<tasks, owed, pc, dbTask, flushTask, accepted, taken, executed,
                 callbacks, dispatcherOpen>>

AfterFlush == IF threadState = "TERMINATED" THEN "notify" ELSE "idle"

(* One round of the loop of flush. *)
FlushTake ==
  /\ dpc = "flush"
  /\ IF tasks = <<>>
     THEN dpc' = AfterFlush /\ UNCHANGED <<tasks, taken, flushTask>>
     ELSE dpc' = "run" /\ Take /\ flushTask' = Head(tasks)
  /\ UNCHANGED <<threadState, owed, pc, dbTask, accepted, executed, callbacks,
                 dispatcherOpen>>

AfterFlushRun == "flush"

FlushRun ==
  /\ dpc = "run"
  /\ Execute(flushTask)
  /\ flushTask' = NoTask
  /\ dpc' = AfterFlushRun
  /\ UNCHANGED <<threadState, tasks, owed, pc, dbTask, accepted, taken,
                 dispatcherOpen>>

(* The end of shutdown. *)
ShutdownNotify ==
  /\ dpc = "notify"
  /\ NotifyOne
  /\ dpc' = "done"
  /\ UNCHANGED <<threadState, tasks, owed, dbTask, flushTask, accepted, taken,
                 executed, callbacks, dispatcherOpen>>

-----------------------------------------------------------------------------
DbStep == CheckState \/ LockTasks \/ Woken \/ RunTask
DispatcherStep == FlushTake \/ FlushRun \/ ShutdownNotify \/ Shutdown

Next ==
  \/ \E t \in Tasks : AddTask(t) \/ Signal(t)
  \/ DbStep \/ SpuriousWakeup
  \/ SaveGameState \/ Stop \/ DispatcherStep

Spec == Init /\ [][Next]_vars

(* Both threads run, an adder delivers its signal, and a closing dispatcher *)
(* gets to Game::shutdown.                                                  *)
Fairness ==
  /\ WF_vars(DbStep) /\ WF_vars(DispatcherStep)
  /\ \A t \in Tasks : WF_vars(Signal(t))

FairSpec == Spec /\ Fairness

-----------------------------------------------------------------------------
(* When the database thread sleeps over queries, someone is on the way to   *)
(* wake it or the dispatcher is running them itself.                        *)
NoLostWakeup ==
  pc = "wait" /\ tasks # <<>> => owed # {} \/ dpc \in {"flush", "run"}

(* A query is taken by one of the two consumers, once, in the order of      *)
(* addTask, and run once.                                                   *)
TakenOnce ==
  /\ accepted = taken \o tasks
  /\ \A i, j \in 1..Len(executed) : executed[i] = executed[j] => i = j
  /\ Elems(taken) = Elems(executed) \cup ({dbTask, flushTask} \ {NoTask})
  /\ Elems(executed) \cap {dbTask, flushTask} = {}
  /\ dbTask = flushTask => dbTask = NoTask

(* Queries run in the order of addTask but for one in flight in one thread,  *)
(* which those the other thread runs meanwhile may overtake.                *)
OvertakenOnlyInFlight ==
  \A i, j \in 1..Len(accepted) :
    i < j /\ accepted[j] \in Elems(executed) =>
      accepted[i] \in Elems(executed) \cup {dbTask, flushTask}

(* The queue is consistent in every interleaving of its two consumers. *)
QueueInv == TypeOK /\ NoLostWakeup /\ TakenOnce /\ OvertakenOnlyInFlight

(* When flush returns every query accepted before has been run, save the one *)
(* the database thread may have in flight (Game::saveGameState does not wait *)
(* for that one).                                                           *)
FlushCompletes ==
  [][(dpc \in {"flush", "run"} /\ dpc' \in {"idle", "notify"}) =>
       Elems(accepted) \subseteq Elems(executed') \cup {dbTask}]_vars

(* Every accepted query is run in the end, through shutdown as well. *)
AllExecuted == \A t \in Tasks : t \in Elems(accepted) ~> t \in Elems(executed)

(* After shutdown the thread ends and can be joined, unless at the moment of *)
(* the shutdown it was between the test of the loop and taskLock: then it    *)
(* may go to sleep with nobody left to wake it.                             *)
EndsAfterShutdown ==
  (threadState = "TERMINATED" /\ dpc = "flush" /\ pc # "lock") ~> pc = "exit"

(* No query is left behind, by a flush or in the end, nor is the thread. *)
QueriesEnd == FlushCompletes /\ AllExecuted /\ EndsAfterShutdown
=============================================================================
