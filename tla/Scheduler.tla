----------------------------- MODULE Scheduler -----------------------------
(***************************************************************************)
(* The scheduler thread (scheduler.h, scheduler.cpp): delayed tasks.  Any  *)
(* thread may add or stop an event; both only post a handler to the        *)
(* scheduler's io_context, whose one thread runs the handlers in the order *)
(* in which they became ready.  A handler inserts the event's timer in     *)
(* eventIdTimerMap, cancels it, or, as the timer's completion, hands the   *)
(* task to the dispatcher or deletes it.  A task is a raw pointer that     *)
(* travels in the closures of these handlers.                              *)
(*                                                                         *)
(* Time is abstract: an armed timer may expire at any moment.              *)
(***************************************************************************)
EXTENDS Naturals, Sequences, FiniteSets, SequencesExt

CONSTANTS
  MaxEvents,     \* bound on the number of events ever added
  MaxOps         \* bound on the handlers ready when stopEvent is called

Ids == 1..MaxEvents

VARIABLES
  terminated,      \* threadState = THREAD_STATE_TERMINATED
  lastEventId,     \* Scheduler::lastEventId
  ops,             \* handlers the io_context has ready, oldest first
  eventIdTimerMap, \* per event: no entry, a timer that is armed, or one
                   \* whose completion is among ops (expired or cancelled)
  adding,          \* the event whose completion handler has passed the test
                   \* of the state and is about to call addTask, or 0
  io,              \* io_context::run: running, told to stop, returned
  task,            \* where the task of each event is
  dispatcherOpen,  \* g_dispatcher accepts tasks
  stopped          \* history: events whose timer a stopEvent cancelled

schedVars == <<terminated, lastEventId, ops, eventIdTimerMap, adding, io,
               stopped>>
vars == <<schedVars, task, dispatcherOpen>>

Handler == [kind : {"insert", "stop", "fired", "aborted"}, id : Ids]
           \cup {[kind |-> "shutdown"]}

TypeOK ==
  /\ terminated \in BOOLEAN
  /\ lastEventId \in 0..MaxEvents
  /\ ops \in Seq(Handler)
  /\ eventIdTimerMap \in [Ids -> {"absent", "armed", "completed"}]
  /\ adding \in Ids \cup {0}
  /\ io \in {"running", "stopping", "ended"}
  /\ task \in [Ids -> {"none", "held", "queued", "run", "deleted"}]
  /\ dispatcherOpen \in BOOLEAN
  /\ stopped \subseteq Ids

Init ==
  /\ terminated = FALSE
  /\ lastEventId = 0
  /\ ops = <<>>
  /\ eventIdTimerMap = [e \in Ids |-> "absent"]
  /\ adding = 0
  /\ io = "running"
  /\ task = [e \in Ids |-> "none"]
  /\ dispatcherOpen = TRUE
  /\ stopped = {}

(* Variants of the operators below, each with one slip a change of this     *)
(* code could make; the runs must notice them.                              *)
PostIncrement == lastEventId
DispatchStop(e) == <<[kind |-> "stop", id |-> e]>> \o ops
CancelQuietly(S) == <<>>
IgnoresError(h) == FALSE
StopForgotten == io

-----------------------------------------------------------------------------
(* Calls of any thread. *)

Posted(h) == Append(ops, h)
PostedStop(e) == Posted([kind |-> "stop", id |-> e])

NextEventId == lastEventId + 1

(* addEvent, for a task without an id; its result is the new event id. *)
AddEvent ==
  /\ lastEventId < MaxEvents
  /\ lastEventId' = lastEventId + 1
  /\ task' = [task EXCEPT ![lastEventId'] = "held"]
  /\ ops' = Posted([kind |-> "insert", id |-> NextEventId])
  /\ UNCHANGED <<terminated, eventIdTimerMap, adding, io, dispatcherOpen,
                 stopped>>

(* stopEvent, by a caller who got the id from addEvent. *)
StopEvent(e) ==
  /\ e <= lastEventId /\ Len(ops) < MaxOps
  /\ ops' = PostedStop(e)
  /\ UNCHANGED <<terminated, lastEventId, eventIdTimerMap, adding, io, task,
                 dispatcherOpen, stopped>>

(* shutdown *)
Shutdown ==
  /\ ~terminated
  /\ terminated' = TRUE
  /\ ops' = Posted([kind |-> "shutdown"])
  /\ UNCHANGED <<lastEventId, eventIdTimerMap, adding, io, task,
                 dispatcherOpen, stopped>>

-----------------------------------------------------------------------------
(* The timers. *)

(* A timer expires: its completion handler becomes ready. *)
Expire(e) ==
  /\ io # "ended"
  /\ eventIdTimerMap[e] = "armed"
  /\ eventIdTimerMap' = [eventIdTimerMap EXCEPT ![e] = "completed"]
  /\ ops' = Posted([kind |-> "fired", id |-> e])
  /\ UNCHANGED <<terminated, lastEventId, adding, io, task, dispatcherOpen,
                 stopped>>

(* steady_timer::cancel of the timers of S that have not expired: their     *)
(* completion handlers become ready with operation_aborted, in some order.  *)
Armed(S) == {e \in S : eventIdTimerMap[e] = "armed"}
Aborted(S) ==
  [i \in 1..Cardinality(S) |-> [kind |-> "aborted", id |-> SetToSeq(S)[i]]]

-----------------------------------------------------------------------------
(* The io thread runs the oldest handler. *)

Runs(kind) ==
  /\ io = "running" /\ adding = 0
  /\ ops # <<>> /\ Head(ops).kind = kind

RunInsert ==
  /\ Runs("insert")
  /\ eventIdTimerMap' = [eventIdTimerMap EXCEPT ![Head(ops).id] = "armed"]
  /\ ops' = Tail(ops)
  /\ UNCHANGED <<terminated, lastEventId, adding, io, task, dispatcherOpen,
                 stopped>>

(* cancel of an absent or expired timer does nothing. *)
RunStop ==
  /\ Runs("stop")
  /\ LET S == Armed({Head(ops).id}) IN
     /\ eventIdTimerMap' =
          [e \in Ids |-> IF e \in S THEN "completed" ELSE eventIdTimerMap[e]]
     /\ ops' = Tail(ops) \o Aborted(S)
     /\ stopped' = stopped \cup S
  /\ UNCHANGED <<terminated, lastEventId, adding, io, task, dispatcherOpen>>

(* The completion handler deletes the task of a cancelled timer, and every  *)
(* task once shutdown was called; otherwise it goes on to addTask.          *)
IsAborted(h) == h.kind = "aborted"

RunCompletion ==
  /\ Runs("fired") \/ Runs("aborted")
  /\ LET e == Head(ops).id IN
     /\ eventIdTimerMap' = [eventIdTimerMap EXCEPT ![e] = "absent"]
     /\ IF IsAborted(Head(ops)) \/ terminated
        THEN task' = [task EXCEPT ![e] = "deleted"] /\ UNCHANGED adding
        ELSE adding' = e /\ UNCHANGED task
  /\ ops' = Tail(ops)
  /\ UNCHANGED <<terminated, lastEventId, io, dispatcherOpen, stopped>>

(* Dispatcher::addTask deletes the task when the dispatcher is closed. *)
AddTask ==
  /\ adding # 0
  /\ task' = [task EXCEPT ![adding] = IF dispatcherOpen THEN "queued" ELSE "deleted"]
  /\ adding' = 0
  /\ UNCHANGED <<terminated, lastEventId, ops, eventIdTimerMap, io,
                 dispatcherOpen, stopped>>

AfterStop == "stopping"    \* io_context::stop

RunShutdown ==
  /\ Runs("shutdown")
  /\ LET S == Armed(Ids) IN
     /\ eventIdTimerMap' =
          [e \in Ids |-> IF e \in S THEN "completed" ELSE eventIdTimerMap[e]]
     /\ ops' = Tail(ops) \o Aborted(S)
  /\ io' = AfterStop
  /\ UNCHANGED <<terminated, lastEventId, adding, task, dispatcherOpen, stopped>>

(* io_context::run returns; handlers still ready never run. *)
Return ==
  /\ io = "stopping" /\ adding = 0
  /\ io' = "ended"
  /\ UNCHANGED <<terminated, lastEventId, ops, eventIdTimerMap, adding, task,
                 dispatcherOpen, stopped>>

-----------------------------------------------------------------------------
(* The dispatcher. *)
RunTask(e) ==
  /\ task[e] = "queued"
  /\ task' = [task EXCEPT ![e] = "run"]
  /\ UNCHANGED <<schedVars, dispatcherOpen>>

CloseDispatcher ==
  /\ dispatcherOpen
  /\ dispatcherOpen' = FALSE
  /\ UNCHANGED <<schedVars, task>>

IoStep == RunInsert \/ RunStop \/ RunCompletion \/ AddTask \/ RunShutdown \/ Return

Next ==
  \/ AddEvent \/ Shutdown \/ CloseDispatcher
  \/ \E e \in Ids : StopEvent(e) \/ Expire(e) \/ RunTask(e)
  \/ IoStep

Spec == Init /\ [][Next]_vars

(* The io thread keeps running handlers, timers expire, and the dispatcher  *)
(* runs what it accepted.  Nobody must stop events or shut down.            *)
Fairness ==
  /\ WF_vars(IoStep)
  /\ \A e \in Ids : WF_vars(Expire(e)) /\ WF_vars(RunTask(e))

FairSpec == Spec /\ Fairness

-----------------------------------------------------------------------------
(* How many closures and timers hold the task of e. *)
Holders(e) ==
  Cardinality({i \in 1..Len(ops) :
                 ops[i].kind \in {"insert", "fired", "aborted"} /\ ops[i].id = e})
  + (IF eventIdTimerMap[e] = "armed" THEN 1 ELSE 0)
  + (IF adding = e THEN 1 ELSE 0)

(* Exactly one handler or timer owns a task the scheduler holds, none a task *)
(* it has given away or deleted: whatever the order of expiry, stopEvent and *)
(* shutdown, no task is run twice, deleted twice or forgotten.              *)
OneOwner ==
  \A e \in Ids : Holders(e) = IF task[e] = "held" THEN 1 ELSE 0

(* A stopEvent never overtakes the addEvent that made the id: it cannot miss *)
(* a timer because it is not there yet.                                     *)
StopAfterInsert ==
  \A i, j \in 1..Len(ops) :
    i < j /\ ops[i].kind = "stop" /\ ops[j].kind = "insert" => ops[i].id # ops[j].id

(* An event whose timer was cancelled in time is never dispatched; only a    *)
(* timer that expired before the io thread saw the stop still delivers.     *)
StoppedIsDropped == \A e \in stopped : task[e] \in {"held", "deleted"}

(* Every event ends: its task is run or deleted; once the scheduler is shut  *)
(* down, its thread ends instead, and can be joined.                        *)
EventsEnd ==
  \A e \in Ids :
    (task[e] = "held" \/ terminated)
      ~> ((task[e] \in {"run", "deleted"} /\ ~terminated) \/ io = "ended")

(* The scheduler's own state is consistent in every interleaving of the     *)
(* callers, the timers and the io thread.                                   *)
SchedulerInv == TypeOK /\ OneOwner /\ StopAfterInsert /\ StoppedIsDropped
=============================================================================
