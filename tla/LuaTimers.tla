----------------------------- MODULE LuaTimers -----------------------------
(***************************************************************************)
(* addEvent and stopEvent as scripts see them (luascript.cpp): a second    *)
(* table, timerEvents, on top of the scheduler.  Scripts run in dispatcher *)
(* tasks, so the table is only touched by one thread; what is concurrent   *)
(* is the scheduler below.  A script's stopEvent takes the entry out of    *)
(* the table and only then asks the scheduler, which may be too late, to   *)
(* cancel the timer.                                                       *)
(***************************************************************************)
EXTENDS Scheduler

VARIABLES
  lastEventTimerId,  \* LuaEnvironment::lastEventTimerId, less one
  timerEvents,       \* LuaEnvironment::timerEvents: the scheduler's event id
                     \* of each entry, 0 for no entry
  bound,             \* the timer id bound in the task of an event, or 0
  called,            \* history: timers whose callback was called
  luaStopped         \* history: timers for which stopEvent returned true

luaVars == <<lastEventTimerId, timerEvents, bound, called, luaStopped>>
allVars == <<vars, luaVars>>

LuaTypeOK ==
  /\ lastEventTimerId \in 0..MaxEvents
  /\ timerEvents \in [Ids -> 0..lastEventId]
  /\ bound \in [Ids -> 0..MaxEvents]
  /\ called \subseteq Ids
  /\ luaStopped \subseteq Ids

LuaInit ==
  /\ Init
  /\ lastEventTimerId = 0
  /\ timerEvents = [l \in Ids |-> 0]
  /\ bound = [e \in Ids |-> 0]
  /\ called = {}
  /\ luaStopped = {}

(* Variants of the operators below, each with one slip a change of this     *)
(* code could make; the runs must notice them.                              *)
KeepEntry(l) == timerEvents
NewTimerAfterIncrement == lastEventTimerId + 2

-----------------------------------------------------------------------------
(* luaAddEvent *)
NewTimer == lastEventTimerId + 1

LuaAddEvent ==
  /\ AddEvent
  /\ lastEventTimerId' = lastEventTimerId + 1
  /\ bound' = [bound EXCEPT ![lastEventId'] = NewTimer]
  /\ timerEvents' = [timerEvents EXCEPT ![lastEventTimerId'] = lastEventId']
  /\ UNCHANGED <<called, luaStopped>>

(* An event added, or stopped, by the server itself. *)
ServerAddEvent == AddEvent /\ UNCHANGED luaVars

ServerStopEvent(e) ==
  /\ bound[e] = 0
  /\ StopEvent(e)
  /\ UNCHANGED luaVars

Erase(l) == [timerEvents EXCEPT ![l] = 0]

(* luaStopEvent; for an id that is not in the table it returns false. *)
LuaStopEvent(l) ==
  /\ timerEvents[l] # 0
  /\ timerEvents' = Erase(l)
  /\ luaStopped' = luaStopped \cup {l}
  /\ StopEvent(timerEvents[l])
  /\ UNCHANGED <<lastEventTimerId, bound, called>>

(* The dispatcher runs the task of e; for a script's timer that is           *)
(* executeTimerEvent, which does nothing without an entry.                  *)
ExecuteTimerEvent(e) ==
  /\ RunTask(e)
  /\ LET l == bound[e] IN
     IF l # 0 /\ timerEvents[l] # 0
     THEN /\ timerEvents' = Erase(l)
          /\ called' = called \cup {l}
     ELSE UNCHANGED <<timerEvents, called>>
  /\ UNCHANGED <<lastEventTimerId, bound, luaStopped>>

Below == Shutdown \/ CloseDispatcher \/ IoStep \/ \E e \in Ids : Expire(e)

LuaNext ==
  \/ LuaAddEvent \/ ServerAddEvent
  \/ \E l \in Ids : LuaStopEvent(l)
  \/ \E e \in Ids : ExecuteTimerEvent(e) \/ ServerStopEvent(e)
  \/ Below /\ UNCHANGED luaVars

(* As Scheduler's, over the tables of both. *)
LuaFairness ==
  /\ WF_allVars(IoStep /\ UNCHANGED luaVars)
  /\ \A e \in Ids : /\ WF_allVars(Expire(e) /\ UNCHANGED luaVars)
                    /\ WF_allVars(ExecuteTimerEvent(e))

LuaSpec == LuaInit /\ [][LuaNext]_allVars /\ LuaFairness

-----------------------------------------------------------------------------
(* When stopEvent has returned true the callback never runs, even if the    *)
(* timer had expired and its task was already queued.                       *)
StopIsFinal == luaStopped \cap called = {}

(* Every entry of the table has a task on its way that will take it out, as  *)
(* long as the dispatcher accepts tasks: no callback is leaked.             *)
EntriesHaveTasks ==
  \A l \in Ids :
    timerEvents[l] # 0 =>
      /\ bound[timerEvents[l]] = l
      /\ \/ task[timerEvents[l]] \in {"held", "queued"}
         \/ terminated \/ ~dispatcherOpen

(* The table agrees with the scheduler below it, and what a script stopped  *)
(* stays stopped.                                                           *)
TimerTableInv == LuaTypeOK /\ EntriesHaveTasks /\ StopIsFinal
=============================================================================
