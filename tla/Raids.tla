------------------------------- MODULE Raids -------------------------------
(***************************************************************************)
(* Raids (raids.cpp): chains of scheduler events.  Every minute checkRaids *)
(* may start a raid unless one is running; a raid executes its events one  *)
(* after the other and then gives the place back; scripts start raids and  *)
(* operators reload them.  The scheduler hands an event that is due to the *)
(* dispatcher, and stopEvent does not reach it there (see Scheduler), so a *)
(* reload may be followed by an event of a raid it has deleted.  A reload  *)
(* whose raids.xml cannot be read ends here, with nothing loaded and no    *)
(* checks, until a later one succeeds; so does the start of the server.    *)
(*                                                                         *)
(* Margins and probabilities are a choice of checkRaids.  A raid of an     *)
(* earlier load has its load's number.  The events of a raid do not reload *)
(* raids themselves.  What monsters a raid brings is not modelled.         *)
(***************************************************************************)
EXTENDS Naturals, FiniteSets, FiniteSetsExt

CONSTANTS
  Names,      \* the raids of raids.xml
  Repeats,    \* those with repeat="yes"
  Length,     \* the number of events of each
  NoRaid,
  MaxReloads  \* bound

VARIABLES
  load,     \* how often the raids have been loaded again, or should have
  loaded,   \* Raids::loaded, and started: nobody loads without startup
  raidList, \* the raids checkRaids goes through
  deleted,  \* raids whose memory is freed
  running,
  next,     \* nextEvent of each raid
  pending,  \* what is scheduled or dispatched, see TypeOK
  alive,    \* FALSE: a task has run on a deleted raid
  late      \* history: a reload came between an event and its task, or
            \* while a raid that is on no list was executing

vars == <<load, loaded, raidList, deleted, running, next, pending, alive, late>>

AllRaids == Names \X (0..MaxReloads)
NoEvent == 0
Ids == 1..(2 * (MaxReloads + 1))  \* numbers of events, see FreeId

(* An event that is due is a task.  current: its number is the one that    *)
(* stopEvent will be called with, in checkRaidsEvent or nextEventEvent.    *)
TypeOK ==
  /\ load \in 0..MaxReloads /\ loaded \in BOOLEAN
  /\ raidList \subseteq AllRaids /\ deleted \subseteq AllRaids
  /\ running \in AllRaids \cup {NoRaid}
  /\ next \in [AllRaids -> Nat]
  /\ \A p \in pending :
       /\ DOMAIN p = {"id", "raid", "event", "due", "current"}
       /\ p.id \in Ids /\ p.raid \in AllRaids \cup {NoRaid}
       /\ p.due \in BOOLEAN /\ p.current \in BOOLEAN
  /\ alive \in BOOLEAN /\ late \in BOOLEAN

Loaded(n) == Names \X {n}

(* addEvent, whose number takes the place of an earlier one.  A load adds  *)
(* at most one chain of checks and one of a raid to those that go on.      *)
FreeId(ps) == CHOOSE i \in Ids : \A p \in ps : p.id # i

Forgotten(p, raid) == IF p.raid = raid THEN [p EXCEPT !.current = FALSE] ELSE p

Scheduled(ps, raid, event) ==
  {Forgotten(p, raid) : p \in ps}
  \cup {[id |-> FreeId(ps), raid |-> raid, event |-> event, due |-> FALSE,
         current |-> TRUE]}

(* Variants of the operators, each with one slip a change of this code     *)
(* could make; the runs must notice them.                                  *)
StopsNothing(ps, whose) == ps
StaysRunning == running
WhileRunning == Cardinality(pending) < Cardinality(Ids)
StartsAnyway(ps, success) == Scheduled(ps, NoRaid, NoEvent)

(* stopEvent of every number in `whose`: an event that is due stays. *)
Stopped(ps, whose) == {p \in ps : p.raid \notin whose \/ ~p.current \/ p.due}

(* Raids::startup, which only goes on if loadFromXml was a success. *)
Startup(ps, success) == IF success THEN Scheduled(ps, NoRaid, NoEvent) ELSE ps

(* loadFromXml leaves out the raids whose own file cannot be read. *)
Loadable(n, success) == IF success THEN SUBSET Loaded(n) ELSE {{}}

Init ==
  /\ load = 0 /\ deleted = {}
  /\ loaded \in BOOLEAN /\ raidList \in Loadable(0, loaded)
  /\ running = NoRaid
  /\ next = [r \in AllRaids |-> 0]
  /\ pending = Startup({}, loaded)
  /\ alive = TRUE /\ late = FALSE

-----------------------------------------------------------------------------
(* Raid. *)

HasEvent(raid, n) == n < Length[raid[1]]

(* setRunning and startRaid, with ps what is pending otherwise.  A raid     *)
(* without events is running all the same.                                  *)
Start(raid, ps) ==
  /\ running' = raid
  /\ pending' = IF HasEvent(raid, next[raid])
                THEN Scheduled(ps, raid, next[raid]) ELSE ps

AfterReset == NoRaid

(* executeRaidEvent: the event succeeds or not.  resetRaid clears `running` *)
(* whoever is running.                                                      *)
Execute(p, succeeds) ==
  LET raid == p.raid
      n == next[raid] + 1
      rest == pending \ {p}
  IN IF succeeds /\ HasEvent(raid, n)
     THEN /\ next' = [next EXCEPT ![raid] = n]
          /\ pending' = Scheduled(rest, raid, n)
          /\ UNCHANGED running
     ELSE /\ next' = [next EXCEPT ![raid] = 0]
          /\ pending' = rest
          /\ running' = AfterReset

ExecuteRaidEvent(raid) ==
  /\ alive
  /\ \E p \in pending, succeeds \in BOOLEAN :
       /\ p.due /\ p.raid = raid
       /\ IF raid \in deleted
          THEN alive' = FALSE /\ UNCHANGED <<running, next, pending>>
          ELSE Execute(p, succeeds) /\ UNCHANGED alive
  /\ UNCHANGED <<load, loaded, raidList, deleted, late>>

-----------------------------------------------------------------------------
(* Raids. *)

MayStart == running = NoRaid

(* checkRaids.  A raid that does not repeat leaves the list as it starts    *)
(* and is never deleted.                                                    *)
CheckRaids ==
  /\ alive
  /\ \E p \in pending :
       /\ p.due /\ p.raid = NoRaid
       /\ LET again == Scheduled(pending \ {p}, NoRaid, NoEvent) IN
          \/ pending' = again /\ UNCHANGED <<running, raidList>>
          \/ \E raid \in raidList :
               /\ MayStart
               /\ Start(raid, again)
               /\ raidList' = IF raid[1] \in Repeats THEN raidList
                              ELSE raidList \ {raid}
  /\ UNCHANGED <<load, loaded, deleted, next, alive, late>>

(* luaGameStartRaid: it stays on the list. *)
StartRaid ==
  /\ alive /\ running = NoRaid
  /\ \E raid \in raidList : Start(raid, pending)
  /\ UNCHANGED <<load, loaded, raidList, deleted, next, alive, late>>

(* Raids::reload and startup: clear stops the check and the raids of the   *)
(* list, and deletes these; then the raids are loaded again, or not.       *)
Reload ==
  LET kept == Stopped(pending, raidList \cup {NoRaid})
  IN /\ alive /\ load < MaxReloads
     /\ load' = load + 1
     /\ deleted' = deleted \cup raidList
     /\ loaded' \in BOOLEAN
     /\ raidList' \in Loadable(load + 1, loaded')
     /\ running' = NoRaid
     /\ pending' = Startup(kept, loaded')
     /\ late' = (late \/ \E p \in pending :
                            p.due \/ p.raid \notin raidList \cup {NoRaid})
     /\ UNCHANGED <<next, alive>>

(* The scheduler's timer expires. *)
Due(raid) ==
  /\ alive
  /\ \E p \in pending :
       /\ p.raid = raid /\ ~p.due
       /\ pending' = (pending \ {p}) \cup {[p EXCEPT !.due = TRUE]}
  /\ UNCHANGED <<load, loaded, raidList, deleted, running, next, alive, late>>

Next ==
  \/ CheckRaids \/ StartRaid \/ Reload \/ Due(NoRaid)
  \/ \E raid \in AllRaids : ExecuteRaidEvent(raid) \/ Due(raid)

(* Timers expire and the dispatcher gets through its queue (Scheduler,     *)
(* Dispatcher).                                                            *)
Fairness ==
  /\ WF_vars(CheckRaids) /\ WF_vars(Due(NoRaid))
  /\ \A raid \in AllRaids : WF_vars(ExecuteRaidEvent(raid)) /\ WF_vars(Due(raid))

Spec == Init /\ [][Next]_vars /\ Fairness

-----------------------------------------------------------------------------
(* Properties. *)

Pending(raid) == {p \in pending : p.raid = raid}
Executing == {p \in pending : p.raid # NoRaid}

(* `running` (Raids::checkRaids, Raid::resetRaid) is kept apart from the   *)
(* events that make a raid go on.  A running raid that has events has one  *)
(* pending, or no other raid could start any more; the check is always     *)
(* pending while the raids are loaded, and nothing runs while they are     *)
(* not.  As long as no reload was late there is one chain of checks if the *)
(* raids are loaded and none otherwise, the only pending event of a raid   *)
(* is the next one of the raid that is running, and none of them belongs   *)
(* to a raid that was deleted.                                             *)
RaidsInv ==
  /\ TypeOK
  /\ ~loaded => running = NoRaid
  /\ alive =>
       /\ loaded => Pending(NoRaid) # {}
       /\ running # NoRaid =>
            Pending(running) # {} \/ ~HasEvent(running, 0)
  /\ ~late =>
       /\ alive
       /\ Cardinality(Pending(NoRaid)) = IF loaded THEN 1 ELSE 0
       /\ Cardinality(Executing) <= 1
       /\ \A p \in Executing :
            p.raid = running /\ p.raid \notin deleted /\ p.event = next[p.raid]

(* A raid that has events comes to its end and others may start             *)
(* (Raid::executeRaidEvent), and raids that are loaded are checked for ever, *)
(* whatever reloads and scripts do in between.                              *)
RaidsGoOn ==
  /\ \A raid \in AllRaids :
       (running = raid /\ HasEvent(raid, 0)) ~> (running # raid \/ ~alive)
  /\ []<>(~alive \/ ~loaded \/ \E p \in Pending(NoRaid) : p.due)
=============================================================================
