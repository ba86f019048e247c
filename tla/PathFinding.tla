----------------------------- MODULE PathFinding -----------------------------
(***************************************************************************)
(* The threads that compute paths (pathfinding.cpp) and the one task they  *)
(* are given, Game::checkFollow (game.cpp): the dispatcher hands them the  *)
(* set of creatures that follow somebody, blocks until every thread has    *)
(* found the shared iterator at its end, and goes on with their results.   *)
(* Threads and dispatcher wait on one condition variable, none of them     *)
(* under a predicate: what a notify does not find waiting is lost, and a    *)
(* wait that returns without a notify lets the dispatcher go on too early,  *)
(* or a thread take part in a round twice.  Then the dispatcher changes what *)
(* threads still read: the process ends, or goes on.                        *)
(***************************************************************************)
EXTENDS Naturals, FiniteSets

CONSTANTS
  Workers, Creatures, None,
  MaxSkips,  \* bound: how often a creature is found walking
  Prompt     \* the threads wait again by the time the dispatcher needs them

ASSUME FollowAssumption ==
  /\ Workers # {} /\ IsFiniteSet(Workers) /\ IsFiniteSet(Creatures)
  /\ None \notin Creatures
  /\ MaxSkips \in Nat /\ Prompt \in BOOLEAN

VARIABLES
  threadState,
  task,            \* there is a task
  ready,           \* threads that have finished it
  pc,              \* where each thread is in threadMain
  dpc,             \* where the dispatcher is in checkFollow
  checkFollowSet,
  following,       \* checkFollowSetNew
  it,              \* the creatures from the shared iterator on
  creature,        \* what each thread is working on
  times,           \* history: how often this round has handled a creature
  skips,
  references,      \* what the two sets hold of each creature
  lastOne,         \* after stop: a checkFollow is in the dispatcher's queue
  alive,           \* the process has not been ended by what is undefined
  upset            \* history: a wait has returned without a notify and made a
                   \* difference, and no round has begun with all threads at
                   \* rest since then

vars == <<threadState, task, ready, pc, dpc, checkFollowSet, following, it,
          creature, times, skips, references, lastOne, alive, upset>>

TypeOK ==
  /\ threadState \in {"RUNNING", "STOPPED", "TERMINATED"}
  /\ task \in BOOLEAN
  /\ ready \in Nat
  /\ pc \in [Workers -> {"top", "lock", "wait", "woken", "call", "run",
                      "done", "notify", "exit"}]
  /\ dpc \in {"idle", "runTask", "waiting", "returned"}
  /\ checkFollowSet \subseteq Creatures
  /\ following \subseteq Creatures
  /\ it \subseteq following
  /\ creature \in [Workers -> Creatures \cup {None}]
  /\ times \in [Creatures -> Nat]
  /\ skips \in 0..MaxSkips
  /\ references \in [Creatures -> 0..2]
  /\ lastOne \in BOOLEAN
  /\ alive \in BOOLEAN /\ upset \in BOOLEAN

Init ==
  /\ threadState = "RUNNING"
  /\ task = FALSE
  /\ ready = 0
  /\ pc = [w \in Workers |-> "top"]
  /\ dpc = "idle"
  /\ checkFollowSet = {}
  /\ following = {}
  /\ it = {}
  /\ creature = [w \in Workers |-> None]
  /\ times = [c \in Creatures |-> 0]
  /\ skips = 0
  /\ references = [c \in Creatures |-> 0]
  /\ lastOne = TRUE
  /\ alive = TRUE
  /\ upset = FALSE

(* Variants of the operators below, each with one slip a change of this     *)
(* code could make; the runs must notice them.                              *)
KeepReady == ready
AllFollow(skipped) == checkFollowSet
StaysAt(c) == it
FirstDone == ready = 0
SignalsOne == LET w == CHOOSE w \in Workers : TRUE IN
              [pc EXCEPT ![w] = IF @ = "wait" THEN "woken" ELSE @]
AlwaysCounted(c) == [references EXCEPT ![c] = @ + 1]

-----------------------------------------------------------------------------
Terminated == threadState # "RUNNING"

(* notify_all: everybody who waits.  The dispatcher returns from runTask.   *)
WakeWorkers == [w \in Workers |-> IF pc[w] = "wait" THEN "woken" ELSE pc[w]]

Move(w, from, to) == pc[w] = from /\ pc' = [pc EXCEPT ![w] = to]

(* The threads: the loop test, the lock, the wait. *)
Test(w) ==
  /\ Move(w, "top", IF Terminated THEN "exit" ELSE "lock")
  /\ UNCHANGED <<threadState, task, ready, dpc, checkFollowSet, following, it,
                 creature, times, skips, references, lastOne, alive, upset>>

Wait(w) ==
  /\ Move(w, "lock", "wait")
  /\ UNCHANGED <<threadState, task, ready, dpc, checkFollowSet, following, it,
                 creature, times, skips, references, lastOne, alive, upset>>

(* A wait returns without a notify.  A thread that finds a task then has    *)
(* done its part of it already, one that finds the end has missed a last     *)
(* task; otherwise it goes back to its wait.                                *)
SpuriousWakeup(w) ==
  /\ Move(w, "wait", "woken")
  /\ upset' = (upset \/ task \/ Terminated)
  /\ UNCHANGED <<threadState, task, ready, dpc, checkFollowSet, following, it,
                 creature, times, skips, references, lastOne, alive>>

Woken(w) ==
  /\ Move(w, "woken", IF task THEN "call" ELSE "top")
  /\ UNCHANGED <<threadState, task, ready, dpc, checkFollowSet, following, it,
                 creature, times, skips, references, lastOne, alive, upset>>

(* task(), after the unlock: the last of the others may have emptied it.    *)
Call(w) ==
  /\ Move(w, "call", "run")
  /\ alive' = task
  /\ UNCHANGED <<threadState, task, ready, dpc, checkFollowSet, following, it,
                 creature, times, skips, references, lastOne, upset>>

Advanced(c) == it \ {c}

(* checkFollow(true): take the creature at the iterator, in its order, which *)
(* is the order of addresses; at the end, leave.                            *)
Take(w) ==
  /\ pc[w] = "run" /\ creature[w] = None
  /\ IF it = {}
     THEN pc' = [pc EXCEPT ![w] = "done"] /\ UNCHANGED <<it, creature>>
     ELSE \E c \in it : /\ it' = Advanced(c)
                        /\ creature' = [creature EXCEPT ![w] = c]
                        /\ UNCHANGED pc
  /\ UNCHANGED <<threadState, task, ready, dpc, checkFollowSet, following,
                 times, skips, references, lastOne, alive, upset>>

(* goToFollowCreature, under no lock. *)
GoToFollowCreature(w) ==
  /\ pc[w] = "run" /\ creature[w] # None
  /\ times' = [times EXCEPT ![creature[w]] = @ + 1]
  /\ creature' = [creature EXCEPT ![w] = None]
  /\ UNCHANGED <<threadState, task, ready, pc, dpc, checkFollowSet, following,
                 it, skips, references, lastOne, alive, upset>>

IsLast == ready + 1 = Cardinality(Workers)

(* The count of finished threads, under the lock. *)
Ready(w) ==
  /\ Move(w, "done", IF IsLast THEN "notify" ELSE "top")
  /\ ready' = ready + 1
  /\ task' = (task /\ ~IsLast)
  /\ UNCHANGED <<threadState, dpc, checkFollowSet, following, it, creature,
                 times, skips, references, lastOne, alive, upset>>

Notify(w) ==
  /\ pc[w] = "notify"
  /\ pc' = [WakeWorkers EXCEPT ![w] = "top"]
  /\ dpc' = IF dpc = "waiting" THEN "returned" ELSE dpc
  /\ UNCHANGED <<threadState, task, ready, checkFollowSet, following, it,
                 creature, times, skips, references, lastOne, alive, upset>>

-----------------------------------------------------------------------------
(* The dispatcher. *)

Counted(c) ==
  IF c \in checkFollowSet THEN references
  ELSE [references EXCEPT ![c] = @ + 1]

AddToCheckFollow(c) ==
  /\ dpc = "idle" /\ threadState = "RUNNING"
  /\ references' = Counted(c)
  /\ checkFollowSet' = checkFollowSet \cup {c}
  /\ UNCHANGED <<threadState, task, ready, pc, dpc, following, it, creature,
                 times, skips, lastOne, alive, upset>>

Kept(skipped) == checkFollowSet \ skipped

(* What the threads go through is changed under them. *)
Intrudes == alive' \in (IF \E w \in Workers : pc[w] = "run" THEN BOOLEAN ELSE {TRUE})

(* No thread has anything left to do for an earlier round, nor is leaving. *)
Settled ==
  /\ ~task
  /\ \A w \in Workers : pc[w] = "wait" \/ (~Terminated /\ pc[w] \in {"top", "lock", "woken"})

(* checkFollow(false) up to runTask.  A creature that walks for longer than *)
(* EVENT_PATH_FINDING is kept for the next call, which is scheduled already: *)
(* under load it is due before this one has ended.                          *)
CheckFollow ==
  /\ dpc = "idle"
  /\ threadState = "RUNNING" \/ (threadState = "STOPPED" /\ lastOne)
  /\ lastOne' = (threadState = "RUNNING")
  /\ \E skipped \in SUBSET checkFollowSet :
       /\ skips' = skips + Cardinality(skipped)
       /\ skips + Cardinality(skipped) <= MaxSkips
       /\ checkFollowSet' = skipped
       /\ following' = Kept(skipped)
       /\ it' = Kept(skipped)
  /\ times' = [c \in Creatures |-> 0]
  /\ dpc' = "runTask"
  /\ upset' = (upset /\ ~Settled)
  /\ Intrudes
  /\ UNCHANGED <<threadState, task, ready, pc, creature, references>>

AllWaiting == \A w \in Workers : pc[w] \in {"wait", "exit"}

NoneReady == 0

(* runTask: under the lock, until the wait. *)
RunTask ==
  /\ dpc = "runTask"
  /\ Prompt => AllWaiting
  /\ task' = TRUE
  /\ ready' = NoneReady
  /\ pc' = WakeWorkers
  /\ dpc' = "waiting"
  /\ UNCHANGED <<threadState, checkFollowSet, following, it, creature, times,
                 skips, references, lastOne, alive, upset>>

(* The wait of runTask returns without a notify. *)
SpuriousReturn ==
  /\ dpc = "waiting"
  /\ dpc' = "returned"
  /\ upset' = TRUE
  /\ UNCHANGED <<threadState, task, ready, pc, checkFollowSet, following, it,
                 creature, times, skips, references, lastOne, alive>>

(* The rest of checkFollow(false): every creature goes on along its path,   *)
(* and the reference is given up.                                           *)
Continue ==
  /\ dpc = "returned"
  /\ references' = [c \in Creatures |->
                      IF c \in following THEN references[c] - 1 ELSE references[c]]
  /\ dpc' = "idle"
  /\ Intrudes
  /\ UNCHANGED <<threadState, task, ready, pc, checkFollowSet, following, it,
                 creature, times, skips, lastOne, upset>>

(* setGameState(GAME_STATE_SHUTDOWN) calls stop, which is already the end   *)
(* for the threads; Game::shutdown calls shutdown.                          *)
Stop ==
  /\ dpc = "idle" /\ threadState = "RUNNING"
  /\ Prompt => AllWaiting
  /\ threadState' = "STOPPED"
  /\ lastOne' \in BOOLEAN
  /\ UNCHANGED <<task, ready, pc, dpc, checkFollowSet, following, it, creature,
                 times, skips, references, alive, upset>>

Shutdown ==
  /\ dpc = "idle" /\ threadState = "STOPPED"
  /\ Prompt => AllWaiting
  /\ threadState' = "TERMINATED"
  /\ pc' = WakeWorkers
  /\ UNCHANGED <<task, ready, dpc, checkFollowSet, following, it, creature,
                 times, skips, references, lastOne, alive, upset>>

Worker(w) == \/ Test(w) \/ Wait(w) \/ Woken(w) \/ Call(w) \/ Take(w)
             \/ GoToFollowCreature(w) \/ Ready(w) \/ Notify(w)

Unnotified == SpuriousReturn \/ \E w \in Workers : SpuriousWakeup(w)

Next ==
  /\ alive
  /\ \/ \E w \in Workers : Worker(w)
     \/ \E c \in Creatures : AddToCheckFollow(c)
     \/ CheckFollow \/ RunTask \/ Continue \/ Stop \/ Shutdown
     \/ Unnotified

(* Threads that are not blocked run; the scheduler posts checkFollow every  *)
(* EVENT_PATH_FINDING; a server that is stopped is shut down.  Waits do not *)
(* return without a notify again and again.                                 *)
Fairness ==
  /\ <>[][~Unnotified]_vars
  /\ \A w \in Workers : WF_vars(Worker(w))
  /\ WF_vars(CheckFollow) /\ WF_vars(RunTask) /\ WF_vars(Continue)
  /\ SF_vars(Shutdown)

Spec == Init /\ [][Next]_vars
FairSpec == Spec /\ Fairness

-----------------------------------------------------------------------------
(* runTask is a barrier: when it returns every creature was handled once,   *)
(* and no thread still works on one.  checkFollow then moves the creatures  *)
(* and replaces the set the threads iterate over, under no lock.            *)
Barrier ==
  dpc = "returned" =>
    /\ \A c \in following : times[c] = 1
    /\ \A w \in Workers : creature[w] = None

(* No creature is given to two threads: goToFollowCreature writes its walk  *)
(* list.                                                                    *)
OneThreadEach ==
  /\ \A v, w \in Workers : creature[v] = creature[w] /\ creature[v] # None => v = w
  /\ \A c \in Creatures : times[c] <= 1

(* The two sets hold one reference for each creature in them, so none is    *)
(* kept forever, and none is deleted before the dispatcher is through with  *)
(* its round, however that ended.                                           *)
Sets(c) ==
  {s \in {"next", "now"} : IF s = "next" THEN c \in checkFollowSet
                           ELSE c \in following /\ dpc # "idle"}

ReferencesHeld ==
  \A c \in Creatures : references[c] = Cardinality(Sets(c))

(* What the dispatcher and the threads rely on while they share the set of   *)
(* creatures and its iterator without a lock of its own.  A wait without a   *)
(* predicate that returns on its own breaks the barrier of its round, but of *)
(* no round that begins with all threads at rest.                           *)
FollowInv ==
  /\ TypeOK /\ ReferencesHeld
  /\ ~upset => alive /\ Barrier /\ OneThreadEach

(* The dispatcher does not wait for the threads forever, unless one of them *)
(* has left on its own after stop().                                        *)
RunTaskReturns ==
  dpc = "waiting" ~> (dpc = "idle" \/ ~alive \/ (upset /\ Terminated))

(* "queue walking creatures path finding for next checkFollow": a creature  *)
(* that was skipped is handled by a later call, whose round may be broken.  *)
SkippedAreHandled ==
  \A c \in Creatures :
    (c \in checkFollowSet /\ threadState = "RUNNING")
      ~> (times[c] > 0 \/ threadState # "RUNNING" \/ upset)

(* After shutdown every thread ends, so join returns. *)
ThreadsEnd ==
  threadState = "TERMINATED" ~> (~alive \/ \A w \in Workers : pc[w] = "exit")

(* Dispatcher and threads do not wait for each other, nor main for them,     *)
(* nor a creature for both.                                                 *)
NoWaitForEver == RunTaskReturns /\ ThreadsEnd /\ SkippedAreHandled
=============================================================================
