----------------------------- MODULE OnlineProofs -----------------------------
(***************************************************************************)
(* Proofs about PathFinding for any number of threads and creatures: what  *)
(* the dispatcher and the threads rely on while they share the creatures    *)
(* and their iterator, whether the threads are prompt or not.  And about   *)
(* OutputPool, DatabaseTasks and WaitingList for the values MCOnline gives  *)
(* their constants and variables: the chain of events that serves the pool, *)
(* the queue of queries in every interleaving of its two consumers, and the *)
(* places of those who wait for a full server.                              *)
(***************************************************************************)
EXTENDS MCOnline, PathFinding, ListFacts

-----------------------------------------------------------------------------
(* The inductive invariant.  The barrier rests on a count: a thread takes    *)
(* part in a round once, from the notify that wakes it to its Ready, so the  *)
(* threads that are counted and those that take part are no more than all.  *)
(* A wait that returns without a notify spoils the count (upset), and what   *)
(* is left then is Basic: from it a round that begins with all threads at    *)
(* rest is Whole again.                                                      *)
Active == {w \in Workers : pc[w] \in {"woken", "call", "run", "done"}}

Rounds ==
  /\ task => dpc = "waiting" /\ ready + Cardinality(Active) <= Cardinality(Workers)
  /\ \A w \in Workers :
       /\ pc[w] \in {"call", "run", "done"} => task
       /\ pc[w] = "notify" => ~task /\ dpc = "waiting"
       /\ pc[w] \in {"done", "notify"} => it = {}
       /\ creature[w] # None => creature[w] \in following \ it
  /\ \A v, w \in Workers : pc[v] = "notify" /\ pc[w] = "notify" => v = w
  /\ dpc = "returned" => it = {}

(* What this round has handled, and what it has not. *)
InHand(c) == \E w \in Workers : creature[w] = c

Handled ==
  /\ \A v, w \in Workers : creature[v] = creature[w] /\ creature[v] # None => v = w
  /\ \A c \in Creatures : times[c] <= 1
  /\ dpc # "idle" =>
       \A c \in following : times[c] = IF c \in it \/ InHand(c) THEN 0 ELSE 1

References ==
  \A c \in Creatures :
    references[c] = (IF c \in checkFollowSet THEN 1 ELSE 0)
                    + (IF c \in following /\ dpc # "idle" THEN 1 ELSE 0)

Working == \A w \in Workers : creature[w] # None => pc[w] = "run"

Basic == TypeOK /\ References /\ Working
Whole == alive /\ Rounds /\ Handled
IInv == Basic /\ (upset \/ Whole)

LEMMA HeldOnceEach ==
  ASSUME References
  PROVE  ReferencesHeld
<1> SUFFICES ASSUME NEW c \in Creatures
             PROVE  references[c] = Cardinality(Sets(c))
  BY DEF ReferencesHeld
<1> DEFINE next == c \in checkFollowSet
           now == c \in following /\ dpc # "idle"
<1>1. Sets(c) = (IF next THEN {"next"} ELSE {}) \cup (IF now THEN {"now"} ELSE {})
  BY DEF Sets
<1>2. "next" # "now"
  OBVIOUS
<1>3. /\ Cardinality({}) = 0 /\ Cardinality({"next"}) = 1 /\ Cardinality({"now"}) = 1
      /\ IsFiniteSet({"now"})
  BY FS_EmptySet, FS_Singleton
<1>4. Cardinality({"now"} \cup {"next"}) = 2
  BY <1>2, <1>3, FS_AddElement
<1>5. CASE next /\ now
  <2>1. Sets(c) = {"now"} \cup {"next"}
    BY <1>1, <1>5
  <2>2. QED
    BY <1>4, <1>5, <2>1 DEF References
<1>6. CASE next /\ ~now
  <2>1. Sets(c) = {"next"}
    BY <1>1, <1>6
  <2>2. QED
    BY <1>3, <1>6, <2>1 DEF References
<1>7. CASE ~next /\ now
  <2>1. Sets(c) = {"now"}
    BY <1>1, <1>7
  <2>2. QED
    BY <1>3, <1>7, <2>1 DEF References
<1>8. CASE ~next /\ ~now
  <2>1. Sets(c) = {}
    BY <1>1, <1>8
  <2>2. QED
    BY <1>3, <1>8, <2>1 DEF References
<1>9. QED
  BY <1>5, <1>6, <1>7, <1>8

LEMMA Enough == IInv => FollowInv
<1> SUFFICES ASSUME IInv PROVE FollowInv
  OBVIOUS
<1>1. ReferencesHeld
  BY HeldOnceEach DEF IInv, Basic
<1>2. ~upset => alive /\ OneThreadEach
  BY DEF IInv, Whole, Handled, OneThreadEach
<1>3. ~upset => Barrier
  <2> SUFFICES ASSUME ~upset, dpc = "returned"
               PROVE  /\ \A c \in following : times[c] = 1
                      /\ \A w \in Workers : creature[w] = None
    BY DEF Barrier
  <2> USE DEF IInv, Basic, Whole
  <2>1. \A w \in Workers : creature[w] = None
    BY DEF Rounds, Working
  <2>2. \A c \in following : c \in Creatures /\ c # None
    BY FollowAssumption DEF TypeOK
  <2>3. \A c \in following : times[c] = 1
    BY <2>1, <2>2 DEF Rounds, Handled, InHand
  <2>4. QED
    BY <2>1, <2>3
<1>4. QED
  BY <1>1, <1>2, <1>3 DEF IInv, Basic, FollowInv

LEMMA Initially == Init => IInv
<1> SUFFICES ASSUME Init PROVE IInv
  OBVIOUS
<1> USE FollowAssumption DEF Init
<1>1. references \in [Creatures -> 0..2] /\ skips \in 0..MaxSkips
  OBVIOUS
<1>2. TypeOK
  BY <1>1 DEF TypeOK
<1>3. References /\ Working
  BY DEF References, Working
<1>4. Rounds /\ Handled
  BY DEF Rounds, Handled
<1>5. QED
  BY <1>2, <1>3, <1>4 DEF IInv, Basic, Whole

(* How many threads take part. *)
LEMMA Counts ==
  /\ Cardinality(Workers) \in Nat
  /\ \A A \in SUBSET Workers :
       /\ IsFiniteSet(A) /\ Cardinality(A) \in Nat
       /\ Cardinality(A) <= Cardinality(Workers)
       /\ \A w \in A : /\ Cardinality(A \ {w}) = Cardinality(A) - 1
                       /\ Cardinality(A) >= 1
       /\ \A v, w \in A : v # w => Cardinality(A) >= 2
<1>1. Cardinality(Workers) \in Nat
  BY FollowAssumption, FS_CardinalityType
<1>2. ASSUME NEW A \in SUBSET Workers
      PROVE  /\ IsFiniteSet(A) /\ Cardinality(A) \in Nat
             /\ Cardinality(A) <= Cardinality(Workers)
  BY FollowAssumption, FS_Subset, FS_CardinalityType
<1>3. ASSUME NEW A \in SUBSET Workers, NEW w \in A
      PROVE  /\ Cardinality(A \ {w}) = Cardinality(A) - 1
             /\ Cardinality(A) >= 1
  <2>1. IsFiniteSet(A) /\ IsFiniteSet(A \ {w})
    BY <1>2
  <2>2. Cardinality(A \ {w}) = Cardinality(A) - 1
    BY <2>1, FS_RemoveElement
  <2>3. Cardinality(A \ {w}) \in Nat /\ Cardinality(A) \in Nat
    BY <2>1, FS_CardinalityType
  <2>4. QED
    BY <2>2, <2>3
<1>4. ASSUME NEW A \in SUBSET Workers, NEW v \in A, NEW w \in A, v # w
      PROVE  Cardinality(A) >= 2
  <2>1. Cardinality(A \ {w}) = Cardinality(A) - 1 /\ Cardinality(A) \in Nat
    BY <1>2, <1>3
  <2>2. Cardinality(A \ {w}) >= 1
    BY <1>3, <1>4
  <2>3. QED
    BY <2>1, <2>2
<1>5. QED
  BY <1>1, <1>2, <1>3, <1>4

-----------------------------------------------------------------------------
(* What holds of any step, whatever has returned without a notify.           *)

LEMMA BasicOfThreads ==
  ASSUME Basic, NEW w \in Workers, Worker(w) \/ SpuriousWakeup(w)
  PROVE  Basic'
<1> USE DEF Basic, TypeOK
<1>1. CASE Test(w) \/ Wait(w) \/ Woken(w) \/ Call(w) \/ SpuriousWakeup(w)
  <2>1. /\ pc[w] \in {"top", "lock", "wait", "woken", "call"}
        /\ \E to \in {"exit", "lock", "wait", "woken", "call", "top", "run"} :
             pc' = [pc EXCEPT ![w] = to]
        /\ UNCHANGED <<threadState, task, ready, dpc, checkFollowSet, following, it,
                       creature, times, skips, references, lastOne>>
        /\ alive' \in BOOLEAN /\ upset' \in BOOLEAN
    BY <1>1 DEF Test, Wait, Woken, Call, SpuriousWakeup, Move, Terminated
  <2>2. creature[w] = None
    BY <2>1 DEF Working
  <2>3. TypeOK' /\ References'
    BY <2>1 DEF References
  <2>4. Working'
    BY <2>1, <2>2 DEF Working
  <2>5. QED
    BY <2>3, <2>4
<1>2. CASE Take(w)
  BY <1>2 DEF Take, Advanced, References, Working
<1>3. CASE GoToFollowCreature(w)
  <2>1. creature[w] \in Creatures
    BY <1>3 DEF GoToFollowCreature
  <2>2. times' \in [Creatures -> Nat]
    BY <1>3, <2>1 DEF GoToFollowCreature
  <2>3. QED
    BY <1>3, <2>2 DEF GoToFollowCreature, References, Working
<1>4. CASE Ready(w)
  BY <1>4 DEF Ready, Move, References, Working
<1>5. CASE Notify(w)
  <2>1. \A v \in Workers : pc'[v] \in {pc[v], "woken", "top"} /\ (creature[v] # None => pc'[v] = "run")
    BY <1>5 DEF Notify, WakeWorkers, Working
  <2>2. pc' \in [Workers -> {"top", "lock", "wait", "woken", "call", "run",
                             "done", "notify", "exit"}]
    BY <1>5 DEF Notify, WakeWorkers
  <2>3. QED
    BY <1>5, <2>1, <2>2 DEF Notify, References, Working
<1>6. QED
  BY <1>1, <1>2, <1>3, <1>4, <1>5 DEF Worker

LEMMA BasicOfAdding == ASSUME Basic, NEW c \in Creatures, AddToCheckFollow(c) PROVE Basic'
<1> USE DEF Basic, TypeOK
<1>1. /\ dpc = "idle"
      /\ references' = Counted(c)
      /\ checkFollowSet' = checkFollowSet \cup {c}
      /\ UNCHANGED <<threadState, task, ready, pc, dpc, following, it, creature,
                     times, skips, lastOne, alive, upset>>
  BY DEF AddToCheckFollow
<1>2. /\ Counted(c) \in [Creatures -> 0..2]
      /\ \A d \in Creatures : d # c => Counted(c)[d] = references[d]
      /\ Counted(c)[c] = 1
  BY <1>1 DEF Counted, References
<1>3. QED
  BY <1>1, <1>2 DEF References, Working

LEMMA BasicOfChecking == ASSUME Basic, CheckFollow PROVE Basic'
<1> USE DEF Basic, TypeOK
<1>1. PICK skipped \in SUBSET checkFollowSet :
        /\ skips' = skips + Cardinality(skipped)
        /\ skips + Cardinality(skipped) <= MaxSkips
        /\ checkFollowSet' = skipped
        /\ following' = checkFollowSet \ skipped
        /\ it' = checkFollowSet \ skipped
  BY DEF CheckFollow, Kept
<1>2. /\ dpc = "idle" /\ dpc' = "runTask"
      /\ lastOne' \in BOOLEAN /\ upset' \in BOOLEAN /\ alive' \in BOOLEAN
      /\ times' = [c \in Creatures |-> 0]
      /\ UNCHANGED <<threadState, task, ready, pc, creature, references>>
  BY DEF CheckFollow, Intrudes
<1>3. Cardinality(skipped) \in Nat
  <2>1. skipped \subseteq Creatures /\ IsFiniteSet(Creatures)
    BY <1>1, FollowAssumption
  <2>2. IsFiniteSet(skipped)
    BY <2>1, FS_Subset
  <2>3. QED
    BY <2>2, FS_CardinalityType
<1>4. skips' \in 0..MaxSkips
  BY <1>1, <1>3, FollowAssumption
<1>5. TypeOK' /\ Working'
  BY <1>1, <1>2, <1>4 DEF Working
<1>6. References'
  <2> SUFFICES ASSUME NEW c \in Creatures
               PROVE  references'[c] = (IF c \in checkFollowSet' THEN 1 ELSE 0)
                                       + (IF c \in following' THEN 1 ELSE 0)
    BY <1>2 DEF References
  <2>1. references'[c] = IF c \in checkFollowSet THEN 1 ELSE 0
    BY <1>2 DEF References
  <2>2. QED
    BY <1>1, <2>1
<1>7. QED
  BY <1>5, <1>6

LEMMA BasicOfContinuing == ASSUME Basic, Continue PROVE Basic'
<1> USE DEF Basic, TypeOK
<1>1. /\ dpc = "returned" /\ dpc' = "idle" /\ alive' \in BOOLEAN
      /\ references' = [c \in Creatures |->
                          IF c \in following THEN references[c] - 1 ELSE references[c]]
      /\ UNCHANGED <<threadState, task, ready, pc, checkFollowSet, following, it,
                     creature, times, skips, lastOne, upset>>
  BY DEF Continue, Intrudes
<1>2. \A c \in Creatures :
        /\ references'[c] = IF c \in checkFollowSet THEN 1 ELSE 0
        /\ references'[c] \in 0..2
  BY <1>1 DEF References
<1>3. QED
  BY <1>1, <1>2 DEF References, Working

LEMMA BasicOfRounds ==
  ASSUME Basic, RunTask \/ SpuriousReturn \/ Stop \/ Shutdown
  PROVE  Basic'
<1> USE DEF Basic, TypeOK
<1>1. /\ pc' \in {pc, WakeWorkers}
      /\ (dpc # "idle" <=> dpc' # "idle") /\ dpc' \in {"idle", "waiting", "returned"}
      /\ threadState' \in {"RUNNING", "STOPPED", "TERMINATED"}
      /\ task' \in BOOLEAN /\ ready' \in Nat /\ lastOne' \in BOOLEAN /\ upset' \in BOOLEAN
      /\ UNCHANGED <<checkFollowSet, following, it, creature, times, skips, references, alive>>
  <2>1. CASE RunTask
    BY <2>1 DEF RunTask, NoneReady
  <2>2. CASE SpuriousReturn
    BY <2>2 DEF SpuriousReturn
  <2>3. CASE Stop
    BY <2>3 DEF Stop
  <2>4. CASE Shutdown
    BY <2>4 DEF Shutdown
  <2>5. QED
    BY <2>1, <2>2, <2>3, <2>4
<1>2. \A w \in Workers : pc'[w] \in {pc[w], "woken"} /\ (pc[w] = "run" => pc'[w] = "run")
  BY <1>1 DEF WakeWorkers
<1>3. pc' \in [Workers -> {"top", "lock", "wait", "woken", "call", "run",
                           "done", "notify", "exit"}]
  BY <1>1 DEF WakeWorkers
<1>4. QED
  BY <1>1, <1>2, <1>3 DEF References, Working

-----------------------------------------------------------------------------
(* The threads, in a round that is whole. *)

(* A thread moves on, outside of a round or on its way into or out of it.    *)
LEMMA Moving ==
  ASSUME Basic, Whole, NEW w \in Workers, Test(w) \/ Wait(w) \/ Woken(w) \/ Call(w)
  PROVE  Whole'
<1> USE DEF Basic, Whole, TypeOK
<1> DEFINE to == CASE pc[w] = "top"   -> IF Terminated THEN "exit" ELSE "lock"
                   [] pc[w] = "lock"  -> "wait"
                   [] pc[w] = "woken" -> IF task THEN "call" ELSE "top"
                   [] pc[w] = "call"  -> "run"
<1>1. /\ pc[w] \in {"top", "lock", "woken", "call"}
      /\ pc' = [pc EXCEPT ![w] = to]
  <2>1. CASE Test(w)
    BY <2>1 DEF Test, Move
  <2>2. CASE Wait(w)
    BY <2>2 DEF Wait, Move
  <2>3. CASE Woken(w)
    BY <2>3 DEF Woken, Move
  <2>4. CASE Call(w)
    BY <2>4 DEF Call, Move
  <2>5. QED
    BY <2>1, <2>2, <2>3, <2>4
<1>2. UNCHANGED <<threadState, task, ready, dpc, checkFollowSet, following, it,
                  creature, times, skips, references, lastOne>>
  BY DEF Test, Wait, Woken, Call
<1>3. pc[w] = "call" => task
  BY DEF Rounds
<1>4. alive'
  BY <1>3 DEF Test, Wait, Woken, Call, Move
<1>5. Handled'
  BY <1>1, <1>2 DEF Handled, InHand
<1>6. Rounds'
  <2>1. task => Active' = Active
    BY <1>1, <1>2 DEF Active
  <2>2. \A v \in Workers : v # w => pc'[v] = pc[v]
    BY <1>1
  <2>3. pc'[w] \notin {"done", "notify"} /\ (pc'[w] \in {"call", "run"} => task)
        /\ creature[w] = None
    BY <1>1, <1>3 DEF Working
  <2>4. QED
    BY <1>2, <2>1, <2>2, <2>3 DEF Rounds
<1>7. QED
  BY <1>4, <1>5, <1>6

LEMMA Taking == ASSUME Basic, Whole, NEW w \in Workers, Take(w) PROVE Whole'
<1> USE DEF Basic, Whole, TypeOK
<1>1. /\ pc[w] = "run" /\ creature[w] = None
      /\ UNCHANGED <<threadState, task, ready, dpc, checkFollowSet, following,
                     times, skips, references, lastOne, alive>>
  BY DEF Take
<1>2. CASE it = {}
  <2>1. pc' = [pc EXCEPT ![w] = "done"] /\ UNCHANGED <<it, creature>>
    BY <1>2 DEF Take
  <2>2. Active' = Active
    BY <1>1, <2>1 DEF Active
  <2>3. Handled'
    BY <1>1, <2>1 DEF Handled, InHand
  <2>4. Rounds'
    BY <1>1, <1>2, <2>1, <2>2 DEF Rounds
  <2>5. QED
    BY <1>1, <2>3, <2>4
<1>3. CASE it # {}
  <2>1. PICK c \in it : /\ it' = it \ {c}
                        /\ creature' = [creature EXCEPT ![w] = c]
                        /\ pc' = pc
    BY <1>3 DEF Take, Advanced
  <2>2. c \in Creatures /\ c # None /\ c \in following
    BY FollowAssumption
  <2>3. Active' = Active
    BY <2>1 DEF Active
  <2>4. Rounds'
    BY <1>1, <1>3, <2>1, <2>2, <2>3 DEF Rounds
  <2>5. \A v \in Workers : creature[v] # c
    BY <2>2 DEF Rounds
  <2>6. \A d \in following : d \in it' \/ InHand(d)' <=> d \in it \/ InHand(d)
    BY <1>1, <2>1, <2>2, FollowAssumption DEF InHand
  <2>7. Handled'
    BY <1>1, <2>1, <2>2, <2>5, <2>6 DEF Handled
  <2>8. QED
    BY <1>1, <2>4, <2>7
<1>4. QED
  BY <1>2, <1>3

LEMMA Going == ASSUME Basic, Whole, NEW w \in Workers, GoToFollowCreature(w) PROVE Whole'
<1> USE DEF Basic, Whole, TypeOK
<1>1. /\ pc[w] = "run" /\ creature[w] # None
      /\ times' = [times EXCEPT ![creature[w]] = @ + 1]
      /\ creature' = [creature EXCEPT ![w] = None]
      /\ UNCHANGED <<threadState, task, ready, pc, dpc, checkFollowSet, following,
                     it, skips, references, lastOne, alive>>
  BY DEF GoToFollowCreature
<1>2. /\ creature[w] \in following \ it /\ creature[w] \in Creatures
      /\ dpc = "waiting"
  BY <1>1 DEF Rounds
<1>3. InHand(creature[w])
  BY <1>1, <1>2 DEF InHand
<1>4. times[creature[w]] = 0
  BY <1>2, <1>3 DEF Handled
<1>5. /\ times' \in [Creatures -> Nat] /\ times'[creature[w]] = 1
      /\ \A c \in Creatures : c # creature[w] => times'[c] = times[c]
  BY <1>1, <1>2, <1>4
<1>6. \A c \in Creatures : InHand(c)' <=> InHand(c) /\ c # creature[w]
  BY <1>1, FollowAssumption DEF InHand, Handled
<1>7. Rounds'
  <2>1. Active' = Active
    BY <1>1 DEF Active
  <2>2. QED
    BY <1>1, <2>1 DEF Rounds
<1>8. Handled'
  BY <1>1, <1>2, <1>4, <1>5, <1>6 DEF Handled
<1>9. QED
  BY <1>1, <1>7, <1>8

LEMMA Finishing == ASSUME Basic, Whole, NEW w \in Workers, Ready(w) PROVE Whole'
<1> USE DEF Basic, Whole, TypeOK
<1>1. /\ pc[w] = "done"
      /\ pc' = [pc EXCEPT ![w] = IF IsLast THEN "notify" ELSE "top"]
      /\ ready' = ready + 1
      /\ task' = (task /\ ~IsLast)
      /\ UNCHANGED <<threadState, dpc, checkFollowSet, following, it, creature,
                     times, skips, references, lastOne, alive>>
  BY DEF Ready, Move
<1>2. /\ task /\ it = {} /\ creature[w] = None /\ dpc = "waiting" /\ w \in Active
      /\ ready + Cardinality(Active) <= Cardinality(Workers)
  BY <1>1 DEF Rounds, Active, Working
<1>3. Active \in SUBSET Workers /\ Active' = Active \ {w}
  BY <1>1, <1>2 DEF Active
<1>4. /\ Cardinality(Workers) \in Nat /\ Cardinality(Active) \in Nat
      /\ Cardinality(Active') = Cardinality(Active) - 1
      /\ Cardinality(Active) >= 1
  BY <1>2, <1>3, Counts
<1>5. Handled'
  BY <1>1 DEF Handled, InHand
<1>6. CASE ~IsLast
  <2>1. ready' + Cardinality(Active') <= Cardinality(Workers)
    BY <1>1, <1>2, <1>4
  <2>2. QED
    BY <1>1, <1>2, <1>5, <1>6, <2>1 DEF Rounds
<1>7. CASE IsLast
  <2>1. \A v \in Active : v = w
    BY <1>2, <1>3, <1>4, <1>7, Counts DEF IsLast
  <2>2. \A v \in Workers : v # w => pc[v] \notin {"woken", "call", "run", "done"}
    BY <2>1 DEF Active
  <2>3. QED
    BY <1>1, <1>2, <1>5, <1>7, <2>2 DEF Rounds
<1>8. QED
  BY <1>6, <1>7

LEMMA Notifying == ASSUME Basic, Whole, NEW w \in Workers, Notify(w) PROVE Whole'
<1> USE DEF Basic, Whole, TypeOK
<1>1. /\ pc[w] = "notify"
      /\ pc' = [WakeWorkers EXCEPT ![w] = "top"]
      /\ dpc' = IF dpc = "waiting" THEN "returned" ELSE dpc
      /\ UNCHANGED <<threadState, task, ready, checkFollowSet, following, it,
                     creature, times, skips, references, lastOne, alive>>
  BY DEF Notify
<1>2. ~task /\ dpc = "waiting" /\ it = {}
  BY <1>1 DEF Rounds
<1>3. \A v \in Workers : pc'[v] \in {pc[v], "woken", "top"}
  BY <1>1 DEF WakeWorkers
<1>4. Handled'
  BY <1>1, <1>2 DEF Handled, InHand
<1>5. Rounds'
  <2>1. \A v \in Workers : pc[v] \notin {"call", "run", "done"} /\ creature[v] = None
    BY <1>2 DEF Rounds, Working
  <2>2. \A v \in Workers : pc'[v] \notin {"call", "run", "done", "notify"}
    BY <1>1, <1>3, <2>1 DEF WakeWorkers, Rounds
  <2>3. QED
    BY <1>1, <1>2, <2>1, <2>2 DEF Rounds
<1>6. QED
  BY <1>1, <1>4, <1>5

(* A wait that returns while there is no task and no end: the thread goes    *)
(* back to it, or takes part in the next round once like the others.         *)
LEMMA Waking == ASSUME Basic, Whole, NEW w \in Workers, SpuriousWakeup(w), ~upset' PROVE Whole'
<1> USE DEF Basic, Whole, TypeOK
<1>1. /\ ~task /\ pc[w] = "wait" /\ pc' = [pc EXCEPT ![w] = "woken"]
      /\ UNCHANGED <<threadState, task, ready, dpc, checkFollowSet, following, it,
                     creature, times, skips, references, lastOne, alive>>
  BY DEF SpuriousWakeup, Move
<1>2. creature[w] = None
  BY <1>1 DEF Working
<1>3. Handled'
  BY <1>1 DEF Handled, InHand
<1>4. \A v \in Workers : v # w => pc'[v] = pc[v]
  BY <1>1
<1>5. pc'[w] = "woken"
  BY <1>1
<1>6. Rounds'
  BY <1>1, <1>2, <1>4, <1>5 DEF Rounds
<1>7. QED
  BY <1>1, <1>3, <1>6

-----------------------------------------------------------------------------
(* The dispatcher.  Between two rounds there is no task.                     *)
LEMMA BetweenRounds ==
  ASSUME Basic, Whole, dpc # "waiting"
  PROVE  /\ ~task
         /\ \A w \in Workers : /\ pc[w] \notin {"call", "run", "done", "notify"}
                              /\ creature[w] = None
  BY DEF Basic, Whole, Rounds, Working

LEMMA Adding == ASSUME Basic, Whole, NEW c \in Creatures, AddToCheckFollow(c) PROVE Whole'
<1>1. UNCHANGED <<threadState, task, ready, pc, dpc, following, it, creature,
                  times, skips, lastOne, alive>>
  BY DEF AddToCheckFollow
<1>2. Active' = Active
  BY <1>1 DEF Active
<1>3. QED
  BY <1>1, <1>2 DEF Whole, Rounds, Handled, InHand

(* A round begins: what spoiled an earlier one is over when all are at rest. *)
LEMMA Checking ==
  ASSUME Basic, alive, CheckFollow, Whole \/ Settled
  PROVE  Whole'
<1>1. dpc = "idle"
  BY DEF CheckFollow
<1>2. /\ ~task
      /\ \A w \in Workers : /\ pc[w] \notin {"call", "run", "done", "notify"}
                           /\ creature[w] = None
  <2>1. CASE Whole
    BY <1>1, <2>1, BetweenRounds
  <2>2. CASE Settled
    BY <2>2 DEF Settled, Basic, Working
  <2>3. QED
    BY <2>1, <2>2
<1> USE DEF Basic, TypeOK
<1>3. /\ dpc' = "runTask" /\ following' = it'
      /\ times' = [c \in Creatures |-> 0]
      /\ UNCHANGED <<threadState, task, ready, pc, creature, references>>
  BY DEF CheckFollow
<1>4. following' \subseteq Creatures
  BY DEF CheckFollow, Kept
<1>5. alive'
  BY <1>2 DEF CheckFollow, Intrudes
<1>6. Rounds' /\ Handled'
  BY <1>2, <1>3, <1>4 DEF Rounds, Handled
<1>7. QED
  BY <1>5, <1>6 DEF Whole

LEMMA Running == ASSUME Basic, Whole, RunTask PROVE Whole'
<1>1. dpc = "runTask"
  BY DEF RunTask
<1>2. /\ ~task
      /\ \A w \in Workers : /\ pc[w] \notin {"call", "run", "done", "notify"}
                           /\ creature[w] = None
  BY <1>1, BetweenRounds
<1>3. /\ Cardinality(Workers) \in Nat
      /\ Cardinality(Active') \in Nat
      /\ Cardinality(Active') <= Cardinality(Workers)
  <2>1. Active' \in SUBSET Workers
    BY DEF Active
  <2>2. QED
    BY <2>1, Counts
<1> USE DEF Basic, Whole, TypeOK
<1>4. /\ dpc = "runTask" /\ dpc' = "waiting"
      /\ task' = TRUE
      /\ ready' = 0
      /\ pc' = WakeWorkers
      /\ UNCHANGED <<threadState, checkFollowSet, following, it, creature, times,
                     skips, references, lastOne, alive>>
  BY DEF RunTask, NoneReady
<1>5. \A w \in Workers : pc'[w] \in {pc[w], "woken"}
  BY <1>4 DEF WakeWorkers
<1>6. Handled'
  BY <1>4 DEF Handled, InHand
<1>7. Rounds'
  BY <1>2, <1>3, <1>4, <1>5 DEF Rounds
<1>8. QED
  BY <1>4, <1>6, <1>7

LEMMA Continuing == ASSUME Basic, Whole, Continue PROVE Whole'
<1>1. dpc = "returned"
  BY DEF Continue
<1>2. /\ ~task
      /\ \A w \in Workers : /\ pc[w] \notin {"call", "run", "done", "notify"}
                           /\ creature[w] = None
  BY <1>1, BetweenRounds
<1>3. /\ dpc' = "idle" /\ alive'
      /\ UNCHANGED <<threadState, task, ready, pc, checkFollowSet, following, it,
                     creature, times, skips, lastOne>>
  BY <1>2 DEF Continue, Intrudes
<1>4. QED
  BY <1>1, <1>2, <1>3 DEF Whole, Rounds, Handled

LEMMA Ending == ASSUME Basic, Whole, Stop \/ Shutdown PROVE Whole'
<1>1. dpc = "idle"
  BY DEF Stop, Shutdown
<1>2. /\ ~task
      /\ \A w \in Workers : /\ pc[w] \notin {"call", "run", "done", "notify"}
                           /\ creature[w] = None
  BY <1>1, BetweenRounds
<1> USE DEF Basic, Whole, TypeOK
<1>3. /\ pc' \in {pc, WakeWorkers}
      /\ UNCHANGED <<task, ready, dpc, checkFollowSet, following, it, creature,
                     times, skips, references, alive>>
  BY DEF Stop, Shutdown
<1>4. \A w \in Workers : pc'[w] \in {pc[w], "woken"}
  BY <1>3 DEF WakeWorkers
<1>5. Handled'
  BY <1>3 DEF Handled, InHand
<1>6. Rounds'
  BY <1>1, <1>2, <1>3, <1>4 DEF Rounds
<1>7. QED
  BY <1>3, <1>5, <1>6

LEMMA Inductive == IInv /\ [Next]_vars => IInv'
<1> SUFFICES ASSUME IInv, [Next]_vars PROVE IInv'
  OBVIOUS
<1>1. CASE UNCHANGED vars
  BY <1>1 DEF vars, IInv, Basic, Whole, TypeOK, Rounds, Active, Handled, InHand,
              References, Working
<1>2. ASSUME NEW w \in Workers, Worker(w) PROVE IInv'
  <2>1. upset' = upset
    BY <1>2 DEF Worker, Test, Wait, Woken, Call, Take, GoToFollowCreature, Ready, Notify
  <2>2. QED
    BY <1>2, <2>1, BasicOfThreads, Moving, Taking, Going, Finishing, Notifying
       DEF IInv, Worker
<1>3. ASSUME NEW c \in Creatures, AddToCheckFollow(c) PROVE IInv'
  <2>1. upset' = upset
    BY <1>3 DEF AddToCheckFollow
  <2>2. QED
    BY <1>3, <2>1, BasicOfAdding, Adding DEF IInv
<1>4. CASE alive /\ CheckFollow
  <2>1. upset' = (upset /\ ~Settled)
    BY <1>4 DEF CheckFollow
  <2>2. QED
    BY <1>4, <2>1, BasicOfChecking, Checking DEF IInv
<1>5. CASE RunTask
  <2>1. upset' = upset
    BY <1>5 DEF RunTask
  <2>2. QED
    BY <1>5, <2>1, BasicOfRounds, Running DEF IInv
<1>6. CASE Continue
  <2>1. upset' = upset
    BY <1>6 DEF Continue
  <2>2. QED
    BY <1>6, <2>1, BasicOfContinuing, Continuing DEF IInv
<1>7. CASE Stop \/ Shutdown
  <2>1. upset' = upset
    BY <1>7 DEF Stop, Shutdown
  <2>2. QED
    BY <1>7, <2>1, BasicOfRounds, Ending DEF IInv
<1>8. CASE SpuriousReturn
  <2>1. upset'
    BY <1>8 DEF SpuriousReturn
  <2>2. QED
    BY <1>8, <2>1, BasicOfRounds DEF IInv
<1>9. ASSUME NEW w \in Workers, SpuriousWakeup(w) PROVE IInv'
  <2>1. upset => upset'
    BY <1>9 DEF SpuriousWakeup
  <2>2. QED
    BY <1>9, <2>1, BasicOfThreads, Waking DEF IInv
<1>10. QED
  BY <1>1, <1>2, <1>3, <1>4, <1>5, <1>6, <1>7, <1>8, <1>9 DEF Next, Unnotified

(* In every reachable state, for any number of threads and creatures, and    *)
(* also with threads that are not back at their wait when the dispatcher     *)
(* calls runTask: the two sets hold one reference for each creature in them, *)
(* whatever wakes without a notify; and as long as no such wake-up has made  *)
(* a difference since a round began with all threads at rest, no two threads *)
(* ever work on the same creature, and when runTask has returned every       *)
(* creature of the round was handled once and no thread works on one.        *)
THEOREM FollowIsSafe == Spec => []FollowInv
<1>1. Spec => []IInv
  BY Initially, Inductive, PTL DEF Spec
<1>2. QED
  BY <1>1, Enough, PTL


-----------------------------------------------------------------------------
(* The output pool.  Every event of the chain was started by a login, so     *)
(* there are no more of them than logins.                                    *)
PoolAssumed == Capacity \in Nat \ {0} /\ MaxMessages \in Nat /\ MaxLogins \in Nat

PoolIInv == Pool!PoolInv /\ scheduled <= logins

(* What was written so far, with one more.                                  *)
UpTo(n) == [i \in 1..n |-> i]

LEMMA OneMore ==
  ASSUME NEW n \in Nat
  PROVE  /\ UpTo(n) \in Seq(Nat) /\ Len(UpTo(n)) = n
         /\ Append(UpTo(n), n + 1) = UpTo(n + 1)
<1>1. UpTo(n) \in Seq(Nat) /\ Len(UpTo(n)) = n
  <2>1. \A i \in 1..n : i \in Nat
    OBVIOUS
  <2>2. QED
    BY <2>1, IsASeq, LenProperties DEF UpTo
<1>2. UpTo(n + 1) \in Seq(Nat) /\ Len(UpTo(n + 1)) = n + 1
  <2>1. \A i \in 1..(n + 1) : i \in Nat /\ n + 1 \in Nat
    OBVIOUS
  <2>2. QED
    BY <2>1, IsASeq, LenProperties DEF UpTo
<1>3. Append(UpTo(n), n + 1) \in Seq(Nat)
  BY <1>1, SeqFacts
<1>4. /\ Len(Append(UpTo(n), n + 1)) = n + 1
      /\ \A i \in 1..n : Append(UpTo(n), n + 1)[i] = UpTo(n)[i]
      /\ Append(UpTo(n), n + 1)[n + 1] = n + 1
  BY <1>1, SeqFacts
<1>5. \A i \in 1..n : UpTo(n)[i] = i
  BY DEF UpTo
<1>6. \A i \in 1..(n + 1) : UpTo(n + 1)[i] = i
  BY DEF UpTo
<1>7. \A i \in 1..(n + 1) : Append(UpTo(n), n + 1)[i] = UpTo(n + 1)[i]
  BY <1>4, <1>5, <1>6
<1>8. QED
  BY <1>1, <1>2, <1>3, <1>4, <1>7, SeqEqual

LEMMA Joined ==
  ASSUME NEW S, NEW s \in Seq(S), NEW e \in S
  PROVE  s \o <<e>> = Append(s, e)
BY AppendIsConcat

LEMMA Nothing == <<>> \o <<>> = UpTo(0)
<1>1. <<>> \in Seq(Nat)
  BY SeqFacts
<1>2. <<>> \o <<>> = <<>>
  BY <1>1, ConcatEmptySeq
<1>3. UpTo(0) = <<>>
  BY OneMore, SeqFacts
<1>4. QED
  BY <1>2, <1>3

LEMMA PoolInitially ==
  ASSUME PoolAssumed, Pool!Init
  PROVE  PoolIInv
<1> USE DEF Pool!Init
<1>1. \A S : <<>> \in Seq(S) /\ Len(<<>>) = 0
  BY SeqFacts
<1>2. Pool!TypeOK
  BY <1>1 DEF Pool!TypeOK, PoolAssumed
<1>3. Pool!OutputInOrder
  BY Nothing DEF Pool!OutputInOrder, UpTo
<1>4. QED
  BY <1>2, <1>3 DEF PoolIInv, Pool!PoolInv, Pool!PoolIsServed, PoolAssumed

LEMMA WriteKeeps ==
  ASSUME PoolAssumed, PoolIInv, NEW p \in Protocols, Pool!Write(p)
  PROVE  PoolIInv'
<1> DEFINE n == written[p] + 1
<1>1. /\ buffer \in [Protocols -> Seq(1..MaxMessages)]
      /\ wire \in [Protocols -> Seq(1..MaxMessages)]
      /\ written \in [Protocols -> 0..MaxMessages]
      /\ \A q \in Protocols : Len(buffer[q]) <= Capacity
  BY DEF PoolIInv, Pool!PoolInv, Pool!TypeOK
<1>2. /\ written[p] < MaxMessages /\ written' = [written EXCEPT ![p] = n]
      /\ UNCHANGED <<bufferedProtocols, scheduled, open, logins>>
  BY DEF Pool!Write
<1>3. n \in 1..MaxMessages /\ MaxMessages \in Nat /\ n = written[p] + 1 /\ written[p] \in Nat
  BY <1>1, <1>2 DEF PoolAssumed
<1> HIDE DEF n
<1>4. buffer[p] \in Seq(1..MaxMessages) /\ wire[p] \in Seq(1..MaxMessages)
  BY <1>1
<1>5. p \in open => wire[p] \o buffer[p] = UpTo(written[p])
  BY DEF PoolIInv, Pool!PoolInv, Pool!OutputInOrder, UpTo
<1>6. \E b, w \in Seq(1..MaxMessages) :
        /\ buffer' = [buffer EXCEPT ![p] = b] /\ wire' = [wire EXCEPT ![p] = w]
        /\ Len(b) <= Capacity
        /\ p \in open => w \o b = UpTo(n)
  <2>1. p \in open => Append(wire[p] \o buffer[p], n) = UpTo(n)
    <3>1. Append(UpTo(written[p]), n) = UpTo(n)
      BY <1>3, OneMore
    <3>2. QED
      BY <1>5, <3>1
  <2>2. <<n>> \in Seq(1..MaxMessages) /\ Len(<<n>>) = 1
    BY <1>3
  <2>3. CASE Pool!Full(p)
    <3>1. Pool!Sent(p) \in Seq(1..MaxMessages)
      <4>1. wire[p] \o buffer[p] \in Seq(1..MaxMessages)
        BY <1>4, ConcatProperties
      <4>2. QED
        BY <1>4, <4>1 DEF Pool!Sent
    <3>2. buffer' = [buffer EXCEPT ![p] = <<n>>] /\ wire' = [wire EXCEPT ![p] = Pool!Sent(p)]
      BY <1>3, <2>3 DEF Pool!Write
    <3>3. 1 <= Capacity
      BY DEF PoolAssumed
    <3>4. p \in open => Pool!Sent(p) \o <<n>> = UpTo(n)
      <4>1. Pool!Sent(p) \o <<n>> = Append(Pool!Sent(p), n)
        BY <1>3, <3>1, Joined
      <4>2. QED
        BY <2>1, <4>1 DEF Pool!Sent
    <3>5. QED
      BY <2>2, <3>1, <3>2, <3>3, <3>4
  <2>4. CASE ~Pool!Full(p)
    <3>1. buffer' = [buffer EXCEPT ![p] = Append(buffer[p], n)] /\ wire' = wire
      BY <1>3, <2>4 DEF Pool!Write
    <3>2. /\ Append(buffer[p], n) \in Seq(1..MaxMessages)
          /\ Len(Append(buffer[p], n)) = Len(buffer[p]) + 1 /\ Len(buffer[p]) \in Nat
      BY <1>3, <1>4, SeqFacts
    <3>3. Len(buffer[p]) + 1 <= Capacity
      BY <1>1, <2>4, <3>2 DEF Pool!Full, PoolAssumed
    <3>4. wire[p] \o Append(buffer[p], n) = Append(wire[p] \o buffer[p], n)
      <4> DEFINE S == 1..MaxMessages
                 w == wire[p]
                 b == buffer[p]
      <4>1. w \in Seq(S) /\ b \in Seq(S) /\ n \in S
        BY <1>3, <1>4
      <4> HIDE DEF S, w, b
      <4>2. w \o Append(b, n) = Append(w \o b, n)
        BY <4>1, AppendConcat
      <4>3. QED
        BY <4>2 DEF w, b
    <3>5. wire' = [wire EXCEPT ![p] = wire[p]]
      BY <1>1, <3>1
    <3>6. QED
      BY <1>4, <2>1, <3>1, <3>2, <3>3, <3>4, <3>5
  <2>5. QED
    BY <2>3, <2>4
<1>7. PICK b, w \in Seq(1..MaxMessages) :
        /\ buffer' = [buffer EXCEPT ![p] = b] /\ wire' = [wire EXCEPT ![p] = w]
        /\ Len(b) <= Capacity
        /\ p \in open => w \o b = UpTo(n)
  BY <1>6
<1>8. Pool!TypeOK'
  BY <1>1, <1>2, <1>3, <1>7 DEF PoolIInv, Pool!PoolInv, Pool!TypeOK
<1>9. Pool!OutputInOrder'
  <2> SUFFICES ASSUME NEW q \in open'
               PROVE  wire'[q] \o buffer'[q] = UpTo(written'[q])
    BY DEF Pool!OutputInOrder, UpTo
  <2>1. q \in open /\ q \in Protocols
    BY <1>2 DEF PoolIInv, Pool!PoolInv, Pool!TypeOK
  <2>2. CASE q = p
    BY <1>1, <1>2, <1>7, <2>1, <2>2
  <2>3. CASE q # p
    <3>1. wire'[q] = wire[q] /\ buffer'[q] = buffer[q] /\ written'[q] = written[q]
      BY <1>1, <1>2, <1>7, <2>1, <2>3
    <3>2. wire[q] \o buffer[q] = UpTo(written[q])
      BY <2>1 DEF PoolIInv, Pool!PoolInv, Pool!OutputInOrder, UpTo
    <3>3. QED
      BY <3>1, <3>2
  <2>4. QED
    BY <2>2, <2>3
<1>10. QED
  BY <1>2, <1>8, <1>9 DEF PoolIInv, Pool!PoolInv, Pool!PoolIsServed

LEMMA SendAllKeeps ==
  ASSUME PoolAssumed, PoolIInv, Pool!SendAll
  PROVE  PoolIInv'
<1>1. /\ buffer \in [Protocols -> Seq(1..MaxMessages)]
      /\ wire \in [Protocols -> Seq(1..MaxMessages)]
      /\ \A q \in Protocols : Len(buffer[q]) <= Capacity
      /\ scheduled \in 0..MaxLogins /\ logins \in 0..MaxLogins /\ open \subseteq Protocols
  BY DEF PoolIInv, Pool!PoolInv, Pool!TypeOK
<1>2. /\ scheduled > 0 /\ UNCHANGED <<bufferedProtocols, written, open, logins>>
      /\ wire' = [p \in Protocols |-> IF p \in Pool!InPool THEN Pool!Sent(p) ELSE wire[p]]
      /\ buffer' = [p \in Protocols |-> IF p \in Pool!InPool THEN <<>> ELSE buffer[p]]
      /\ scheduled' = IF bufferedProtocols # <<>> THEN scheduled ELSE scheduled - 1
  BY DEF Pool!SendAll, Pool!MovedOut, Pool!Rescheduled
<1>3. \A p \in Protocols : Pool!Sent(p) \in Seq(1..MaxMessages)
  <2> SUFFICES ASSUME NEW p \in Protocols
               PROVE  Pool!Sent(p) \in Seq(1..MaxMessages)
    OBVIOUS
  <2>1. buffer[p] \in Seq(1..MaxMessages) /\ wire[p] \in Seq(1..MaxMessages)
    BY <1>1
  <2>2. wire[p] \o buffer[p] \in Seq(1..MaxMessages)
    BY <2>1, ConcatProperties
  <2>3. QED
    BY <2>1, <2>2 DEF Pool!Sent
<1>4. \A S : <<>> \in Seq(S) /\ Len(<<>>) = 0
  BY SeqFacts
<1>5. wire' \in [Protocols -> Seq(1..MaxMessages)]
  BY <1>1, <1>2, <1>3
<1>6. /\ buffer' \in [Protocols -> Seq(1..MaxMessages)]
      /\ \A p \in Protocols : Len(buffer'[p]) <= Capacity
  <2>1. /\ \A p \in Protocols : buffer[p] \in Seq(1..MaxMessages)
        /\ \A p \in Protocols : buffer'[p] = IF p \in Pool!InPool THEN <<>> ELSE buffer[p]
    BY <1>1, <1>2
  <2>2. \A p \in Protocols : buffer'[p] \in Seq(1..MaxMessages)
    BY <1>4, <2>1
  <2>3. ASSUME NEW p \in Protocols
        PROVE  Len(buffer'[p]) <= Capacity
    <3>1. CASE p \in Pool!InPool
      <4>1. buffer'[p] = <<>>
        BY <2>1, <3>1
      <4>2. Len(<<>>) = 0
        BY <1>4
      <4>3. QED
        BY <4>1, <4>2 DEF PoolAssumed
    <3>2. CASE p \notin Pool!InPool
      BY <1>1, <2>1, <3>2
    <3>3. QED
      BY <3>1, <3>2
  <2>4. QED
    BY <1>2, <2>2, <2>3
<1>7. scheduled' \in 0..MaxLogins /\ scheduled' <= logins' /\ Pool!PoolIsServed'
  BY <1>1, <1>2 DEF PoolIInv, Pool!PoolInv, Pool!PoolIsServed, PoolAssumed
<1>8. Pool!TypeOK'
  BY <1>1, <1>2, <1>5, <1>6, <1>7 DEF PoolIInv, Pool!PoolInv, Pool!TypeOK
<1>9. Pool!OutputInOrder'
  <2> SUFFICES ASSUME NEW p \in open
               PROVE  wire'[p] \o buffer'[p] = UpTo(written[p])
    BY <1>2 DEF Pool!OutputInOrder, UpTo
  <2>1. wire[p] \o buffer[p] = UpTo(written[p]) /\ p \in Protocols
    BY <1>1 DEF PoolIInv, Pool!PoolInv, Pool!OutputInOrder, UpTo
  <2>2. CASE p \in Pool!InPool
    <3>1. wire'[p] = wire[p] \o buffer[p] /\ buffer'[p] = <<>>
      BY <1>2, <2>1, <2>2 DEF Pool!Sent
    <3>2. wire[p] \o buffer[p] \in Seq(1..MaxMessages)
      BY <1>1, <2>1, ConcatProperties
    <3>3. (wire[p] \o buffer[p]) \o <<>> = wire[p] \o buffer[p]
      BY <3>2, ConcatEmptySeq
    <3>4. QED
      BY <2>1, <3>1, <3>3
  <2>3. CASE p \notin Pool!InPool
    BY <1>2, <2>1, <2>3
  <2>4. QED
    BY <2>2, <2>3
<1>10. QED
  BY <1>7, <1>8, <1>9 DEF PoolIInv, Pool!PoolInv

LEMMA LoginKeeps ==
  ASSUME PoolAssumed, PoolIInv, NEW p \in Protocols,
         Pool!AddProtocolToAutosend(p) \/ Pool!RemoveProtocolFromAutosend(p)
  PROVE  PoolIInv'
<1>1. /\ bufferedProtocols \in Seq(Protocols)
      /\ scheduled \in 0..MaxLogins /\ logins \in 0..MaxLogins /\ scheduled <= logins
      /\ bufferedProtocols # <<>> => scheduled > 0
  BY DEF PoolIInv, Pool!PoolInv, Pool!TypeOK, Pool!PoolIsServed
<1>2. UNCHANGED <<buffer, written, wire, open>>
  BY DEF Pool!AddProtocolToAutosend, Pool!RemoveProtocolFromAutosend
<1>3. Pool!OutputInOrder'
  BY <1>2 DEF PoolIInv, Pool!PoolInv, Pool!OutputInOrder
<1>4. /\ bufferedProtocols' \in Seq(Protocols)
      /\ scheduled' \in 0..MaxLogins /\ logins' \in 0..MaxLogins /\ scheduled' <= logins'
      /\ bufferedProtocols' # <<>> => scheduled' > 0
  <2>1. CASE Pool!AddProtocolToAutosend(p)
    <3>1. /\ logins < MaxLogins /\ logins' = logins + 1
          /\ scheduled' = IF bufferedProtocols = <<>> THEN scheduled + 1 ELSE scheduled
          /\ bufferedProtocols' = Append(bufferedProtocols, p)
      BY <2>1 DEF Pool!AddProtocolToAutosend, Pool!WasEmpty
    <3>2. bufferedProtocols' \in Seq(Protocols)
      BY <1>1, <3>1, SeqFacts
    <3>3. QED
      BY <1>1, <3>1, <3>2 DEF PoolAssumed
  <2>2. CASE Pool!RemoveProtocolFromAutosend(p)
    <3>1. PICK i \in 1..Len(bufferedProtocols) : bufferedProtocols' = Pool!Swapped(i)
      BY <2>2 DEF Pool!RemoveProtocolFromAutosend
    <3>2. UNCHANGED <<scheduled, logins>>
      BY <2>2 DEF Pool!RemoveProtocolFromAutosend
    <3>3. /\ Len(bufferedProtocols) \in Nat /\ bufferedProtocols # <<>>
          /\ Pool!Last(bufferedProtocols) \in Protocols
      BY <1>1, <3>1, SeqFacts DEF Pool!Last
    <3> DEFINE s == [bufferedProtocols EXCEPT ![i] = Pool!Last(bufferedProtocols)]
    <3>4. s \in Seq(Protocols)
      BY <1>1, <3>3, ExceptSeq
    <3>5. Len(s) = Len(bufferedProtocols)
      BY <1>1, <3>3, ExceptSeq
    <3> HIDE DEF s
    <3>6. Pool!Front(s) \in Seq(Protocols)
      BY <3>1, <3>3, <3>4, <3>5, SubSeqProperties DEF Pool!Front
    <3>7. Pool!Swapped(i) = Pool!Front(s)
      BY DEF Pool!Swapped, s
    <3>8. QED
      BY <1>1, <3>1, <3>2, <3>3, <3>6, <3>7
  <2>3. QED
    BY <2>1, <2>2
<1>5. Pool!TypeOK'
  BY <1>2, <1>4 DEF PoolIInv, Pool!PoolInv, Pool!TypeOK
<1>6. QED
  BY <1>3, <1>4, <1>5 DEF PoolIInv, Pool!PoolInv, Pool!PoolIsServed

LEMMA ConnectionKeeps ==
  ASSUME PoolAssumed, PoolIInv, NEW p \in Protocols, Pool!CloseConnection(p) \/ Pool!Another(p)
  PROVE  PoolIInv'
<1>1. CASE Pool!CloseConnection(p)
  BY <1>1 DEF Pool!CloseConnection, PoolIInv, Pool!PoolInv, Pool!TypeOK, Pool!PoolIsServed,
              Pool!OutputInOrder
<1>2. CASE Pool!Another(p)
  <2>1. /\ open' = open \cup {p} /\ p \notin open
        /\ buffer' = [buffer EXCEPT ![p] = <<>>]
        /\ written' = [written EXCEPT ![p] = 0]
        /\ wire' = [wire EXCEPT ![p] = <<>>]
        /\ UNCHANGED <<bufferedProtocols, scheduled, logins>>
    BY <1>2 DEF Pool!Another
  <2>2. /\ buffer \in [Protocols -> Seq(1..MaxMessages)]
        /\ wire \in [Protocols -> Seq(1..MaxMessages)]
        /\ written \in [Protocols -> 0..MaxMessages]
        /\ \A q \in Protocols : Len(buffer[q]) <= Capacity
        /\ open \subseteq Protocols
    BY DEF PoolIInv, Pool!PoolInv, Pool!TypeOK
  <2>3. \A S : <<>> \in Seq(S) /\ Len(<<>>) = 0
    BY SeqFacts
  <2>4. Pool!TypeOK'
    BY <2>1, <2>2, <2>3 DEF PoolIInv, Pool!PoolInv, Pool!TypeOK, PoolAssumed
  <2>5. Pool!OutputInOrder'
    <3> SUFFICES ASSUME NEW q \in open'
                 PROVE  wire'[q] \o buffer'[q] = UpTo(written'[q])
      BY DEF Pool!OutputInOrder, UpTo
    <3>1. CASE q = p
      BY <2>1, <2>2, <3>1, Nothing
    <3>2. CASE q # p
      <4>1. q \in open /\ wire'[q] = wire[q] /\ buffer'[q] = buffer[q] /\ written'[q] = written[q]
        BY <2>1, <2>2, <3>2
      <4>2. wire[q] \o buffer[q] = UpTo(written[q])
        BY <4>1 DEF PoolIInv, Pool!PoolInv, Pool!OutputInOrder, UpTo
      <4>3. QED
        BY <4>1, <4>2
    <3>3. QED
      BY <3>1, <3>2
  <2>6. QED
    BY <2>1, <2>4, <2>5 DEF PoolIInv, Pool!PoolInv, Pool!PoolIsServed
<1>3. QED
  BY <1>1, <1>2

LEMMA PoolStep ==
  ASSUME PoolAssumed, PoolIInv, [Pool!Next]_(Pool!vars)
  PROVE  PoolIInv'
<1>1. CASE UNCHANGED Pool!vars
  BY <1>1 DEF Pool!vars, PoolIInv, Pool!PoolInv, Pool!TypeOK, Pool!PoolIsServed, Pool!OutputInOrder
<1>2. CASE Pool!Next
  BY <1>2, WriteKeeps, SendAllKeeps, LoginKeeps, ConnectionKeeps DEF Pool!Next
<1>3. QED
  BY <1>1, <1>2


-----------------------------------------------------------------------------
(* The queue of asynchronous queries.  Its instance has lists of its own,    *)
(* whose elements are those of Lists.                                       *)
LEMMA SameElems == \A s : Queries!Elems(s) = Elems(s)
BY DEF Queries!Elems, Elems

OnceEach ==
  /\ accepted = taken \o tasks
  /\ \A i, j \in 1..Len(executed) : executed[i] = executed[j] => i = j
  /\ Elems(taken) = Elems(executed) \cup ({dbTask, flushTask} \ {NoTask})
  /\ Elems(executed) \cap {dbTask, flushTask} = {}
  /\ dbTask = flushTask => dbTask = NoTask

OneOvertakes ==
  \A i, j \in 1..Len(accepted) :
    i < j /\ accepted[j] \in Elems(executed) =>
      accepted[i] \in Elems(executed) \cup {dbTask, flushTask}

LEMMA SameQueue ==
  /\ Queries!TakenOnce <=> OnceEach
  /\ Queries!OvertakenOnlyInFlight <=> OneOvertakes
<1>1. Queries!TakenOnce <=> OnceEach
  BY DEF Queries!TakenOnce, OnceEach, Queries!Elems, Elems
<1>2. Queries!OvertakenOnlyInFlight <=> OneOvertakes
  BY DEF Queries!OvertakenOnlyInFlight, OneOvertakes, Queries!Elems, Elems
<1>3. QED
  BY <1>1, <1>2

(* The inductive invariant.  OvertakenOnlyInFlight is not a part of it: it   *)
(* follows from TakenOnce when no query is accepted twice.                  *)
QueueIInv == Queries!TypeOK /\ Queries!NoLostWakeup /\ OnceEach /\ Distinct(accepted)

LEMMA QueueInitially == Queries!Init => QueueIInv
<1> SUFFICES ASSUME Queries!Init PROVE QueueIInv
  OBVIOUS
<1> USE OnlineAssumption DEF Queries!Init
<1>1. <<>> \in Seq(Tasks) /\ Len(<<>>) = 0 /\ Elems(<<>>) = {}
  BY SeqFacts, ElemsFacts
<1>2. Queries!TypeOK
  BY <1>1 DEF Queries!TypeOK
<1>3. <<>> \o <<>> = <<>>
  BY <1>1, ConcatEmptySeq
<1>4. OnceEach
  BY <1>1, <1>3 DEF OnceEach
<1>5. Queries!NoLostWakeup /\ Distinct(accepted)
  BY <1>1 DEF Queries!NoLostWakeup, Distinct
<1>6. QED
  BY <1>2, <1>4, <1>5 DEF QueueIInv

(* What is added comes last. *)
LEMMA QueryAdded ==
  ASSUME Queries!TypeOK, OnceEach, NEW t \in Tasks
  PROVE  Append(accepted, t) = taken \o Append(tasks, t)
<1>1. taken \in Seq(Tasks) /\ tasks \in Seq(Tasks) /\ accepted = taken \o tasks
  BY DEF Queries!TypeOK, OnceEach
<1>2. accepted \in Seq(Tasks) /\ <<t>> \in Seq(Tasks)
  BY DEF Queries!TypeOK
<1>3. Append(accepted, t) = accepted \o <<t>> /\ Append(tasks, t) = tasks \o <<t>>
  BY <1>1, <1>2, AppendIsConcat
<1>4. (taken \o tasks) \o <<t>> = taken \o (tasks \o <<t>>)
  BY <1>1, <1>2, ConcatAssociative
<1>5. QED
  BY <1>1, <1>3, <1>4

(* What either consumer takes is the oldest query, and nobody had it.        *)
LEMMA QueryTaken ==
  ASSUME Queries!TypeOK, OnceEach, Distinct(accepted), Queries!Take, tasks # <<>>
  PROVE  /\ Head(tasks) \in Tasks /\ Head(tasks) \notin Elems(taken)
         /\ tasks' \in Seq(Tasks) /\ taken' \in Seq(Tasks)
         /\ accepted = taken' \o tasks'
         /\ Elems(taken') = Elems(taken) \cup {Head(tasks)}
<1> USE DEF Queries!TypeOK, OnceEach, Queries!Take
<1>1. Head(tasks) \in Tasks /\ tasks' \in Seq(Tasks) /\ taken' \in Seq(Tasks)
  BY SeqFacts
<1>2. Head(tasks) \notin Elems(taken)
  BY HeadIsNew
<1>3. accepted = taken' \o tasks'
  BY ConcatTake
<1>4. Elems(taken') = Elems(taken) \cup {Head(tasks)}
  BY <1>1, ElemsFacts
<1>5. QED
  BY <1>1, <1>2, <1>3, <1>4

(* A query that is run had been taken by its thread and not been run before. *)
LEMMA QueryRun ==
  ASSUME Queries!TypeOK, OnceEach,
         NEW t \in {dbTask, flushTask} \ {NoTask}, Queries!Execute(t)
  PROVE  /\ executed' \in Seq(Tasks) /\ callbacks' \subseteq Tasks
         /\ NoTask \notin Elems(executed')
         /\ Distinct(executed')
         /\ Elems(executed') = Elems(executed) \cup {t}
<1> USE DEF Queries!TypeOK, OnceEach, Queries!Execute
<1>1. t \in Tasks /\ t \notin Elems(executed)
  OBVIOUS
<1>2. Distinct(executed)
  BY DEF Distinct
<1>3. executed' \in Seq(Tasks) /\ callbacks' \subseteq Tasks
  BY <1>1, SeqFacts
<1>4. NoTask \notin Elems(executed')
  BY <1>3, ElemsFacts, OnlineAssumption
<1>5. QED
  BY <1>1, <1>2, <1>3, <1>4, ElemsFacts, DistinctAppend

LEMMA QueueStep ==
  ASSUME QueueIInv, [Queries!Next]_(Queries!vars)
  PROVE  QueueIInv'
<1> USE OnlineAssumption DEF QueueIInv
<1>1. ASSUME NEW t \in Tasks, Queries!AddTask(t) PROVE QueueIInv'
  <2> USE <1>1 DEF Queries!AddTask, Queries!Enqueued, Queries!DoSignal
  <2>1. /\ Append(tasks, t) \in Seq(Tasks) /\ Append(accepted, t) \in Seq(Tasks)
        /\ Append(tasks, t) # <<>>
    BY AppendProperties DEF Queries!TypeOK
  <2>2. Queries!TypeOK'
    BY <2>1 DEF Queries!TypeOK
  <2>3. Queries!NoLostWakeup'
    BY DEF Queries!NoLostWakeup, Queries!TypeOK
  <2>4. Distinct(accepted')
    <3>1. t \notin Elems(accepted) /\ accepted' = Append(accepted, t)
      BY SameElems
    <3>2. accepted \in Seq(Tasks) /\ Distinct(accepted)
      BY DEF Queries!TypeOK
    <3>3. QED
      BY <3>1, <3>2, DistinctAppend
  <2>5. accepted' = taken' \o tasks'
    BY QueryAdded
  <2>6. OnceEach'
    BY <2>5 DEF OnceEach
  <2>7. QED
    BY <2>2, <2>3, <2>4, <2>6
<1>2. ASSUME NEW t \in Tasks, Queries!Signal(t) PROVE QueueIInv'
  BY <1>2 DEF Queries!Signal, Queries!NotifyOne, Queries!TypeOK, Queries!NoLostWakeup, OnceEach,
              Distinct
<1>3. CASE Queries!CheckState \/ Queries!SpuriousWakeup \/ Queries!ShutdownNotify
  BY <1>3 DEF Queries!CheckState, Queries!SpuriousWakeup, Queries!ShutdownNotify, Queries!NotifyOne,
              Queries!TypeOK,
              Queries!NoLostWakeup, OnceEach, Distinct
<1>4. CASE Queries!SaveGameState \/ Queries!Stop \/ Queries!Shutdown
  BY <1>4 DEF Queries!SaveGameState, Queries!Stop, Queries!Shutdown, Queries!TypeOK,
              Queries!NoLostWakeup, OnceEach,
              Distinct
<1>5. CASE Queries!LockTasks \/ Queries!Woken
  <2>1. CASE tasks = <<>>
    BY <1>5, <2>1 DEF Queries!LockTasks, Queries!Woken, Queries!TakeOrLoop, Queries!TypeOK,
       Queries!NoLostWakeup,
                      OnceEach, Distinct
  <2>2. CASE tasks # <<>>
    <3>1. /\ Queries!Take /\ dbTask' = Head(tasks) /\ dbTask = NoTask /\ dbPc' = "run"
          /\ UNCHANGED <<dbState, owed, serverPc, flushTask, accepted, executed,
                         callbacks, dispatcherOpen>>
      BY <1>5, <2>2 DEF Queries!LockTasks, Queries!Woken, Queries!TakeOrLoop, Queries!TypeOK
    <3>2. /\ Head(tasks) \in Tasks /\ Head(tasks) \notin Elems(taken)
          /\ tasks' \in Seq(Tasks) /\ taken' \in Seq(Tasks)
          /\ accepted = taken' \o tasks'
          /\ Elems(taken') = Elems(taken) \cup {Head(tasks)}
      BY <2>2, <3>1, QueryTaken
    <3>3. Queries!TypeOK'
      BY <3>1, <3>2 DEF Queries!TypeOK
    <3>4. OnceEach'
      BY <3>1, <3>2 DEF OnceEach
    <3>5. QED
      BY <3>1, <3>3, <3>4 DEF Queries!NoLostWakeup, Distinct
  <2>3. QED
    BY <2>1, <2>2
<1>6. CASE Queries!RunTask
  <2>1. /\ dbPc = "run" /\ dbTask # NoTask
        /\ Queries!Execute(dbTask) /\ dbPc' = "loop" /\ dbTask' = NoTask
        /\ UNCHANGED <<dbState, tasks, owed, serverPc, flushTask, accepted, taken,
                       dispatcherOpen>>
    BY <1>6 DEF Queries!RunTask, Queries!TypeOK
  <2>2. /\ executed' \in Seq(Tasks) /\ callbacks' \subseteq Tasks
        /\ NoTask \notin Elems(executed') /\ Distinct(executed')
        /\ Elems(executed') = Elems(executed) \cup {dbTask}
    BY <2>1, QueryRun
  <2>3. Queries!TypeOK'
    BY <2>1, <2>2 DEF Queries!TypeOK
  <2>4. OnceEach'
    BY <2>1, <2>2 DEF OnceEach, Distinct
  <2>5. QED
    BY <2>1, <2>3, <2>4 DEF Queries!NoLostWakeup, Distinct
<1>7. CASE Queries!FlushTake
  <2>1. CASE tasks = <<>>
    BY <1>7, <2>1 DEF Queries!FlushTake, Queries!AfterFlush, Queries!TypeOK, Queries!NoLostWakeup,
       OnceEach,
                      Distinct
  <2>2. CASE tasks # <<>>
    <3>1. /\ Queries!Take /\ flushTask' = Head(tasks) /\ flushTask = NoTask
          /\ serverPc' = "run"
          /\ UNCHANGED <<dbState, owed, dbPc, dbTask, accepted, executed,
                         callbacks, dispatcherOpen>>
      BY <1>7, <2>2 DEF Queries!FlushTake, Queries!TypeOK
    <3>2. /\ Head(tasks) \in Tasks /\ Head(tasks) \notin Elems(taken)
          /\ tasks' \in Seq(Tasks) /\ taken' \in Seq(Tasks)
          /\ accepted = taken' \o tasks'
          /\ Elems(taken') = Elems(taken) \cup {Head(tasks)}
      BY <2>2, <3>1, QueryTaken
    <3>3. Queries!TypeOK'
      BY <3>1, <3>2 DEF Queries!TypeOK
    <3>4. OnceEach'
      BY <3>1, <3>2 DEF OnceEach
    <3>5. QED
      BY <3>1, <3>3, <3>4 DEF Queries!NoLostWakeup, Distinct
  <2>3. QED
    BY <2>1, <2>2
<1>8. CASE Queries!FlushRun
  <2>1. /\ serverPc = "run" /\ flushTask # NoTask
        /\ Queries!Execute(flushTask) /\ serverPc' = "flush" /\ flushTask' = NoTask
        /\ UNCHANGED <<dbState, tasks, owed, dbPc, dbTask, accepted, taken,
                       dispatcherOpen>>
    BY <1>8 DEF Queries!FlushRun, Queries!AfterFlushRun, Queries!TypeOK
  <2>2. /\ executed' \in Seq(Tasks) /\ callbacks' \subseteq Tasks
        /\ NoTask \notin Elems(executed') /\ Distinct(executed')
        /\ Elems(executed') = Elems(executed) \cup {flushTask}
    BY <2>1, QueryRun
  <2>3. Queries!TypeOK'
    BY <2>1, <2>2 DEF Queries!TypeOK
  <2>4. OnceEach'
    BY <2>1, <2>2 DEF OnceEach, Distinct
  <2>5. QED
    BY <2>1, <2>3, <2>4 DEF Queries!NoLostWakeup, Distinct
<1>9. CASE UNCHANGED Queries!vars
  BY <1>9 DEF Queries!vars, Queries!TypeOK, Queries!NoLostWakeup, OnceEach, Distinct
<1>10. QED
  BY <1>1, <1>2, <1>3, <1>4, <1>5, <1>6, <1>7, <1>8, <1>9
  DEF Queries!Next, Queries!DbStep, Queries!DispatcherStep

-----------------------------------------------------------------------------
(* A query that was overtaken is in flight: what was accepted before one     *)
(* that has left the queue has left it, too.                                *)
LEMMA QueueInOrder == QueueIInv => OneOvertakes
<1> SUFFICES ASSUME QueueIInv, NEW i \in 1..Len(accepted), NEW j \in 1..Len(accepted),
                    i < j, accepted[j] \in Elems(executed)
             PROVE  accepted[i] \in Elems(executed) \cup {dbTask, flushTask}
  BY DEF OneOvertakes
<1> USE DEF QueueIInv, Queries!TypeOK, OnceEach
<1>1. /\ Len(taken) \in Nat /\ Len(tasks) \in Nat /\ Len(accepted) \in Nat
      /\ Len(accepted) = Len(taken) + Len(tasks)
      /\ \A k \in 1..Len(accepted) :
           accepted[k] = IF k <= Len(taken) THEN taken[k] ELSE tasks[k - Len(taken)]
  BY SeqFacts, ConcatProperties
<1>2. accepted[j] \in Elems(taken)
  OBVIOUS
<1>3. PICK k \in 1..Len(taken) : accepted[j] = taken[k]
  BY <1>2 DEF Elems
<1>4. k \in 1..Len(accepted) /\ accepted[k] = accepted[j]
  BY <1>1, <1>3
<1>5. j <= Len(taken)
  BY <1>3, <1>4 DEF Distinct
<1>6. i \in 1..Len(taken) /\ accepted[i] = taken[i]
  BY <1>1, <1>5
<1>7. accepted[i] \in Elems(taken)
  BY <1>6 DEF Elems
<1>8. QED
  BY <1>7

-----------------------------------------------------------------------------
(* The waiting list.  Its instance has a count and a RemoveAt of its own.     *)
LEMMA SameCount == \A S : Line!Cardinality(S) = Cardinality(S)
<1>1. \A S : Line!IsFiniteSet(S) <=> IsFiniteSet(S)
  BY DEF Line!IsFiniteSet, IsFiniteSet
<1>2. QED
  BY <1>1 DEF Line!Cardinality, Cardinality

Both == {"priority", "normal"}
Entry == [timeout : 0..27, guid : Players \cup {NoPlayer}]
Stands(ls, l, i, p) == l \in Both /\ i \in 1..Len(ls[l]) /\ ls[l][i].guid = p

Once(s, p) == \A i, j \in 1..Len(s) : s[i].guid = p /\ s[j].guid = p => i = j

LineTyped(ls) ==
  /\ ls \in [Both -> Seq(Entry)]
  /\ Len(ls["priority"]) + Len(ls["normal"]) <= MaxEntries

(* Nobody has two places, and who is in the game or need not wait has none. *)
OnePlace(ls) ==
  \A p \in Players, k, l \in Both : \A i \in 1..Len(ls[k]), j \in 1..Len(ls[l]) :
    ls[k][i].guid = p /\ ls[l][j].guid = p => k = l /\ i = j
NoPlace(ls, S) == \A p \in S, l \in Both : \A i \in 1..Len(ls[l]) : ls[l][i].guid # p

Promises == [slot : 0..(MaxEntries + 2), left : 0..27]

Seats == MaxPlayers # 0 => Cardinality(online \ Always) <= MaxPlayers

LineIInv ==
  /\ LineTyped(lists)
  /\ OnePlace(lists) /\ NoPlace(lists, online \cup Always)
  /\ MaxPlayers = 0 => \A l \in Both : lists[l] = <<>>
  /\ online \subseteq Players /\ Seats
  /\ promised \in [Players -> Promises]

-----------------------------------------------------------------------------
(* What cleanupList keeps of the first n entries.                           *)
KeptSoFar(kept, list, m) ==
  kept = [n \in 0..m |->
            IF n = 0 THEN <<>>
            ELSE IF list[n].timeout > 0 THEN Append(kept[n - 1], list[n]) ELSE kept[n - 1]]

LEMMA KeptExists ==
  ASSUME NEW list, NEW m0 \in Nat
  PROVE  \E kept : KeptSoFar(kept, list, m0)
<1> DEFINE S == {m \in Nat : ~ \E g : KeptSoFar(g, list, m)}
<1> SUFFICES ASSUME S # {} PROVE FALSE
  OBVIOUS
<1>1. PICK m \in S : \A n \in S : m <= n
  <2>1. S \in SUBSET Nat
    OBVIOUS
  <2> HIDE DEF S
  <2>2. QED
    BY <2>1, LeastNumber
<1>2. m \in Nat /\ ~ \E g : KeptSoFar(g, list, m)
  BY <1>1
<1>3. CASE m = 0
  <2> DEFINE g == [n \in 0..0 |-> <<>>]
  <2>1. KeptSoFar(g, list, 0)
    BY DEF KeptSoFar
  <2>2. QED
    BY <1>2, <1>3, <2>1
<1>4. CASE m # 0
  <2>1. m - 1 \in Nat /\ m - 1 \notin S
    <3>1. m - 1 \in Nat /\ ~(m <= m - 1)
      BY <1>2, <1>4
    <3> HIDE DEF S
    <3>2. QED
      BY <1>1, <3>1
  <2>2. PICK g : KeptSoFar(g, list, m - 1)
    BY <2>1
  <2> DEFINE After(s, n) == IF list[n].timeout > 0 THEN Append(s, list[n]) ELSE s
  <2>3. \A n \in 0..(m - 1) : g[n] = IF n = 0 THEN <<>> ELSE After(g[n - 1], n)
    BY <2>2 DEF KeptSoFar
  <2> HIDE DEF After
  <2> DEFINE h == [n \in 0..m |-> IF n = m THEN After(g[m - 1], m) ELSE g[n]]
  <2>4. ASSUME NEW n \in 0..m
        PROVE  h[n] = IF n = 0 THEN <<>> ELSE After(h[n - 1], n)
    <3>1. CASE n = m
      <4>1. h[n] = After(g[m - 1], m) /\ n # 0
        BY <1>2, <1>4, <3>1
      <4>2. h[n - 1] = g[m - 1]
        BY <1>2, <1>4, <3>1
      <4>3. QED
        BY <3>1, <4>1, <4>2
    <3>2. CASE n # m
      <4>1. n \in 0..(m - 1) /\ h[n] = g[n]
        BY <1>2, <3>2
      <4>2. CASE n = 0
        BY <2>3, <4>1, <4>2
      <4>3. CASE n # 0
        <5>1. n - 1 \in 0..m /\ n - 1 # m
          BY <1>2, <3>2, <4>3
        <5>2. h[n - 1] = g[n - 1]
          BY <5>1
        <5>3. QED
          BY <2>3, <4>1, <4>3, <5>2
      <4>4. QED
        BY <4>2, <4>3
    <3>3. QED
      BY <3>1, <3>2
  <2>5. h = [n \in 0..m |-> h[n]]
    OBVIOUS
  <2> HIDE DEF h
  <2>6. KeptSoFar(h, list, m)
    BY <2>4, <2>5 DEF KeptSoFar, After
  <2>7. QED
    BY <1>2, <2>6
<1>5. QED
  BY <1>3, <1>4

(* cleanupList keeps entries of the list, and of two with the same guid only *)
(* if both were there.                                                      *)
LEMMA StillWaitingFacts ==
  ASSUME NEW list \in Seq(Entry)
  PROVE  /\ Line!StillWaiting(list) \in Seq(Entry)
         /\ Len(Line!StillWaiting(list)) <= Len(list)
         /\ \A i \in 1..Len(Line!StillWaiting(list)) :
              \E j \in 1..Len(list) : Line!StillWaiting(list)[i] = list[j]
         /\ \A p : Once(list, p) => Once(Line!StillWaiting(list), p)
<1> DEFINE kept == CHOOSE g : KeptSoFar(g, list, Len(list))
<1>0. Len(list) \in Nat /\ \A n \in 1..Len(list) : list[n] \in Entry
  BY SeqFacts
<1>1. KeptSoFar(kept, list, Len(list))
  BY <1>0, KeptExists
<1>2. Line!StillWaiting(list) = kept[Len(list)]
  BY DEF Line!StillWaiting, KeptSoFar
<1> HIDE DEF kept
<1>3. \A n \in 0..Len(list) :
        kept[n] = IF n = 0 THEN <<>>
                  ELSE IF list[n].timeout > 0 THEN Append(kept[n - 1], list[n]) ELSE kept[n - 1]
  BY <1>1 DEF KeptSoFar
<1> DEFINE Part(s, n) == /\ s \in Seq(Entry) /\ Len(s) <= n
                         /\ \A i \in 1..Len(s) : \E j \in 1..n : s[i] = list[j]
           Good(n) == Part(kept[n], n) /\ \A p : Once(list, p) => Once(kept[n], p)
           S == {n \in 0..Len(list) : ~Good(n)}
<1>4. S = {}
  <2> SUFFICES ASSUME S # {} PROVE FALSE
    OBVIOUS
  <2>1. PICK m \in S : \A n \in S : m <= n
    <3>1. S \in SUBSET Nat
      BY <1>0
    <3> HIDE DEF S
    <3>2. QED
      BY <3>1, LeastNumber
  <2>2. m \in 0..Len(list) /\ m \in Nat /\ ~Good(m)
    BY <1>0, <2>1
  <2>3. CASE m = 0
    <3>1. kept[m] = <<>>
      BY <1>3, <2>2, <2>3
    <3>2. kept[m] \in Seq(Entry) /\ Len(kept[m]) = 0
      BY <3>1, SeqFacts
    <3>3. Good(m)
      BY <2>3, <3>2 DEF Once
    <3>4. QED
      BY <2>2, <3>3
  <2>4. CASE m # 0
    <3>1. m - 1 \in 0..Len(list) /\ m \in 1..Len(list) /\ m - 1 \in Nat /\ ~(m <= m - 1)
      BY <1>0, <2>2, <2>4
    <3>2. Good(m - 1)
      <4>1. m - 1 \notin S
        <5> HIDE DEF S
        <5>1. QED
          BY <2>1, <3>1
      <4>2. QED
        BY <3>1, <4>1
    <3> DEFINE s == kept[m - 1]
               e == list[m]
    <3>3. kept[m] = IF e.timeout > 0 THEN Append(s, e) ELSE s
      BY <1>3, <2>2, <2>4
    <3>4. Part(s, m - 1) /\ \A p : Once(list, p) => Once(s, p)
      BY <3>2
    <3>5. e \in Entry
      BY <1>0, <3>1
    <3> HIDE DEF s
    <3>6. s \in Seq(Entry) /\ Len(s) \in Nat /\ Len(s) <= m - 1
          /\ \A i \in 1..Len(s) : \E j \in 1..(m - 1) : s[i] = list[j]
      BY <3>4, SeqFacts
    <3>7. CASE ~(e.timeout > 0)
      <4>1. kept[m] = s
        BY <3>3, <3>7
      <4>2. Part(s, m)
        BY <3>1, <3>6
      <4>3. QED
        BY <2>2, <3>4, <4>1, <4>2
    <3>8. CASE e.timeout > 0
      <4> DEFINE t == Append(s, e)
      <4>1. kept[m] = t
        BY <3>3, <3>8
      <4>2. /\ t \in Seq(Entry) /\ Len(t) = Len(s) + 1
            /\ \A i \in 1..Len(s) : t[i] = s[i]
            /\ t[Len(s) + 1] = e
        BY <3>5, <3>6, SeqFacts
      <4> HIDE DEF t
      <4>3. \A i \in 1..Len(t) : i \in 1..Len(s) \/ i = Len(s) + 1
        BY <3>6, <4>2
      <4>4. Part(t, m)
        <5>1. ASSUME NEW i \in 1..Len(t) PROVE \E j \in 1..m : t[i] = list[j]
          <6>1. CASE i \in 1..Len(s)
            <7>1. PICK j \in 1..(m - 1) : s[i] = list[j]
              BY <3>6, <6>1
            <7>2. j \in 1..m /\ t[i] = list[j]
              BY <2>2, <4>2, <6>1, <7>1
            <7>3. QED
              BY <7>2
          <6>2. CASE i = Len(s) + 1
            BY <3>1, <4>2, <6>2
          <6>3. QED
            BY <4>3, <6>1, <6>2
        <5>2. QED
          BY <2>2, <3>6, <4>2, <5>1
      <4>5. ASSUME NEW p, Once(list, p) PROVE Once(t, p)
        <5>1. Once(s, p)
          BY <3>4, <4>5
        <5>2. ASSUME NEW i \in 1..Len(s), e.guid = p PROVE s[i].guid # p
          <6>1. PICK j \in 1..(m - 1) : s[i] = list[j]
            BY <3>6
          <6>2. j \in 1..Len(list) /\ j # m
            BY <3>1, <1>0
          <6>3. QED
            BY <3>1, <4>5, <5>2, <6>1, <6>2 DEF Once
        <5>3. ASSUME NEW i \in 1..Len(t), NEW j \in 1..Len(t), t[i].guid = p, t[j].guid = p
              PROVE  i = j
          BY <4>2, <4>3, <5>1, <5>2, <5>3 DEF Once
        <5>4. QED
          BY <5>3 DEF Once
      <4>6. QED
        BY <2>2, <4>1, <4>4, <4>5
    <3>9. QED
      BY <3>7, <3>8
  <2>5. QED
    BY <2>3, <2>4
<1>5. Good(Len(list))
  <2> HIDE DEF Good
  <2>1. QED
    BY <1>0, <1>4
<1>6. /\ Part(Line!StillWaiting(list), Len(list))
      /\ \A p : Once(list, p) => Once(Line!StillWaiting(list), p)
  <2> HIDE DEF Part
  <2>1. QED
    BY <1>2, <1>5
<1>7. QED
  BY <1>6

(* Lists that are no longer than typed ones are typed.                      *)
LEMMA NoLonger ==
  ASSUME NEW ls, LineTyped(ls), NEW to \in [Both -> Seq(Entry)],
         \A l \in Both : Len(to[l]) <= Len(ls[l])
  PROVE  LineTyped(to)
<1> DEFINE a == Len(ls["priority"])
           b == Len(ls["normal"])
           c == Len(to["priority"])
           d == Len(to["normal"])
<1>1. /\ a \in Nat /\ b \in Nat /\ c \in Nat /\ d \in Nat
      /\ a + b <= MaxEntries /\ c <= a /\ d <= b
  BY SeqFacts DEF LineTyped, Both
<1>2. MaxEntries \in Nat
  BY OnlineAssumption
<1> HIDE DEF a, b, c, d
<1>3. c + d <= MaxEntries
  BY <1>1, <1>2
<1>4. QED
  BY <1>3 DEF LineTyped, c, d

LEMMA CleanedFacts ==
  ASSUME LineIInv
  PROVE  /\ LineTyped(Line!Cleaned) /\ OnePlace(Line!Cleaned)
         /\ NoPlace(Line!Cleaned, online \cup Always)
         /\ MaxPlayers = 0 => \A l \in Both : Line!Cleaned[l] = <<>>
         /\ \A l \in Both : Len(Line!Cleaned[l]) <= Len(lists[l])
<1> DEFINE ls == Line!Cleaned
<1>0. lists \in [Both -> Seq(Entry)] /\ MaxEntries \in Nat
      /\ Len(lists["priority"]) + Len(lists["normal"]) <= MaxEntries
      /\ \A l \in Both : lists[l] \in Seq(Entry) /\ Len(lists[l]) \in Nat
  BY OnlineAssumption, SeqFacts DEF LineIInv, LineTyped
<1>1. ls \in [Both -> Seq(Entry)] /\ \A l \in Both : ls[l] = Line!StillWaiting(lists[l])
  BY <1>0, StillWaitingFacts DEF Line!Cleaned
<1>2. \A l \in Both : Len(ls[l]) \in Nat /\ Len(ls[l]) <= Len(lists[l])
  BY <1>0, <1>1, StillWaitingFacts, SeqFacts
<1>3. \A l \in Both : \A i \in 1..Len(ls[l]) : \E j \in 1..Len(lists[l]) : ls[l][i] = lists[l][j]
  BY <1>0, <1>1, StillWaitingFacts
<1>4. LineTyped(ls)
  <2> HIDE DEF ls
  <2>1. QED
    BY <1>1, <1>2, NoLonger DEF LineIInv
<1>5. OnePlace(ls)
  <2> SUFFICES ASSUME NEW p \in Players, NEW k \in Both, NEW l \in Both,
                      NEW i \in 1..Len(ls[k]), NEW j \in 1..Len(ls[l]),
                      ls[k][i].guid = p, ls[l][j].guid = p
               PROVE  k = l /\ i = j
    BY DEF OnePlace
  <2>0. OnePlace(lists)
    BY DEF LineIInv
  <2>1. PICK i1 \in 1..Len(lists[k]) : ls[k][i] = lists[k][i1]
    BY <1>3
  <2>2. PICK j1 \in 1..Len(lists[l]) : ls[l][j] = lists[l][j1]
    BY <1>3
  <2>3. k = l
    BY <2>0, <2>1, <2>2 DEF OnePlace
  <2>4. Once(lists[k], p)
    BY <2>0 DEF OnePlace, Once
  <2>5. Once(ls[k], p)
    <3>1. lists[k] \in Seq(Entry) /\ ls[k] = Line!StillWaiting(lists[k])
      BY <1>0, <1>1
    <3> HIDE DEF ls
    <3>2. QED
      BY <2>4, <3>1, StillWaitingFacts
  <2>6. QED
    BY <2>3, <2>5 DEF Once
<1>6. NoPlace(ls, online \cup Always)
  <2> HIDE DEF ls
  <2>1. QED
    BY <1>3 DEF LineIInv, NoPlace
<1>7. MaxPlayers = 0 => \A l \in Both : ls[l] = <<>>
  <2> SUFFICES ASSUME MaxPlayers = 0, NEW l \in Both PROVE ls[l] = <<>>
    OBVIOUS
  <2>1. Len(lists[l]) = 0
    BY SeqFacts DEF LineIInv
  <2> HIDE DEF ls
  <2>2. ls[l] \in Seq(Entry) /\ Len(ls[l]) = 0
    BY <1>1, <1>2, <2>1
  <2>3. QED
    BY <2>2, SeqFacts
<1>8. QED
  BY <1>2, <1>4, <1>5, <1>6, <1>7

LEMMA RemoveAtFacts ==
  ASSUME NEW S, NEW s \in Seq(S), NEW k \in 1..Len(s)
  PROVE  /\ Line!RemoveAt(s, k) \in Seq(S) /\ Len(Line!RemoveAt(s, k)) = Len(s) - 1
         /\ \A i \in 1..Len(Line!RemoveAt(s, k)) :
              Line!RemoveAt(s, k)[i] = IF i < k THEN s[i] ELSE s[i + 1]
<1> DEFINE before == SubSeq(s, 1, k - 1)
           after == SubSeq(s, k + 1, Len(s))
           r == before \o after
<1>1. Len(s) \in Nat
  BY SeqFacts
<1>2. Line!RemoveAt(s, k) = r
  BY DEF Line!RemoveAt
<1>3. /\ \A i \in 1..(k - 1) : s[i] \in S
      /\ \A i \in (k + 1)..Len(s) : s[i] \in S
  BY <1>1, SeqFacts
<1>4. /\ before \in Seq(S) /\ Len(before) = k - 1
      /\ \A i \in 1..(k - 1) : before[i] = s[i]
  BY <1>1, <1>3, SubSeqProperties
<1>5. /\ after \in Seq(S) /\ Len(after) = Len(s) - k
      /\ \A i \in 1..(Len(s) - k) : after[i] = s[k + i]
  BY <1>1, <1>3, SubSeqProperties
<1> HIDE DEF before, after
<1>6. /\ r \in Seq(S) /\ Len(r) = Len(before) + Len(after)
      /\ \A i \in 1..Len(before) + Len(after) :
           r[i] = IF i <= Len(before) THEN before[i] ELSE after[i - Len(before)]
  BY <1>4, <1>5, ConcatProperties
<1> HIDE DEF r
<1>7. Len(r) = Len(s) - 1
  BY <1>1, <1>4, <1>5, <1>6
<1>8. ASSUME NEW i \in 1..Len(r) PROVE r[i] = IF i < k THEN s[i] ELSE s[i + 1]
  <2>1. i \in 1..Len(before) + Len(after) /\ i \in 1..(Len(s) - 1)
    BY <1>6, <1>7
  <2>2. r[i] = IF i <= k - 1 THEN before[i] ELSE after[i - (k - 1)]
    BY <1>4, <1>6, <2>1
  <2>3. CASE i < k
    BY <1>1, <1>4, <2>1, <2>2, <2>3
  <2>4. CASE ~(i < k)
    <3>1. i - (k - 1) \in 1..(Len(s) - k) /\ k + (i - (k - 1)) = i + 1 /\ ~(i <= k - 1)
      BY <1>1, <2>1, <2>4
    <3>2. QED
      BY <1>5, <2>2, <2>4, <3>1
  <2>5. QED
    BY <2>3, <2>4
<1>9. QED
  BY <1>2, <1>6, <1>7, <1>8

-----------------------------------------------------------------------------
(* What becomes of the lists in a login: the entry of p goes, is forgotten, *)
(* or is added.                                                             *)
LEMMA LeavingLine ==
  ASSUME NEW ls, NEW S, LineTyped(ls), OnePlace(ls), NoPlace(ls, S),
         NEW p \in Players, NEW l \in Both, NEW k \in 1..Len(ls[l]), ls[l][k].guid = p
  PROVE  LET to == [ls EXCEPT ![l] = Line!Erased(@, k)]
         IN LineTyped(to) /\ OnePlace(to) /\ NoPlace(to, S \cup {p})
<1> DEFINE to == [ls EXCEPT ![l] = Line!Erased(@, k)]
<1>0. /\ ls \in [Both -> Seq(Entry)] /\ MaxEntries \in Nat
      /\ Len(ls["priority"]) + Len(ls["normal"]) <= MaxEntries
      /\ \A m \in Both : ls[m] \in Seq(Entry) /\ Len(ls[m]) \in Nat
  BY OnlineAssumption, SeqFacts DEF LineTyped
<1> DEFINE r == Line!RemoveAt(ls[l], k)
<1>1. /\ r \in Seq(Entry) /\ Len(r) = Len(ls[l]) - 1
      /\ \A i \in 1..Len(r) : r[i] = IF i < k THEN ls[l][i] ELSE ls[l][i + 1]
  BY <1>0, RemoveAtFacts
<1> HIDE DEF r
<1>2. /\ to \in [Both -> Seq(Entry)] /\ to[l] = r
      /\ \A m \in Both \ {l} : to[m] = ls[m]
  BY <1>0, <1>1 DEF Line!Erased, r
<1> HIDE DEF to
<1> DEFINE Old(m, i) == IF m # l \/ i < k THEN i ELSE i + 1
<1>3. ASSUME NEW m \in Both, NEW i \in 1..Len(to[m])
      PROVE  /\ Old(m, i) \in 1..Len(ls[m]) /\ to[m][i] = ls[m][Old(m, i)]
             /\ m = l => Old(m, i) # k
  <2>1. CASE m = l
    BY <1>0, <1>1, <1>2, <2>1
  <2>2. CASE m # l
    BY <1>2, <2>2
  <2>3. QED
    BY <2>1, <2>2
<1>4. ASSUME NEW m \in Both PROVE Len(to[m]) \in Nat /\ Len(to[m]) <= Len(ls[m])
  <2>1. CASE m = l
    BY <1>0, <1>1, <1>2, <2>1
  <2>2. CASE m # l
    BY <1>0, <1>2, <2>2
  <2>3. QED
    BY <2>1, <2>2
<1>5. LineTyped(to)
  BY <1>2, <1>4, NoLonger
<1>6. OnePlace(to)
  <2> SUFFICES ASSUME NEW q \in Players, NEW m \in Both, NEW n \in Both,
                      NEW i \in 1..Len(to[m]), NEW j \in 1..Len(to[n]),
                      to[m][i].guid = q, to[n][j].guid = q
               PROVE  m = n /\ i = j
    BY DEF OnePlace
  <2>1. ls[m][Old(m, i)].guid = q /\ ls[n][Old(n, j)].guid = q
        /\ Old(m, i) \in 1..Len(ls[m]) /\ Old(n, j) \in 1..Len(ls[n])
    BY <1>3
  <2>2. m = n /\ Old(m, i) = Old(n, j)
    <3> HIDE DEF Old
    <3>1. QED
      BY <2>1 DEF OnePlace
  <2>3. i \in Nat /\ j \in Nat /\ k \in Nat
    BY <1>0, <1>4
  <2>4. QED
    BY <2>2, <2>3
<1>7. ASSUME NEW q \in S \cup {p}, NEW m \in Both, NEW i \in 1..Len(to[m])
      PROVE  to[m][i].guid # q
  <2>1. /\ Old(m, i) \in 1..Len(ls[m]) /\ to[m][i] = ls[m][Old(m, i)]
        /\ m = l => Old(m, i) # k
    BY <1>3
  <2> HIDE DEF Old
  <2>2. CASE q \in S
    BY <2>1, <2>2 DEF NoPlace
  <2>3. CASE q = p
    BY <2>1, <2>3 DEF OnePlace
  <2>4. QED
    BY <2>2, <2>3
<1>8. QED
  BY <1>5, <1>6, <1>7 DEF NoPlace, to

LEMMA LosingName ==
  ASSUME NEW ls, NEW S \in SUBSET Players, LineTyped(ls), OnePlace(ls), NoPlace(ls, S),
         NEW l \in Both, NEW k \in 1..Len(ls[l])
  PROVE  LET to == [ls EXCEPT ![l][k].guid = NoPlayer]
         IN LineTyped(to) /\ OnePlace(to) /\ NoPlace(to, S)
<1> DEFINE to == [ls EXCEPT ![l][k].guid = NoPlayer]
<1>0. /\ ls \in [Both -> Seq(Entry)] /\ MaxEntries \in Nat /\ NoPlayer \notin Players
      /\ Len(ls["priority"]) + Len(ls["normal"]) <= MaxEntries
      /\ \A m \in Both : /\ ls[m] \in Seq(Entry) /\ Len(ls[m]) \in Nat
                         /\ \A i \in 1..Len(ls[m]) : ls[m][i] \in Entry
  BY OnlineAssumption, SeqFacts DEF LineTyped
<1> DEFINE e == [ls[l][k] EXCEPT !.guid = NoPlayer]
           r == [ls[l] EXCEPT ![k] = e]
<1>1. e \in Entry /\ e.guid = NoPlayer
  BY <1>0 DEF Entry
<1> HIDE DEF e
<1>2. /\ r \in Seq(Entry) /\ Len(r) = Len(ls[l])
      /\ \A i \in 1..Len(r) : r[i] = IF i = k THEN e ELSE ls[l][i]
  BY <1>0, <1>1, ExceptSeq
<1>3. to = [ls EXCEPT ![l] = r]
  BY <1>0 DEF e
<1> HIDE DEF r, to
<1>4. /\ to \in [Both -> Seq(Entry)] /\ to[l] = r
      /\ \A m \in Both \ {l} : to[m] = ls[m]
  BY <1>0, <1>2, <1>3
<1>5. \A m \in Both : Len(to[m]) = Len(ls[m])
  BY <1>2, <1>4
<1>6. \A m \in Both : \A i \in 1..Len(to[m]) :
        to[m][i].guid = NoPlayer \/ to[m][i].guid = ls[m][i].guid
  BY <1>1, <1>2, <1>4
<1>7. LineTyped(to)
  BY <1>0, <1>4, <1>5, NoLonger
<1>8. ASSUME NEW q \in Players, NEW m \in Both, NEW i \in 1..Len(to[m]), to[m][i].guid = q
      PROVE  i \in 1..Len(ls[m]) /\ ls[m][i].guid = q
  BY <1>0, <1>5, <1>6, <1>8
<1>9. OnePlace(to)
  <2> SUFFICES ASSUME NEW q \in Players, NEW m \in Both, NEW n \in Both,
                      NEW i \in 1..Len(to[m]), NEW j \in 1..Len(to[n]),
                      to[m][i].guid = q, to[n][j].guid = q
               PROVE  m = n /\ i = j
    BY DEF OnePlace
  <2>1. /\ i \in 1..Len(ls[m]) /\ ls[m][i].guid = q
        /\ j \in 1..Len(ls[n]) /\ ls[n][j].guid = q
    BY <1>8
  <2>2. QED
    BY <2>1 DEF OnePlace
<1>10. NoPlace(to, S)
  BY <1>8 DEF NoPlace
<1>11. QED
  BY <1>7, <1>9, <1>10 DEF to

LEMMA JoiningIn ==
  ASSUME NEW ls, NEW S, LineTyped(ls), OnePlace(ls), NoPlace(ls, S),
         NEW p \in Players \ S, NoPlace(ls, {p}), NEW l \in Both, NEW e \in Entry, e.guid = p,
         Len(ls["priority"]) + Len(ls["normal"]) < MaxEntries
  PROVE  LET to == [ls EXCEPT ![l] = Append(@, e)]
         IN LineTyped(to) /\ OnePlace(to) /\ NoPlace(to, S)
<1> DEFINE to == [ls EXCEPT ![l] = Append(@, e)]
           r == Append(ls[l], e)
<1>0. /\ ls \in [Both -> Seq(Entry)] /\ MaxEntries \in Nat
      /\ \A m \in Both : ls[m] \in Seq(Entry) /\ Len(ls[m]) \in Nat
  BY OnlineAssumption, SeqFacts DEF LineTyped
<1>1. /\ r \in Seq(Entry) /\ Len(r) = Len(ls[l]) + 1
      /\ \A i \in 1..Len(ls[l]) : r[i] = ls[l][i]
      /\ r[Len(ls[l]) + 1] = e
  BY <1>0, SeqFacts
<1>2. to = [ls EXCEPT ![l] = r]
  BY <1>0
<1> HIDE DEF r, to
<1>3. /\ to \in [Both -> Seq(Entry)] /\ to[l] = r
      /\ \A m \in Both \ {l} : to[m] = ls[m]
  BY <1>0, <1>1, <1>2
<1>4. LineTyped(to)
  <2> DEFINE a == Len(ls["priority"])
             b == Len(ls["normal"])
  <2>1. a + b < MaxEntries /\ a \in Nat /\ b \in Nat /\ MaxEntries \in Nat
    BY <1>0 DEF Both
  <2> HIDE DEF a, b
  <2>2. (a + 1) + b <= MaxEntries /\ a + (b + 1) <= MaxEntries
    BY <2>1
  <2>3. CASE l = "priority"
    <3>1. Len(to["priority"]) = Len(ls["priority"]) + 1 /\ to["normal"] = ls["normal"]
      BY <1>1, <1>3, <2>3 DEF Both
    <3>2. Len(to["priority"]) + Len(to["normal"]) <= MaxEntries
      BY <2>2, <3>1 DEF a, b
    <3>3. QED
      BY <1>3, <3>2 DEF LineTyped
  <2>4. CASE l = "normal"
    <3>1. Len(to["normal"]) = Len(ls["normal"]) + 1 /\ to["priority"] = ls["priority"]
      BY <1>1, <1>3, <2>4 DEF Both
    <3>2. Len(to["priority"]) + Len(to["normal"]) <= MaxEntries
      BY <2>2, <3>1 DEF a, b
    <3>3. QED
      BY <1>3, <3>2 DEF LineTyped
  <2>5. QED
    BY <2>3, <2>4 DEF Both
<1>5. ASSUME NEW m \in Both, NEW i \in 1..Len(to[m])
      PROVE  \/ m = l /\ i = Len(ls[l]) + 1 /\ to[m][i].guid = p
             \/ i \in 1..Len(ls[m]) /\ to[m][i] = ls[m][i]
  BY <1>0, <1>1, <1>3
<1>6. OnePlace(to)
  <2> SUFFICES ASSUME NEW q \in Players, NEW m \in Both, NEW n \in Both,
                      NEW i \in 1..Len(to[m]), NEW j \in 1..Len(to[n]),
                      to[m][i].guid = q, to[n][j].guid = q
               PROVE  m = n /\ i = j
    BY DEF OnePlace
  <2>1. /\ \/ m = l /\ i = Len(ls[l]) + 1 /\ to[m][i].guid = p
           \/ i \in 1..Len(ls[m]) /\ to[m][i] = ls[m][i]
        /\ \/ n = l /\ j = Len(ls[l]) + 1 /\ to[n][j].guid = p
           \/ j \in 1..Len(ls[n]) /\ to[n][j] = ls[n][j]
    BY <1>5
  <2>2. q = p => /\ ~(i \in 1..Len(ls[m]) /\ to[m][i] = ls[m][i])
                 /\ ~(j \in 1..Len(ls[n]) /\ to[n][j] = ls[n][j])
    BY DEF NoPlace
  <2>3. CASE q = p
    BY <2>1, <2>2, <2>3
  <2>4. CASE q # p
    BY <2>1, <2>4 DEF OnePlace
  <2>5. QED
    BY <2>3, <2>4
<1>7. NoPlace(to, S)
  BY <1>5 DEF NoPlace
<1>8. QED
  BY <1>4, <1>6, <1>7 DEF to

(* Everybody's entry is five seconds older.                                 *)
LEMMA Ticking ==
  ASSUME LineTyped(lists), OnePlace(lists), NEW S, NoPlace(lists, S), Line!Tick
  PROVE  LineTyped(lists') /\ OnePlace(lists') /\ NoPlace(lists', S)
         /\ \A l \in Both : lists[l] = <<>> => lists'[l] = <<>>
<1>0. /\ lists \in [Both -> Seq(Entry)]
      /\ Len(lists["priority"]) + Len(lists["normal"]) <= MaxEntries
      /\ \A l \in Both : /\ lists[l] \in Seq(Entry) /\ Len(lists[l]) \in Nat
                         /\ \A i \in 1..Len(lists[l]) : lists[l][i] \in Entry
  BY SeqFacts DEF LineTyped
<1> DEFINE Older(l) == [i \in 1..Len(lists[l]) |->
                          [lists[l][i] EXCEPT !.timeout = Line!Sooner(@)]]
<1>1. lists' = [l \in DOMAIN lists |-> Older(l)]
  BY DEF Line!Tick
<1>2. ASSUME NEW l \in Both
      PROVE  /\ lists'[l] = Older(l) /\ Older(l) \in Seq(Entry) /\ Len(Older(l)) = Len(lists[l])
             /\ \A i \in 1..Len(lists[l]) : Older(l)[i].guid = lists[l][i].guid
  <2>1. \A i \in 1..Len(lists[l]) :
          /\ [lists[l][i] EXCEPT !.timeout = Line!Sooner(@)] \in Entry
          /\ [lists[l][i] EXCEPT !.timeout = Line!Sooner(@)].guid = lists[l][i].guid
    <3> SUFFICES ASSUME NEW e \in Entry
                 PROVE  /\ [e EXCEPT !.timeout = Line!Sooner(@)] \in Entry
                        /\ [e EXCEPT !.timeout = Line!Sooner(@)].guid = e.guid
      BY <1>0
    <3>1. Line!Sooner(e.timeout) \in 0..27
      BY DEF Entry, Line!Sooner
    <3>2. QED
      BY <3>1 DEF Entry
  <2>2. Older(l) \in [1..Len(lists[l]) -> Entry]
    BY <2>1
  <2>3. Older(l) \in Seq(Entry) /\ Len(Older(l)) = Len(lists[l])
    <3> HIDE DEF Older
    <3>1. Len(lists[l]) \in Nat
      BY <1>0
    <3>2. Older(l) \in Seq(Entry)
      BY <2>2, <3>1, IsASeq
    <3>3. QED
      BY <2>2, <3>1, <3>2, LenProperties
  <2>4. QED
    BY <1>0, <1>1, <2>1, <2>3
<1> HIDE DEF Older
<1>3. lists' \in [Both -> Seq(Entry)]
  BY <1>0, <1>1, <1>2
<1>4. ASSUME NEW l \in Both
      PROVE  /\ lists'[l] \in Seq(Entry) /\ Len(lists'[l]) = Len(lists[l])
             /\ \A i \in 1..Len(lists'[l]) : lists'[l][i].guid = lists[l][i].guid
  BY <1>2
<1>5. LineTyped(lists')
  BY <1>0, <1>3, <1>4, NoLonger
<1>6. OnePlace(lists')
  <2> SUFFICES ASSUME NEW q \in Players, NEW m \in Both, NEW n \in Both,
                      NEW i \in 1..Len(lists'[m]), NEW j \in 1..Len(lists'[n]),
                      lists'[m][i].guid = q, lists'[n][j].guid = q
               PROVE  m = n /\ i = j
    BY DEF OnePlace
  <2>1. /\ i \in 1..Len(lists[m]) /\ lists[m][i].guid = q
        /\ j \in 1..Len(lists[n]) /\ lists[n][j].guid = q
    BY <1>4
  <2>2. QED
    BY <2>1 DEF OnePlace
<1>7. NoPlace(lists', S)
  BY <1>4 DEF NoPlace
<1>8. ASSUME NEW l \in Both, lists[l] = <<>> PROVE lists'[l] = <<>>
  BY <1>4, <1>8, SeqFacts
<1>9. QED
  BY <1>5, <1>6, <1>7, <1>8

(* Nobody stands in empty lists.                                            *)
LEMMA Nobody ==
  ASSUME NEW ls, \A l \in Both : ls[l] = <<>>, NEW S
  PROVE  NoPlace(ls, S)
BY SeqFacts DEF NoPlace

(* Where findClient finds someone.                                          *)
LEMMA FoundFacts ==
  ASSUME NEW ls, LineTyped(ls), NEW p
  PROVE  /\ Line!Found(ls, p) = {} => NoPlace(ls, {p})
         /\ \A at \in Line!Found(ls, p) : /\ at[1] \in Both /\ at[2] \in 1..Len(ls[at[1]])
                                          /\ ls[at[1]][at[2]].guid = p /\ at = <<at[1], at[2]>>
<1>1. ASSUME NEW l \in Both
      PROVE  Len(ls[l]) \in Nat /\ Len(ls[l]) <= MaxEntries
  <2>1. /\ Len(ls["priority"]) \in Nat /\ Len(ls["normal"]) \in Nat
        /\ Len(ls["priority"]) + Len(ls["normal"]) <= MaxEntries
    BY SeqFacts DEF LineTyped, Both
  <2>2. MaxEntries \in Nat
    BY OnlineAssumption
  <2> DEFINE a == Len(ls["priority"])
             b == Len(ls["normal"])
  <2>3. a \in Nat /\ b \in Nat /\ a + b <= MaxEntries
    BY <2>1
  <2> HIDE DEF a, b
  <2>4. a <= MaxEntries /\ b <= MaxEntries
    BY <2>2, <2>3
  <2>5. Len(ls[l]) = a \/ Len(ls[l]) = b
    BY DEF Both, a, b
  <2>6. QED
    BY <2>3, <2>4, <2>5
<1>2. MaxEntries \in Nat
  BY OnlineAssumption
<1>3. ASSUME NEW l \in Both, NEW i \in 1..Len(ls[l]), ls[l][i].guid = p
      PROVE  <<l, i>> \in Line!Found(ls, p)
  BY <1>1, <1>2, <1>3 DEF Line!Found, Both
<1>4. Line!Found(ls, p) = {} => NoPlace(ls, {p})
  BY <1>3 DEF NoPlace
<1>5. ASSUME NEW at \in Line!Found(ls, p)
      PROVE  /\ at[1] \in Both /\ at[2] \in 1..Len(ls[at[1]])
             /\ ls[at[1]][at[2]].guid = p /\ at = <<at[1], at[2]>>
  BY <1>1, <1>2 DEF Line!Found, Both
<1>6. QED
  BY <1>4, <1>5

-----------------------------------------------------------------------------
(* Who comes into the game needs no seat or finds one.                      *)
LEMMA Seating ==
  ASSUME online \subseteq Players, Seats, NEW p \in Players,
         p \in Always \/ MaxPlayers = 0 \/ Cardinality(online) < MaxPlayers,
         NEW to \in {online, online \cup {p}}
  PROVE  to \subseteq Players /\ (MaxPlayers # 0 => Cardinality(to \ Always) <= MaxPlayers)
<1>1. IsFiniteSet(online) /\ IsFiniteSet(online \ Always) /\ MaxPlayers \in Nat
  BY OnlineAssumption, FS_Subset
<1>2. Cardinality(online) \in Nat /\ Cardinality(online \ Always) \in Nat
      /\ Cardinality(online \ Always) <= Cardinality(online)
  BY <1>1, FS_CardinalityType, FS_Subset
<1>3. CASE to = online
  BY <1>3 DEF Seats
<1>4. CASE to = online \cup {p}
  <2>1. CASE p \in Always
    <3>1. to \ Always = online \ Always
      BY <1>4, <2>1
    <3>2. QED
      BY <1>4, <3>1 DEF Seats
  <2>2. CASE p \notin Always
    <3>1. to \ Always = (online \ Always) \cup {p}
      BY <1>4, <2>2
    <3>2. Cardinality(to \ Always) <= Cardinality(online \ Always) + 1
          /\ Cardinality(to \ Always) \in Nat
      <4> DEFINE A == online \ Always
      <4>1. IsFiniteSet(A) /\ Cardinality(A) \in Nat
        BY <1>1, <1>2
      <4> HIDE DEF A
      <4>2. Cardinality(A \cup {p}) = Cardinality(A) \/ Cardinality(A \cup {p}) = Cardinality(A) + 1
        BY <4>1, FS_AddElement
      <4>3. Cardinality(A \cup {p}) \in Nat /\ Cardinality(A \cup {p}) <= Cardinality(A) + 1
        BY <4>1, <4>2
      <4>4. QED
        BY <3>1, <4>3 DEF A
    <3>3. MaxPlayers # 0 => Cardinality(online) + 1 <= MaxPlayers
      BY <1>1, <1>2, <2>2
    <3>4. QED
      BY <1>1, <1>2, <1>4, <3>2, <3>3
  <2>3. QED
    BY <2>1, <2>2
<1>5. QED
  BY <1>3, <1>4

LEMMA Waits == \A slot \in Nat : Line!WaitTime(slot) \in 1..24 /\ Line!Timeout(slot) \in 0..27
BY DEF Line!WaitTime, Line!Timeout

(* The slots told are within their bound.                                   *)
LEMMA Slots ==
  ASSUME NEW ls, LineTyped(ls), NEW l \in Both
  PROVE  /\ Len(ls["priority"]) + Len(ls["normal"]) < MaxEntries
              => Line!Before(ls, l) + Len(ls[l]) + 1 \in 0..(MaxEntries + 2)
         /\ \A i \in 1..Len(ls[l]) :
              Line!Slot(ls, l, i) \in 0..(MaxEntries + 2) /\ Line!Slot(ls, l, i) > 0
<1> DEFINE a == Len(ls["priority"])
           b == Len(ls["normal"])
           c == Line!Before(ls, l)
           d == Len(ls[l])
<1>1. a \in Nat /\ b \in Nat /\ a + b <= MaxEntries /\ MaxEntries \in Nat
  BY SeqFacts, OnlineAssumption DEF LineTyped, Both
<1>2. (c = 0 /\ d = a) \/ (c = a /\ d = b)
  BY DEF Both, Line!Before
<1> HIDE DEF a, b, c, d
<1>3. c + d <= MaxEntries /\ c \in Nat /\ d \in Nat
  BY <1>1, <1>2
<1>4. c + d + 1 \in 0..(MaxEntries + 2)
  BY <1>1, <1>3
<1>5. ASSUME NEW i \in 1..d
      PROVE  c + (d + 1 - i) + 1 \in 0..(MaxEntries + 2) /\ c + (d + 1 - i) + 1 > 0
  BY <1>1, <1>3
<1>6. QED
  BY <1>4, <1>5 DEF a, b, c, d, Line!Slot

LEMMA TellingIsTyped ==
  ASSUME promised \in [Players -> Promises], NEW p \in Players,
         NEW slot \in 0..(MaxEntries + 2), Line!ToldToWait(p, slot)
  PROVE  promised' \in [Players -> Promises] /\ online' = online
<1>1. MaxEntries \in Nat /\ slot \in Nat
  BY OnlineAssumption
<1>2. [slot |-> slot, left |-> Line!Timeout(slot)] \in Promises
  BY <1>1, Waits DEF Promises
<1>3. QED
  BY <1>2 DEF Line!ToldToWait

LEMMA LettingInIsTyped ==
  ASSUME promised \in [Players -> Promises], NEW p \in Players, Line!LetIn(p)
  PROVE  promised' \in [Players -> Promises]
<1>1. MaxEntries \in Nat
  BY OnlineAssumption
<1>2. Line!Nothing \in Promises
  BY <1>1 DEF Promises, Line!Nothing
<1>3. QED
  BY <1>2 DEF Line!LetIn

-----------------------------------------------------------------------------
LEMMA StillInLine ==
  ASSUME LineTyped(lists'), OnePlace(lists'), NoPlace(lists', online' \cup Always),
         MaxPlayers = 0 => \A l \in Both : lists'[l] = <<>>,
         online' \subseteq Players,
         MaxPlayers # 0 => Cardinality(online' \ Always) <= MaxPlayers,
         promised' \in [Players -> Promises]
  PROVE  LineIInv'
BY DEF LineIInv, LineTyped, OnePlace, NoPlace, Seats

LEMMA LineInitially == Line!Init => LineIInv
<1> SUFFICES ASSUME Line!Init PROVE LineIInv
  OBVIOUS
<1>1. MaxEntries \in Nat /\ MaxPlayers \in Nat
  BY OnlineAssumption
<1>2. lists \in [Both -> Seq(Entry)] /\ \A l \in Both : lists[l] = <<>>
  BY SeqFacts DEF Line!Init, Both
<1>3. LineTyped(lists)
  <2>1. Len(lists["priority"]) = 0 /\ Len(lists["normal"]) = 0
    BY <1>2, SeqFacts DEF Both
  <2>2. QED
    BY <1>1, <1>2, <2>1 DEF LineTyped
<1>4. OnePlace(lists)
  BY <1>2, SeqFacts DEF OnePlace
<1>5. NoPlace(lists, online \cup Always)
  BY <1>2, Nobody
<1>6. Seats
  <2>1. Cardinality(online \ Always) = 0
    BY FS_EmptySet DEF Line!Init
  <2>2. QED
    BY <1>1, <2>1 DEF Seats
<1>7. promised \in [Players -> Promises]
  BY <1>1 DEF Line!Init, Line!Nothing, Promises
<1>8. QED
  BY <1>2, <1>3, <1>4, <1>5, <1>6, <1>7 DEF Line!Init, LineIInv

(* The lists after a retry: the entry goes with its player, or loses its    *)
(* name.                                                                    *)
LEMMA Retrying ==
  ASSUME LineIInv, NEW p \in Players \ (online \cup Always), MaxPlayers # 0,
         NEW at \in Line!Found(Line!Cleaned, p), Line!Retry(p, Line!Cleaned, at[1], at[2])
  PROVE  LineIInv'
<1> DEFINE l == at[1]
           k == at[2]
           slot == Line!Slot(Line!Cleaned, l, k)
           S == online \cup Always
<1>0. /\ online \subseteq Players /\ Always \subseteq Players /\ Seats
      /\ promised \in [Players -> Promises] /\ MaxPlayers \in Nat
  BY OnlineAssumption DEF LineIInv
<1>1. LineTyped(Line!Cleaned) /\ OnePlace(Line!Cleaned) /\ NoPlace(Line!Cleaned, S)
  BY CleanedFacts
<1>2. l \in Both /\ k \in 1..Len(Line!Cleaned[l]) /\ Line!Cleaned[l][k].guid = p
  BY <1>1, FoundFacts
<1>3. slot \in 0..(MaxEntries + 2) /\ slot > 0
  BY <1>1, <1>2, Slots
<1> DEFINE gone == [Line!Cleaned EXCEPT ![l] = Line!Erased(@, k)]
           forgotten == [Line!Cleaned EXCEPT ![l][k].guid = NoPlayer]
<1>4. CASE Line!HasRoom(slot)
  <2>1. Line!LetIn(p) /\ lists' = gone
    BY <1>4 DEF Line!Retry
  <2>2. LineTyped(gone) /\ OnePlace(gone) /\ NoPlace(gone, S \cup {p})
    BY <1>1, <1>2, LeavingLine
  <2>3. Cardinality(online) < MaxPlayers
    <3>1. Cardinality(online) \in Nat /\ slot \in Nat /\ slot > 0
      <4>1. MaxEntries \in Nat /\ IsFiniteSet(online)
        BY <1>0, OnlineAssumption, FS_Subset
      <4>2. QED
        BY <1>3, <4>1, FS_CardinalityType
    <3>2. Cardinality(online) + slot <= MaxPlayers
      BY <1>4, SameCount DEF Line!HasRoom
    <3> HIDE DEF slot
    <3>3. QED
      BY <1>0, <3>1, <3>2
  <2>4. online' \in {online, online \cup {p}} /\ promised' \in [Players -> Promises]
    BY <1>0, <2>1, LettingInIsTyped DEF Line!LetIn
  <2>5. online' \subseteq Players
        /\ (MaxPlayers # 0 => Cardinality(online' \ Always) <= MaxPlayers)
    BY <1>0, <2>3, <2>4, Seating
  <2> HIDE DEF gone
  <2>6. NoPlace(lists', online' \cup Always)
    BY <2>1, <2>2, <2>4 DEF NoPlace
  <2>7. LineTyped(lists') /\ OnePlace(lists')
    BY <2>1, <2>2
  <2>8. QED
    BY <2>4, <2>5, <2>6, <2>7, StillInLine
<1>5. CASE ~Line!HasRoom(slot)
  <2>1. Line!ToldToWait(p, slot) /\ lists' = forgotten
    BY <1>5 DEF Line!Retry
  <2>2. S \in SUBSET Players
    BY <1>0
  <2>3. LineTyped(forgotten) /\ OnePlace(forgotten) /\ NoPlace(forgotten, S)
    BY <1>1, <1>2, <2>2, LosingName
  <2>4. promised' \in [Players -> Promises] /\ online' = online
    BY <1>0, <1>3, <2>1, TellingIsTyped
  <2> HIDE DEF forgotten
  <2>5. LineTyped(lists') /\ OnePlace(lists') /\ NoPlace(lists', online' \cup Always)
    BY <2>1, <2>3, <2>4
  <2>6. QED
    BY <1>0, <2>4, <2>5, StillInLine DEF Seats
<1>6. QED
  BY <1>4, <1>5

LEMMA Arriving ==
  ASSUME LineIInv, NEW p \in Players \ (online \cup Always), MaxPlayers # 0,
         Line!Found(Line!Cleaned, p) = {}, Line!Arrive(p, Line!Cleaned),
         Len(lists["priority"]) + Len(lists["normal"]) < MaxEntries
  PROVE  LineIInv'
<1> DEFINE l == IF p \in Premium THEN "priority" ELSE "normal"
           slot == Line!Before(Line!Cleaned, l) + Len(Line!Cleaned[l]) + 1
           e == [timeout |-> Line!Timeout(slot), guid |-> p]
           S == online \cup Always
           to == [Line!Cleaned EXCEPT ![l] = Append(@, e)]
<1>0. /\ online \subseteq Players /\ Seats
      /\ promised \in [Players -> Promises] /\ MaxEntries \in Nat
  BY OnlineAssumption DEF LineIInv
<1>1. LineTyped(Line!Cleaned) /\ OnePlace(Line!Cleaned) /\ NoPlace(Line!Cleaned, S)
  BY CleanedFacts
<1>2. l \in Both
  BY DEF Both
<1>3. Len(Line!Cleaned["priority"]) + Len(Line!Cleaned["normal"]) < MaxEntries
  <2> DEFINE a == Len(Line!Cleaned["priority"])
             b == Len(Line!Cleaned["normal"])
             c == Len(lists["priority"])
             d == Len(lists["normal"])
  <2>1. a \in Nat /\ b \in Nat /\ c \in Nat /\ d \in Nat
    BY <1>1, SeqFacts DEF LineIInv, LineTyped, Both
  <2>2. a <= c /\ b <= d
    BY CleanedFacts DEF Both
  <2>3. c + d < MaxEntries
    OBVIOUS
  <2> HIDE DEF a, b, c, d
  <2>4. a + b < MaxEntries
    BY <1>0, <2>1, <2>2, <2>3
  <2>5. QED
    BY <2>4 DEF a, b
<1>4. slot \in 0..(MaxEntries + 2)
  BY <1>1, <1>2, <1>3, Slots
<1>5. Line!ToldToWait(p, slot) /\ lists' = to
  BY DEF Line!Arrive
<1> HIDE DEF l
<1>6. e \in Entry /\ e.guid = p
  <2>1. slot \in Nat
    BY <1>0, <1>4
  <2> HIDE DEF slot
  <2>2. QED
    BY <2>1, Waits DEF Entry
<1>7. NoPlace(Line!Cleaned, {p})
  BY <1>1, FoundFacts
<1> HIDE DEF slot, e
<1>8. LineTyped(to) /\ OnePlace(to) /\ NoPlace(to, S)
  BY <1>1, <1>2, <1>3, <1>6, <1>7, JoiningIn
<1>9. promised' \in [Players -> Promises] /\ online' = online
  BY <1>0, <1>4, <1>5, TellingIsTyped
<1> HIDE DEF to
<1>10. LineTyped(lists') /\ OnePlace(lists') /\ NoPlace(lists', online' \cup Always)
  BY <1>5, <1>8, <1>9
<1>11. QED
  BY <1>0, <1>9, <1>10, StillInLine DEF Seats

LEMMA LoggingIn ==
  ASSUME LineIInv, NEW p \in Players, Line!ClientLogin(p)
  PROVE  LineIInv'
<1>0. /\ p \notin online /\ online \subseteq Players /\ Seats
      /\ promised \in [Players -> Promises] /\ MaxPlayers \in Nat
      /\ Len(lists["priority"]) + Len(lists["normal"]) < MaxEntries
  BY OnlineAssumption DEF LineIInv, Line!ClientLogin
<1>1. CASE p \in Always
  <2>1. Line!LetIn(p) /\ lists' = lists
    BY <1>1 DEF Line!ClientLogin
  <2>2. online' \in {online, online \cup {p}} /\ promised' \in [Players -> Promises]
    BY <1>0, <2>1, LettingInIsTyped DEF Line!LetIn
  <2>3. online' \subseteq Players
        /\ (MaxPlayers # 0 => Cardinality(online' \ Always) <= MaxPlayers)
    BY <1>0, <1>1, <2>2, Seating
  <2>4. online' \cup Always = online \cup Always
    BY <1>1, <2>2
  <2>5. LineTyped(lists') /\ OnePlace(lists') /\ NoPlace(lists', online' \cup Always)
    BY <2>1, <2>4 DEF LineIInv
  <2>6. MaxPlayers = 0 => \A l \in Both : lists'[l] = <<>>
    BY <2>1 DEF LineIInv
  <2>7. QED
    BY <2>2, <2>3, <2>5, <2>6, StillInLine
<1>2. CASE p \notin Always /\ Line!DirectAccess(Line!Cleaned)
  <2>1. Line!LetIn(p) /\ lists' = Line!Cleaned
    BY <1>2 DEF Line!ClientLogin
  <2>2. online' \in {online, online \cup {p}} /\ promised' \in [Players -> Promises]
    BY <1>0, <2>1, LettingInIsTyped DEF Line!LetIn
  <2>3. \A l \in Both : Line!Cleaned[l] = <<>>
    BY <1>2, CleanedFacts DEF Line!DirectAccess, Line!NobodyWaits, Both
  <2>4. MaxPlayers = 0 \/ Cardinality(online) < MaxPlayers
    BY <1>2, SameCount DEF Line!DirectAccess
  <2>5. online' \subseteq Players
        /\ (MaxPlayers # 0 => Cardinality(online' \ Always) <= MaxPlayers)
    BY <1>0, <2>2, <2>4, Seating
  <2>6. LineTyped(lists') /\ OnePlace(lists') /\ NoPlace(lists', online' \cup Always)
    BY <2>1, <2>3, CleanedFacts, Nobody
  <2>7. QED
    BY <2>1, <2>2, <2>3, <2>5, <2>6, StillInLine
<1>3. CASE p \notin Always /\ ~Line!DirectAccess(Line!Cleaned)
  <2>1. MaxPlayers # 0 /\ p \in Players \ (online \cup Always)
    BY <1>0, <1>3 DEF Line!DirectAccess
  <2>2. CASE Line!Found(Line!Cleaned, p) = {}
    <3>1. Line!Arrive(p, Line!Cleaned)
      BY <1>3, <2>2 DEF Line!ClientLogin
    <3>2. QED
      BY <1>0, <2>1, <2>2, <3>1, Arriving
  <2>3. CASE Line!Found(Line!Cleaned, p) # {}
    <3>1. PICK at \in Line!Found(Line!Cleaned, p) : Line!Retry(p, Line!Cleaned, at[1], at[2])
      BY <1>3, <2>3 DEF Line!ClientLogin
    <3>2. QED
      BY <2>1, <3>1, Retrying
  <2>4. QED
    BY <2>2, <2>3
<1>4. QED
  BY <1>1, <1>2, <1>3

LEMMA LoggingOut ==
  ASSUME LineIInv, NEW p \in Players, Line!Logout(p)
  PROVE  LineIInv'
<1>1. online' = online \ {p} /\ lists' = lists /\ promised' = promised
  BY DEF Line!Logout
<1>2. online' \subseteq online /\ online \subseteq Players
  BY <1>1 DEF LineIInv
<1>3. MaxPlayers # 0 => Cardinality(online' \ Always) <= MaxPlayers
  <2>1. IsFiniteSet(online \ Always) /\ IsFiniteSet(online' \ Always) /\ MaxPlayers \in Nat
    BY <1>2, OnlineAssumption, FS_Subset
  <2>2. Cardinality(online' \ Always) <= Cardinality(online \ Always)
    BY <1>2, <2>1, FS_Subset
  <2>3. Cardinality(online \ Always) \in Nat /\ Cardinality(online' \ Always) \in Nat
    BY <2>1, FS_CardinalityType
  <2>4. QED
    BY <2>1, <2>2, <2>3 DEF LineIInv, Seats
<1>4. NoPlace(lists', online' \cup Always)
  BY <1>1, <1>2 DEF LineIInv, NoPlace
<1>5. QED
  BY <1>1, <1>2, <1>3, <1>4, StillInLine DEF LineIInv

LEMMA LineAges ==
  ASSUME LineIInv, Line!Tick
  PROVE  LineIInv'
<1>0. /\ LineTyped(lists) /\ OnePlace(lists) /\ NoPlace(lists, online \cup Always)
      /\ promised \in [Players -> Promises] /\ MaxEntries \in Nat /\ online' = online
  BY OnlineAssumption DEF LineIInv, Line!Tick
<1>1. LineTyped(lists') /\ OnePlace(lists') /\ NoPlace(lists', online' \cup Always)
  BY <1>0, Ticking
<1>2. MaxPlayers = 0 => \A l \in Both : lists'[l] = <<>>
  BY <1>0, Ticking DEF LineIInv
<1>3. promised' \in [Players -> Promises]
  <2>1. ASSUME NEW p \in Players
        PROVE  (IF promised[p].left <= 1 THEN Line!Nothing
                ELSE [promised[p] EXCEPT !.left = @ - 1]) \in Promises
    <3>1. promised[p] \in Promises /\ Line!Nothing \in Promises
      BY <1>0 DEF Line!Nothing, Promises
    <3>2. promised[p].left > 1 => promised[p].left - 1 \in 0..27
      BY <3>1 DEF Promises
    <3>3. promised[p].left \in 0..27
      BY <3>1 DEF Promises
    <3>4. QED
      BY <3>1, <3>2, <3>3 DEF Promises
  <2>2. QED
    BY <2>1 DEF Line!Tick
<1>4. QED
  BY <1>0, <1>1, <1>2, <1>3, StillInLine DEF LineIInv, Seats

LEMMA LineStep == LineIInv /\ [Line!Next]_(Line!vars) => LineIInv'
<1> SUFFICES ASSUME LineIInv, [Line!Next]_(Line!vars) PROVE LineIInv'
  OBVIOUS
<1>1. CASE UNCHANGED Line!vars
  <2>1. lists' = lists /\ online' = online /\ promised' = promised
    BY <1>1 DEF Line!vars
  <2>2. QED
    BY <2>1, StillInLine DEF LineIInv, Seats
<1>2. CASE Line!Tick
  BY <1>2, LineAges
<1>3. ASSUME NEW p \in Players, Line!ClientLogin(p) PROVE LineIInv'
  BY <1>3, LoggingIn
<1>4. ASSUME NEW p \in Players, Line!Logout(p) PROVE LineIInv'
  BY <1>4, LoggingOut
<1>5. QED
  BY <1>1, <1>2, <1>3, <1>4 DEF Line!Next

LEMMA LineSound == LineIInv => Line!LineInv
<1> SUFFICES ASSUME LineIInv PROVE Line!LineInv
  OBVIOUS
<1>1. Line!TypeOK
  <2>1. /\ lists \in [Both -> Seq(Entry)]
        /\ Len(lists["priority"]) + Len(lists["normal"]) <= MaxEntries
        /\ \A l \in Both : \A i \in 1..Len(lists[l]) : lists[l][i] \in Entry
    BY SeqFacts DEF LineIInv, LineTyped
  <2>2. QED
    BY <2>1 DEF Line!TypeOK, LineIInv, Both, Entry, Promises
<1>2. Line!CapacityKept
  BY SameCount DEF LineIInv, Seats, Line!CapacityKept
<1>3. ASSUME NEW p \in Players
      PROVE  Cardinality(Line!Found(lists, p)) <= (IF p \in online THEN 0 ELSE 1)
  <2> DEFINE F == Line!Found(lists, p)
  <2>1. \A at \in F : /\ at[1] \in Both /\ at[2] \in 1..Len(lists[at[1]])
                      /\ lists[at[1]][at[2]].guid = p /\ at = <<at[1], at[2]>>
    BY FoundFacts DEF LineIInv
  <2>2. ASSUME NEW x \in F, NEW y \in F PROVE x = y
    <3>1. x[1] = y[1] /\ x[2] = y[2]
      <4> HIDE DEF F
      <4>1. QED
        BY <2>1 DEF LineIInv, OnePlace
    <3>2. QED
      BY <2>1, <3>1
  <2>3. p \in online => F = {}
    <3> HIDE DEF F
    <3>1. QED
      BY <2>1 DEF LineIInv, NoPlace
  <2> HIDE DEF F
  <2>4. CASE F = {}
    BY <2>4, FS_EmptySet DEF F
  <2>5. CASE F # {}
    <3>1. PICK x : F = {x}
      BY <2>2, <2>5
    <3>2. Cardinality(F) = 1
      BY <3>1, FS_Singleton
    <3>3. QED
      BY <2>3, <2>5, <3>2 DEF F
  <2>6. QED
    BY <2>4, <2>5
<1>4. QED
  BY <1>1, <1>2, <1>3, SameCount DEF Line!LineInv, Line!OnceInLine

(* Only a login that finds nobody waiting lets in a newcomer who need not    *)
(* always be let in.                                                        *)
LEMMA Newcomers ==
  ASSUME [Line!Next]_(Line!vars), NEW p \in Players \ Always, p \in online' \ online,
         MaxPlayers # 0, Line!Found(Line!Cleaned, p) = {}
  PROVE  Line!Cleaned["priority"] = <<>> /\ Line!Cleaned["normal"] = <<>>
<1>1. PICK q \in Players : Line!ClientLogin(q)
  BY DEF Line!Next, Line!Logout, Line!Tick, Line!vars
<1>2. online' \subseteq online \cup {q}
  BY <1>1 DEF Line!ClientLogin, Line!LetIn, Line!Arrive, Line!Retry, Line!ToldToWait
<1>3. q = p
  BY <1>2
<1>4. Line!DirectAccess(Line!Cleaned)
  BY <1>1, <1>3 DEF Line!ClientLogin, Line!Arrive, Line!ToldToWait
<1>5. QED
  BY <1>4 DEF Line!DirectAccess, Line!NobodyWaits

-----------------------------------------------------------------------------
(* A step of the run is a step of a component or leaves it alone. *)
LEMMA OnlineApart ==
  ASSUME [OnlineNext]_onlineVars
  PROVE  /\ [Pool!Next]_(Pool!vars)
         /\ [Queries!Next]_(Queries!vars)
         /\ [Line!Next]_(Line!vars)
<1>1. Pool!Next \/ UNCHANGED poolVars
  BY DEF OnlineNext, onlineVars
<1>2. Queries!Next \/ UNCHANGED queryVars
  BY DEF OnlineNext, onlineVars
<1>3. Line!Next \/ UNCHANGED lineVars
  BY DEF OnlineNext, onlineVars
<1>4. QED
  BY <1>1, <1>2, <1>3 DEF poolVars, Pool!vars, queryVars, Queries!vars, lineVars, Line!vars

(* The chain of sendAll events runs as long as a protocol is in the pool,   *)
(* and a client gets everything written for it, once and in order, while    *)
(* protocols come and go and their connections close (OutputMessagePool,    *)
(* Protocol::getOutputBuffer).                                              *)
THEOREM PoolIsKept == OnlineSpec => []PoolInv
<1> USE OnlineAssumption DEF PoolAssumed
<1>1. OnlineInit => PoolIInv
  BY PoolInitially DEF OnlineInit
<1>2. PoolIInv /\ [OnlineNext]_onlineVars => PoolIInv'
  BY OnlineApart, PoolStep
<1>3. PoolIInv => PoolInv
  BY DEF PoolIInv, PoolInv
<1>4. QED
  BY <1>1, <1>2, <1>3, PTL DEF OnlineSpec

LEMMA QueueInvariance == OnlineSpec => []QueueIInv
<1>1. OnlineInit => QueueIInv
  BY QueueInitially DEF OnlineInit
<1>2. QueueIInv /\ [OnlineNext]_onlineVars => QueueIInv'
  BY OnlineApart, QueueStep
<1>3. QED
  BY <1>1, <1>2, PTL DEF OnlineSpec

(* However the adders, the database thread and the dispatcher interleave, no *)
(* wake-up is lost, and every query is taken by one of the two consumers,    *)
(* once, in the order of addTask but for the one in flight.                 *)
THEOREM QueueIsConsistent == OnlineSpec => []QueueInv
<1>1. QueueIInv => QueueInv
  BY QueueInOrder, SameQueue DEF QueueIInv, QueueInv, Queries!QueueInv
<1>2. QED
  BY <1>1, QueueInvariance, PTL

(* When flush returns, to saveGameState or to shutdown, every query accepted *)
(* so far has been run but for the one the database thread has in flight.    *)
THEOREM FlushLeavesNothing == OnlineSpec => Queries!FlushCompletes
<1>1. ASSUME QueueIInv, [Queries!Next]_(Queries!vars),
             serverPc \in {"flush", "run"}, serverPc' \in {"idle", "notify"}
      PROVE  Queries!Elems(accepted) \subseteq Queries!Elems(executed') \cup {dbTask}
  <2>1. Queries!FlushTake /\ tasks = <<>>
    BY <1>1 DEF QueueIInv, Queries!TypeOK, Queries!Next, Queries!DbStep,
       Queries!DispatcherStep, Queries!vars, Queries!AddTask, Queries!Signal,
       Queries!CheckState, Queries!LockTasks, Queries!Woken, Queries!RunTask,
       Queries!SpuriousWakeup, Queries!SaveGameState, Queries!Stop,
       Queries!FlushTake, Queries!FlushRun, Queries!AfterFlushRun,
       Queries!ShutdownNotify, Queries!Shutdown
  <2>2. executed' = executed /\ flushTask = NoTask
    BY <1>1, <2>1 DEF Queries!FlushTake, QueueIInv, Queries!TypeOK
  <2>3. accepted = taken
    BY <1>1, <2>1, ConcatEmptySeq DEF QueueIInv, Queries!TypeOK, OnceEach
  <2>4. Elems(accepted) \subseteq Elems(executed) \cup {dbTask}
    BY <1>1, <2>2, <2>3 DEF QueueIInv, OnceEach
  <2>5. QED
    BY <2>2, <2>4, SameElems
<1>2. QueueIInv /\ [OnlineNext]_onlineVars =>
        [(serverPc \in {"flush", "run"} /\ serverPc' \in {"idle", "notify"}) =>
           Queries!Elems(accepted) \subseteq Queries!Elems(executed') \cup {dbTask}]_(Queries!vars)
  BY <1>1, OnlineApart
<1>3. QED
  BY <1>2, QueueInvariance, PTL DEF OnlineSpec, Queries!FlushCompletes

(* The waiting list lets in no more players than the server takes, but for  *)
(* those who can always log in; nobody holds two places, or one while in    *)
(* the game; and a newcomer is let in past the list only when nobody waits  *)
(* in it (clientLogin).                                                     *)
THEOREM WaitingListIsKept == OnlineSpec => LineIsKept
<1>1. OnlineInit => LineIInv
  BY LineInitially DEF OnlineInit
<1>2. LineIInv /\ [OnlineNext]_onlineVars => LineIInv'
  BY OnlineApart, LineStep
<1>3. LineIInv => Line!LineInv
  BY LineSound
<1>4. [OnlineNext]_onlineVars =>
        [\A p \in Players \ Always :
           p \in online' \ online /\ MaxPlayers # 0 /\ Line!Found(Line!Cleaned, p) = {}
             => Line!Cleaned["priority"] = <<>>
                /\ Line!Cleaned["normal"] = <<>>]_(Line!vars)
  BY OnlineApart, Newcomers
<1>5. OnlineSpec => []Line!LineInv
  BY <1>1, <1>2, <1>3, PTL DEF OnlineSpec
<1>6. OnlineSpec => Line!NewcomersWait
  BY <1>4, PTL DEF OnlineSpec, Line!NewcomersWait
<1>7. QED
  BY <1>5, <1>6 DEF LineIsKept, Line!LineIsKept
=============================================================================
