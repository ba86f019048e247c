------------------------------- MODULE Spawns -------------------------------
(***************************************************************************)
(* A spawn (spawn.cpp): the monsters of its blocks, which are put back     *)
(* some time after they were killed.  There is no timer that always runs:  *)
(* the removal of a monster schedules a check, and a check schedules the   *)
(* next one while fewer monsters are alive than there are blocks.          *)
(*                                                                         *)
(* Time is counted in the spawn's interval.  A monster is an address;      *)
(* `new` takes the least one that is free.  Placing a monster fails at     *)
(* random (no room, or a script refuses); scripts do not remove a monster  *)
(* while it appears.  Where monsters walk is in Creatures, here it is only *)
(* inside or outside of the spawn's zone.                                  *)
(***************************************************************************)
EXTENDS Naturals, FiniteSets, FiniteSetsExt

CONSTANTS
  Blocks,      \* spawnMap: 1..n
  Delay,       \* interval of each block, in units of the spawn's
  RateSpawn,   \* rateSpawn of config.lua
  Monsters,    \* addresses; bound: no more monsters at a time
  MaxLosses,   \* bound: monsters that are removed or convinced
  MaxFailures  \* bound: monsters that cannot be placed by checks

VARIABLES
  where,       \* where each monster is
  refs,        \* its reference counter
  spawn,       \* the monsters whose spawn is this one
  spawnedMap,  \* pairs of a block and a monster
  rest,        \* how long each block has still to wait
  check,       \* checkSpawnEvent: none, scheduled, or a task
  started,     \* before startup, running, or cleared
  losses, failures,
  missed       \* history: blocks that are empty and no check was scheduled

vars == <<where, refs, spawn, spawnedMap, rest, check, started, losses,
          failures, missed>>

Wanderer == 0  \* the block of a monster that has left the zone
Gone == {"removed", "released"}
Alive == {m \in Monsters : where[m] \in {"inside", "outside"}}
SpawnedOf(b) == {e \in spawnedMap : e[1] = b}
EntriesOf(m) == {e \in spawnedMap : e[2] = m}
Filled(entries) == {e[1] : e \in entries}

(* The game holds a removed monster until its next cleanup, which makes it *)
(* released.                                                               *)
TypeOK ==
  /\ where \in [Monsters -> {"free", "inside", "outside"} \cup Gone]
  /\ refs \in [Monsters -> 0..2]
  /\ spawn \subseteq Monsters
  /\ spawnedMap \subseteq (Blocks \cup {Wanderer}) \X Monsters
  /\ rest \in [Blocks -> Nat]
  /\ check \in {"none", "timer", "task"}
  /\ started \in {"before", "running", "cleared"}
  /\ losses \in 0..MaxLosses /\ failures \in 0..MaxFailures
  /\ missed \subseteq Blocks

Init ==
  /\ where = [m \in Monsters |-> "free"]
  /\ refs = [m \in Monsters |-> 0]
  /\ spawn = {} /\ spawnedMap = {}
  /\ rest = [b \in Blocks |-> 0]
  /\ check = "none" /\ started = "before"
  /\ losses = 0 /\ failures = 0 /\ missed = {}

(* Variants of the operators, each with one slip a change of this code     *)
(* could make; the runs must notice them.                                  *)
DropsAll(ms) == [m \in Monsters |-> IF m \in ms THEN 0 ELSE refs[m]]
KeepsRemoved(entries) == {}
ChecksOnce(entries) == "none"
IfIdle == check
FirstOnly(due) == {b \in due : b = 1}

-----------------------------------------------------------------------------
(* Entries and their references. *)

Dropped(ms) == [m \in Monsters |-> IF m \in ms THEN refs[m] - 1 ELSE refs[m]]

(* What decrementReferenceCounter leaves of the monsters. *)
Freed(counts) ==
  [m \in Monsters |-> IF refs[m] > 0 /\ counts[m] = 0 THEN "free" ELSE where[m]]

(* The blocks of `bs` in the order of their numbers take the least free    *)
(* addresses.                                                              *)
Rank(x, S) == Cardinality({y \in S : y < x})
Assigned(bs, w) ==
  LET free == {m \in Monsters : w[m] = "free"}
  IN {<<b, CHOOSE m \in free : Rank(m, free) = Rank(b, bs)>> : b \in bs}

(* spawnMonster of every block in `bs`: the monster belongs to the game and *)
(* to the entry.                                                            *)
Spawned(bs, w, counts, entries) ==
  LET new == Assigned(bs, w)
      ms == {e[2] : e \in new}
  IN /\ Cardinality(bs) <= Cardinality({m \in Monsters : w[m] = "free"})  \* bound
     /\ spawnedMap' = entries \cup new
     /\ where' = [m \in Monsters |-> IF m \in ms THEN "inside" ELSE w[m]]
     /\ refs' = [m \in Monsters |-> IF m \in ms THEN 2 ELSE counts[m]]
     /\ spawn' = {m \in spawn : w[m] # "free"} \cup ms

(* startup: a block that fails is not tried again until a check.            *)
Startup ==
  /\ started = "before" /\ started' = "running"
  /\ \E bs \in SUBSET Blocks :
       /\ Spawned(bs, where, refs, {})
       /\ rest' = [b \in Blocks |-> IF b \in bs THEN Delay[b] ELSE 0]
       /\ missed' = Blocks \ bs
  /\ UNCHANGED <<check, losses, failures>>

-----------------------------------------------------------------------------
(* checkSpawn. *)

(* cleanup: entries of removed monsters go, those of monsters that have left *)
(* the zone become wanderers.                                                *)
Removed(entries) == {e \in entries : where[e[2]] \in Gone}
Cleaned(entries) ==
  {IF where[e[2]] = "outside" THEN <<Wanderer, e[2]>> ELSE e :
     e \in entries \ Removed(entries)}

(* The loop over the blocks ends with the attempt that reaches the rate.    *)
Attempted(due) == {b \in due : Rank(b, due) < Max({1, RateSpawn})}

Rescheduled(entries) ==
  IF Cardinality(entries) < Cardinality(Blocks) THEN "timer" ELSE "none"

CheckSpawn ==
  LET gone == Removed(spawnedMap)
      counts == Dropped({e[2] : e \in gone})
      entries == Cleaned(spawnedMap)
      due == {b \in Blocks \ Filled(entries) : rest[b] = 0}
  IN /\ check = "task"
     /\ \E bs \in SUBSET Attempted(due) :
          /\ failures' = failures + Cardinality(Attempted(due) \ bs)
          /\ failures' <= MaxFailures
          /\ Spawned(bs, Freed(counts), counts, entries)
          /\ rest' = [b \in Blocks |-> IF b \in bs THEN Delay[b] ELSE rest[b]]
          /\ check' = Rescheduled(spawnedMap')
     /\ missed' = {}
     /\ UNCHANGED <<started, losses>>

(* An interval goes by, and the check that was scheduled is due.            *)
Later == [b \in Blocks |-> IF rest[b] > 0 THEN rest[b] - 1 ELSE 0]

CheckDue ==
  /\ check = "timer" /\ check' = "task"
  /\ rest' = Later
  /\ UNCHANGED <<where, refs, spawn, spawnedMap, started, losses, failures, missed>>

Elapse ==
  /\ check # "timer" /\ rest # Later /\ rest' = Later
  /\ UNCHANGED <<where, refs, spawn, spawnedMap, check, started, losses,
                 failures, missed>>

-----------------------------------------------------------------------------
(* What happens to the monsters. *)

Lost == losses < MaxLosses /\ losses' = losses + 1

StartSpawnCheck == IF check = "none" THEN "timer" ELSE check

(* The spawn has lost a monster and nothing was scheduled for that. *)
Unfilled(entries) == Blocks \ Filled({e \in entries : where'[e[2]] \notin Gone})
Forgotten == missed' = IF check = "none" THEN Unfilled(spawnedMap') ELSE missed

(* Monster::onRemoveCreature, unless its script takes that over.  The game  *)
(* gives its reference back in its next cleanup.                            *)
Remove(m) ==
  /\ started = "running" /\ m \in Alive
  /\ IF m \in spawn THEN Lost ELSE UNCHANGED losses
  /\ where' = [where EXCEPT ![m] = "removed"]
  /\ UNCHANGED <<refs, spawn, spawnedMap, rest, started, failures>>
  /\ \/ m \in spawn /\ check' = StartSpawnCheck /\ UNCHANGED missed
     \/ m \in spawn /\ UNCHANGED check /\ Forgotten
     \/ m \notin spawn /\ UNCHANGED <<check, missed>>

(* Game::cleanup. *)
Cleanup(m) ==
  /\ where[m] = "removed"
  /\ refs' = Dropped({m})
  /\ where' = [Freed(refs') EXCEPT ![m] = IF @ = "free" THEN "free" ELSE "released"]
  /\ UNCHANGED <<spawn, spawnedMap, rest, check, started, losses, failures, missed>>

(* Monster::convinceCreature: removeMonster, without a check. *)
Convince(m) ==
  /\ started = "running" /\ m \in Alive \cap spawn /\ Lost
  /\ spawnedMap' = spawnedMap \ EntriesOf(m)
  /\ spawn' = spawn \ {m}
  /\ refs' = Dropped({e[2] : e \in EntriesOf(m)})
  /\ UNCHANGED <<where, rest, check, started, failures>>
  /\ Forgotten

Walk(m) ==
  /\ started = "running" /\ m \in Alive \cap spawn
  /\ where' = [where EXCEPT ![m] = IF @ = "inside" THEN "outside" ELSE "inside"]
  /\ UNCHANGED <<refs, spawn, spawnedMap, rest, check, started, losses, failures,
                 missed>>

(* Spawns::clear, once the dispatcher has ended. *)
Clear ==
  LET counts == Dropped({e[2] : e \in spawnedMap})
  IN /\ started = "running" /\ started' = "cleared"
     /\ check' = "none" /\ spawnedMap' = {}
     /\ spawn' = spawn \ {e[2] : e \in spawnedMap}
     /\ refs' = counts /\ where' = Freed(counts)
     /\ UNCHANGED <<rest, losses, failures, missed>>

Next ==
  \/ Startup \/ CheckSpawn \/ CheckDue \/ Elapse \/ Clear
  \/ \E m \in Monsters : Remove(m) \/ Cleanup(m) \/ Convince(m) \/ Walk(m)

Fairness == WF_vars(CheckDue) /\ WF_vars(CheckSpawn)

Spec == Init /\ [][Next]_vars /\ Fairness

-----------------------------------------------------------------------------
(* Properties. *)

Occupied(b) == \E e \in SpawnedOf(b) : e[2] \in Alive
Full == Cardinality({e \in spawnedMap : e[2] \in Alive}) >= Cardinality(Blocks)

(* Monster::spawn, Spawn::spawnedMap and the reference counter tell the     *)
(* same: a monster in the world belongs to the spawn exactly when there is  *)
(* an entry for it, and to nobody once it is freed; a block has one monster *)
(* at a time.  And no block is forgotten: an empty one has a check to wait  *)
(* for unless wanderers make up for it, or it was missed when the spawn     *)
(* started or its monster went without a word.                              *)
SpawnsInv ==
  /\ TypeOK
  /\ \A m \in Monsters :
       /\ Cardinality(EntriesOf(m)) <= 1
       /\ m \in Alive => (m \in spawn <=> EntriesOf(m) # {})
       /\ refs[m] = Cardinality(EntriesOf(m))
                    + (IF m \in Alive \/ where[m] = "removed" THEN 1 ELSE 0)
       /\ where[m] = "free" => refs[m] = 0
  /\ \A b \in Blocks : Cardinality(SpawnedOf(b)) <= 1
  /\ started = "running" /\ check = "none" =>
       \A b \in Blocks : Occupied(b) \/ b \in missed \/ Full

(* After the last kill, and once monsters can be placed again, every block  *)
(* that somebody looks after is filled (Spawn::checkSpawn), however many    *)
(* blocks one check may fill.                                               *)
BlocksRefill ==
  \A b \in Blocks :
    (started = "running" /\ ~Occupied(b) /\ b \notin missed)
      ~> (Occupied(b) \/ b \in missed \/ Full \/ started = "cleared")
=============================================================================
