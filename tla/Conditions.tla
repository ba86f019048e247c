----------------------------- MODULE Conditions -----------------------------
(***************************************************************************)
(* The conditions of a creature: Creature::addCondition, removeCondition,  *)
(* executeConditions (creature.cpp) and the classes of condition.cpp that  *)
(* keep something in the creature: speed, skills, visibility, the lock of  *)
(* a fight.                                                                *)
(*                                                                         *)
(* Haste and paralysis exclude each other, but not in the middle of a      *)
(* step: a haste given then, and the removal of a paralysis, become events *)
(* of the scheduler.  An event finds the creature by its id, which a       *)
(* player loses with the logout, so that a logout voids its events.        *)
(*                                                                         *)
(* Time is counted in intervals of the checks of creatures.  `left` is     *)
(* endTime seen from now, and -1 once that is over (and always, where      *)
(* `ticks` says that the condition has no end).  `late` notes that a       *)
(* condition was renewed after it was over and before it was taken off.    *)
(* Conditions that do damage are in Combat.                                *)
(***************************************************************************)
EXTENDS Integers, Sequences

LOCAL INSTANCE SequencesExt

CONSTANTS
  Gifts,     \* conditions that are given: records of type, id, amount, ticks
  PzTicks,   \* for how long a fight locks, in intervals
  MaxStep,   \* the longest step, in intervals
  MaxDelay,  \* the longest time until a player may act again, in intervals
  MaxList,   \* bound: no condition is given beyond this many
  MaxEvents  \* bound: nothing is done that may schedule beyond this many

VARIABLES
  body,      \* list (Creature::conditions), varSpeed, varSkill, visible, pzLocked, events
  walkDelay, \* how much of the current step is left: Creature::getWalkDelay
  stored,    \* the conditions a player was saved with
  inWorld

vars == <<body, walkDelay, stored, inWorld>>

Speed == {"haste", "paralyze"}

Fresh(gift) ==
  [type |-> gift.type, id |-> gift.id, amount |-> gift.amount, ticks |-> gift.ticks,
   left |-> IF gift.ticks > 0 THEN gift.ticks ELSE -1, late |-> FALSE]

Key(condition) == <<condition.type, condition.id>>
Going(condition) == condition.ticks = -1 \/ condition.left >= 0
GivesSpeed(condition) == IF condition.type \in Speed THEN condition.amount ELSE 0
GivesSkill(condition) == IF condition.type = "attributes" THEN condition.amount ELSE 0
InList(list, Test(_)) == \E i \in DOMAIN list : Test(list[i])
IsInvisible(list) == InList(list, LAMBDA c : c.type = "invisible")
HasCondition(list, type) == InList(list, LAMBDA c : c.type = type /\ Going(c))
GetCondition(list, key) == InList(list, LAMBDA c : Key(c) = key)

NoBody ==
  [list |-> <<>>, varSpeed |-> 0, varSkill |-> 0, visible |-> TRUE, pzLocked |-> FALSE,
   events |-> <<>>]

-----------------------------------------------------------------------------
(* What is done to the body of a creature, as functions of it.              *)

Scheduled(b, event) == [b EXCEPT !.events = Append(@, event)]
AddLater(gift) == [what |-> "add", gift |-> gift, due |-> walkDelay]
RemoveLater == [what |-> "remove", due |-> walkDelay]

(* Variant, not of the code: who loses one invisibility is shown.           *)
EndedInSight(b, condition) ==
  LET list == SelectSeq(b.list, LAMBDA c : Key(c) # Key(condition))
  IN [b EXCEPT !.list = list,
               !.varSpeed = @ - GivesSpeed(condition),
               !.varSkill = @ - GivesSkill(condition),
               !.visible = @ \/ condition.type = "invisible",
               !.pzLocked = @ /\ condition.type # "infight"]

(* A condition is taken off the list and then undone: endCondition of its   *)
(* class, and onEndCondition of the player.                                 *)
Ended(b, condition) ==
  LET list == SelectSeq(b.list, LAMBDA c : Key(c) # Key(condition))
  IN [b EXCEPT !.list = list,
               !.varSpeed = @ - GivesSpeed(condition),
               !.varSkill = @ - GivesSkill(condition),
               !.visible = @ \/ (condition.type = "invisible" /\ ~IsInvisible(list)),
               !.pzLocked = @ /\ condition.type # "infight"]

EndedAll(b, conditions) == FoldLeft(Ended, b, conditions)

MustWait(type, force) == type = "paralyze" /\ ~force /\ walkDelay > 0

RemovedOne(b, condition, force) ==
  IF MustWait(condition.type, force) THEN Scheduled(b, RemoveLater) ELSE Ended(b, condition)

RemovedType(b, type, force) ==
  IF MustWait(type, force) /\ InList(b.list, LAMBDA c : c.type = type)
  THEN Scheduled(b, RemoveLater)
  ELSE EndedAll(b, SelectSeq(b.list, LAMBDA c : c.type = type))

(* Variant, not of the code: only a paralysis asks for the end of a haste.  *)
StartedAtop(b, condition) ==
  LET new == [b EXCEPT !.list = Append(@, condition),
                       !.varSpeed = @ + GivesSpeed(condition),
                       !.varSkill = @ + GivesSkill(condition),
                       !.visible = @ /\ condition.type # "invisible"]
  IN IF condition.type = "paralyze" THEN RemovedType(new, "haste", FALSE) ELSE new

(* startCondition, push_back, and then Creature::onAddCondition.            *)
Started(b, condition) ==
  LET new == [b EXCEPT !.list = Append(@, condition),
                       !.varSpeed = @ + GivesSpeed(condition),
                       !.varSkill = @ + GivesSkill(condition),
                       !.visible = @ /\ condition.type # "invisible"]
      Excludes(type, other) == condition.type = type /\ HasCondition(new.list, other)
  IN IF Excludes("paralyze", "haste") THEN RemovedType(new, "haste", FALSE)
     ELSE IF Excludes("haste", "paralyze") THEN RemovedType(new, "paralyze", FALSE)
     ELSE new

(* updateCondition: a longer one is not cut short; but a change of speed    *)
(* only asks whether what is there has no end.                              *)
MayRenew(old, gift) ==
  /\ ~(old.ticks = -1 /\ gift.ticks > 0)
  /\ old.type \in Speed \/ ~(gift.ticks >= 0 /\ old.left > gift.ticks)

SetTicks(condition, ticks) ==
  [condition EXCEPT !.ticks = ticks, !.left = ticks, !.late = @ \/ ~Going(condition)]

Renewed(old, gift) == [SetTicks(old, gift.ticks) EXCEPT !.amount = gift.amount]

(* Variant, not of the code: what it gave before is not taken back.         *)
UpdatedAtop(b, gift) ==
  LET i == CHOOSE j \in DOMAIN b.list : Key(b.list[j]) = Key(gift)
      new == Renewed(b.list[i], gift)
  IN IF MayRenew(b.list[i], gift)
     THEN [b EXCEPT !.list[i] = new, !.varSpeed = @ + GivesSpeed(new),
                    !.varSkill = @ + GivesSkill(new)]
     ELSE b

Updated(b, gift) ==
  LET i == CHOOSE j \in DOMAIN b.list : Key(b.list[j]) = Key(gift)
      old == b.list[i]
      new == Renewed(old, gift)
  IN IF MayRenew(old, gift)
     THEN [b EXCEPT !.list[i] = new,
                    !.varSpeed = @ - GivesSpeed(old) + GivesSpeed(new),
                    !.varSkill = @ - GivesSkill(old) + GivesSkill(new)]
     ELSE b

Added(b, gift, force) ==
  IF ~force /\ gift.type = "haste" /\ HasCondition(b.list, "paralyze") /\ walkDelay > 0
  THEN Scheduled(b, AddLater(gift))
  ELSE IF GetCondition(b.list, Key(gift)) THEN Updated(b, gift)
  ELSE Started(b, Fresh(gift))

(* Player::onCombatRemoveCondition: what an item gives stays; a player who  *)
(* has just acted keeps the rest until he may act again.                    *)
Dispelled(b, condition, delay) ==
  IF condition.id = "slot" THEN b
  ELSE IF delay = 0 THEN RemovedOne(b, condition, FALSE)
  ELSE [b EXCEPT !.list = [i \in DOMAIN @ |-> IF @[i] = condition
                                              THEN SetTicks(condition, delay - 1)
                                              ELSE @[i]]]

(* executeConditions goes through a copy of the list.                       *)
Executed(b, condition) ==
  IF condition.ticks = -1 THEN b
  ELSE IF condition.left < 0 THEN Ended(b, condition)
  ELSE [b EXCEPT !.list = [i \in DOMAIN @ |->
                             IF @[i] = condition
                             THEN [condition EXCEPT !.ticks = IF @ > 0 THEN @ - 1 ELSE 0]
                             ELSE @[i]]]

Later(b) ==
  [b EXCEPT !.list = [i \in DOMAIN @ |-> [@[i] EXCEPT !.left = IF @ >= 0 THEN @ - 1 ELSE -1]],
            !.events = [i \in DOMAIN @ |-> [@[i] EXCEPT !.due = IF @ > 0 THEN @ - 1 ELSE 0]]]

IsPersistent(condition) == condition.ticks # -1 /\ condition.id \in {"default", "combat"}

-----------------------------------------------------------------------------
Init ==
  /\ body = NoBody /\ walkDelay = 0
  /\ stored = <<>> /\ inWorld = TRUE

MaySchedule == inWorld /\ Len(body.events) < MaxEvents

(* A spell, an item or a script gives a condition.                          *)
Give(gift, force) ==
  /\ MaySchedule /\ Len(body.list) < MaxList
  /\ body' = Added(body, gift, force)
  /\ UNCHANGED <<walkDelay, stored, inWorld>>

(* creature:removeCondition of a script.                                    *)
Take(i, force) ==
  /\ MaySchedule
  /\ body' = RemovedOne(body, body.list[i], force)
  /\ UNCHANGED <<walkDelay, stored, inWorld>>

(* Spells that cure, removeCombatCondition.                                 *)
Dispel(type, delay) ==
  /\ MaySchedule
  /\ body' = FoldLeft(LAMBDA b, c : Dispelled(b, c, delay), body,
                      SelectSeq(body.list, LAMBDA c : c.type = type))
  /\ UNCHANGED <<walkDelay, stored, inWorld>>

(* The player attacks or is attacked; attacking another player locks.       *)
Fight(pzlock) ==
  LET infight == [type |-> "infight", id |-> "default", amount |-> 0, ticks |-> PzTicks]
  IN /\ MaySchedule /\ Len(body.list) < MaxList
     /\ body' = Added([body EXCEPT !.pzLocked = @ \/ pzlock], infight, FALSE)
     /\ UNCHANGED <<walkDelay, stored, inWorld>>

Step(duration) ==
  /\ inWorld /\ walkDelay = 0 /\ walkDelay' = duration
  /\ UNCHANGED <<body, stored, inWorld>>

(* An interval passes; the check of the creature at its end may be late.    *)
(* A change of speed changes what is left of a step.                        *)
Interval(checked) ==
  /\ inWorld
  /\ walkDelay' \in {d \in 0..MaxStep : walkDelay = 0 => d = 0}
  /\ body' = LET b == Later(body) IN IF checked THEN FoldLeft(Executed, b, b.list) ELSE b
  /\ UNCHANGED <<stored, inWorld>>

(* forceAddCondition and forceRemoveCondition of the game, run by the       *)
(* dispatcher once the time of the event has come.                          *)
Fire(i) ==
  LET event == body.events[i]
      b == [body EXCEPT !.events = RemoveAt(@, i)]
  IN /\ inWorld /\ event.due = 0
     /\ body' = IF event.what = "add" THEN Added(b, event.gift, TRUE)
                ELSE RemovedType(b, "paralyze", TRUE)
     /\ UNCHANGED <<walkDelay, stored, inWorld>>

(* Player::death, in the arena, where the player stays in the world.        *)
Die ==
  /\ inWorld
  /\ body' = EndedAll(body, SelectSeq(body.list, IsPersistent))
  /\ UNCHANGED <<walkDelay, stored, inWorld>>

(* The player is saved and leaves; the next login loads a new object and    *)
(* gives it what was saved, which loadPlayer has put in reverse order.      *)
Logout ==
  /\ inWorld /\ inWorld' = FALSE
  /\ stored' = Reverse(SelectSeq(body.list, IsPersistent))
  /\ body' = NoBody /\ walkDelay' = 0

Login ==
  /\ ~inWorld /\ inWorld' = TRUE
  /\ body' = FoldLeft(LAMBDA b, c : Added(b, c, FALSE), NoBody, stored)
  /\ stored' = <<>>
  /\ UNCHANGED walkDelay

Next ==
  \/ \E gift \in Gifts, force \in BOOLEAN : Give(gift, force)
  \/ \E i \in DOMAIN body.list, force \in BOOLEAN : Take(i, force)
  \/ \E type \in {g.type : g \in Gifts}, delay \in 0..MaxDelay : Dispel(type, delay)
  \/ \E pzlock \in BOOLEAN : Fight(pzlock)
  \/ \E duration \in 1..MaxStep : Step(duration)
  \/ \E checked \in BOOLEAN : Interval(checked)
  \/ \E i \in DOMAIN body.events : Fire(i)
  \/ Die \/ Logout \/ Login

Spec == Init /\ [][Next]_vars

-----------------------------------------------------------------------------
Sum(list, Of(_)) == FoldLeft(LAMBDA n, c : n + Of(c), 0, list)

(* There is one condition of a type and an id.                              *)
OneOfAKind ==
  \A i, j \in DOMAIN body.list : Key(body.list[i]) = Key(body.list[j]) => i = j

(* What conditions have changed in the creature is what those on the list   *)
(* change, however they came, were renewed or went: speed, skills, whether  *)
(* it is shown, and the lock of a fight, which the end of the fight lifts.  *)
NothingSticks ==
  /\ body.varSpeed = Sum(body.list, GivesSpeed)
  /\ body.varSkill = Sum(body.list, GivesSkill)
  /\ body.visible = ~IsInvisible(body.list)
  /\ body.pzLocked => InList(body.list, LAMBDA c : c.type = "infight")

(* Nobody is hasty and paralysed, but for the time until a removal that is  *)
(* scheduled; or one of the two was over and was renewed before a check     *)
(* took it off: then the code forgets to ask for the other.                 *)
HasteOrParalysis ==
  LET Both == HasCondition(body.list, "haste") /\ HasCondition(body.list, "paralyze")
  IN Both => \/ InList(body.events, LAMBDA e : e.what = "remove")
             \/ InList(body.list, LAMBDA c : c.type \in Speed /\ c.late)

ConditionsInv == OneOfAKind /\ NothingSticks /\ HasteOrParalysis
=============================================================================
