------------------------------- MODULE Combat -------------------------------
(***************************************************************************)
(* Harm, healing and death of one creature: Game::combatChangeHealth and   *)
(* executeDeath, the health, damageMap and death of Creature, Player and   *)
(* Monster, ConditionDamage and ConditionRegeneration.                     *)
(*                                                                         *)
(* Who falls to no health does not die at once: changeHealth queues a task *)
(* of the dispatcher, and other tasks come before it.  Nothing heals a     *)
(* creature without health but a regeneration that comes after the poison  *)
(* in the same check of its conditions, and being saved.                   *)
(*                                                                         *)
(* A dealer is whom damage is credited to: the player for his summons, a   *)
(* wild monster for itself.  What a blow amounts to is any number; scripts *)
(* may veto a fatal one (PREPAREDEATH).  A poison whose owner is in the    *)
(* world does no damage: combatChangeHealth then replaces its value by the *)
(* power of a spell without a name, of which there is none.                *)
(***************************************************************************)
EXTENDS Integers, Sequences, FiniteSets

LOCAL INSTANCE SequencesExt
LOCAL INSTANCE Functions

CONSTANTS
  Dealers, Hunters, \* Hunters: the dealers that are players
  NoDealer,
  MaxHealth,
  MaxHit,      \* the strongest blow
  Experience,  \* what killing the creature is worth
  Poisons,     \* records of amount, start, first (the bite at once), delayed, force
  TickInterval, \* between two rounds of a poison, in intervals of the checks
  RegenTicks, RegenGain,
  Width,       \* totalDamage is kept modulo this: 2^32 in the code
  MaxTotal,    \* bound: nobody strikes once this much damage is credited
  MaxTasks     \* bound: nothing harms once this many deaths are queued

VARIABLES
  kind,       \* monster or player
  health,
  tasks,      \* how many executeDeath the dispatcher has queued
  damageMap, lastHit,
  here,       \* the hunters that are in the world; no matter if a monster is
  list,       \* the conditions: at most a poison and a regeneration
  inWorld,
  paid        \* history: how often experience was given for the creature

vars == <<kind, health, tasks, damageMap, lastHit, here, list, inWorld, paid>>

Least(m, n) == IF m < n THEN m ELSE n
Abs(n) == IF n < 0 THEN -n ELSE n
SumOf(rounds) == FoldLeft(LAMBDA m, n : m + n, 0, rounds)

-----------------------------------------------------------------------------
(* ConditionDamage::generateDamageList: rounds of start, then of one less,  *)
(* and so on down to one; each value is repeated until the sum is as near   *)
(* as it gets to its share of the amount.                                   *)
GenerateDamageList(amount, start) ==
  LET roundsFrom[value \in Nat, sum \in Nat] ==
        IF value = 0 THEN <<>>
        ELSE LET med == ((start + 1 - value) * amount) \div start
                 now == sum + value
                 again == med > 0 /\ Abs(med - now - value) < Abs(med - now)
             IN <<value>> \o roundsFrom[IF again THEN value ELSE value - 1, now]
  IN roundsFrom[start, 0]

(* What the rounds sum up to: the amount that was drawn, unless a round of  *)
(* each value is already more.                                              *)
Whole(amount, start) ==
  LET least == (start * (start + 1)) \div 2 IN IF amount > least THEN amount ELSE least

Fresh(poison, owned) ==
  LET rounds == GenerateDamageList(poison.amount, poison.start)
  IN [type |-> "poison", rounds |-> rounds, timeLeft |-> TickInterval,
      left |-> Len(rounds) * TickInterval, owned |-> owned, delayed |-> poison.delayed,
      amount |-> poison.amount, start |-> poison.start, done |-> 0, late |-> FALSE]

Regeneration == [type |-> "regeneration", left |-> RegenTicks]

Has(type) == \E i \in DOMAIN list : list[i].type = type
IndexOf(type) == CHOOSE i \in DOMAIN list : list[i].type = type

(* getTotalDamage, of a poison that has its rounds and of one that has none. *)
TotalDamage(c) == IF c.rounds = <<>> THEN c.amount ELSE SumOf(c.rounds)

-----------------------------------------------------------------------------
(* What harm and healing do to the health and the queue, as functions of a  *)
(* record of health, tasks and list.                                        *)
Body == [health |-> health, tasks |-> tasks, list |-> list]

(* changeHealth, and the part of combatChangeHealth that cuts the value to  *)
(* the health there is and asks the scripts whether a fatal one may be.     *)
Vetoed(b, value, veto) == b.health = 0 \/ (veto /\ value >= b.health)

(* Variant, not of the code: a blow of exactly what is left does not kill.  *)
DrainedToNothing(b, value, veto) ==
  IF Vetoed(b, value, veto) THEN b
  ELSE [b EXCEPT !.health = IF value < @ THEN @ - value ELSE 0,
                 !.tasks = IF value <= b.health THEN @ ELSE @ + 1]

Drained(b, value, veto) ==
  IF Vetoed(b, value, veto) THEN b
  ELSE [b EXCEPT !.health = IF value < @ THEN @ - value ELSE 0,
                 !.tasks = IF value < b.health THEN @ ELSE @ + 1]

Healed(b, value) == [b EXCEPT !.health = @ + Least(value, MaxHealth - @)]

Replaced(b, c, new) ==
  [b EXCEPT !.list = [i \in DOMAIN @ |-> IF @[i] = c THEN new ELSE @[i]]]
Removed(b, c) == [b EXCEPT !.list = SelectSeq(@, LAMBDA e : e # c)]
Kept(b, c, new) == IF new.left < 0 THEN Removed(b, c) ELSE Replaced(b, c, new)

Bitten(b, c, value, veto) == IF c.owned THEN b ELSE Drained(b, value, veto)

(* Variant, not of the code: the next round is an interval late.            *)
PoppedLate(c) ==
  [c EXCEPT !.rounds = Tail(@), !.done = @ + Head(c.rounds), !.timeLeft = TickInterval + 1]

Popped(c) ==
  [c EXCEPT !.rounds = Tail(@), !.done = @ + Head(c.rounds), !.timeLeft = TickInterval]

(* On a field of its kind a round that is due is not used up, and the time  *)
(* of the poison stands still; but the intervals that the round has waited  *)
(* off the field are not given back.  `late` notes that, or that a check    *)
(* was missed.                                                              *)
Round(c, field) ==
  LET due == c.timeLeft = 1
      held == [c EXCEPT !.left = @ + 1]
  IN CASE ~due /\ ~field -> [c EXCEPT !.timeLeft = @ - 1]
       [] ~due /\ field -> [held EXCEPT !.timeLeft = @ - 1]
       [] due /\ ~field -> Popped(c)
       [] due /\ field -> [held EXCEPT !.timeLeft = TickInterval, !.late = TRUE]

ExecutePoison(b, c, field, veto) ==
  IF c.rounds = <<>> THEN Kept(b, c, c)
  ELSE LET bitten == IF c.timeLeft = 1 THEN Bitten(b, c, Head(c.rounds), veto) ELSE b
       IN Kept(bitten, c, Round(c, field))

ExecuteRegeneration(b, c) == Kept(Healed(b, RegenGain), c, c)

Executed(b, field, veto) ==
  FoldLeft(LAMBDA r, c : IF c.type = "poison" THEN ExecutePoison(r, c, field, veto)
                         ELSE ExecuteRegeneration(r, c), b, b.list)

Later(c, checked) ==
  IF c.type = "poison"
  THEN [c EXCEPT !.left = IF @ >= 0 THEN @ - 1 ELSE -1, !.late = @ \/ ~checked]
  ELSE [c EXCEPT !.left = IF @ >= 0 THEN @ - 1 ELSE -1]

Becomes(b) == health' = b.health /\ tasks' = b.tasks /\ list' = b.list

-----------------------------------------------------------------------------
(* getDamageRatio and getGainedExperience.                                  *)
Total == SumFunction(damageMap)
TotalDamageKept == Total % Width
(* Variant, not of the code: the shares are rounded up.                     *)
RoundedUp(dealer) ==
  IF TotalDamageKept = 0 THEN 0
  ELSE (damageMap[dealer] * Experience + TotalDamageKept - 1) \div TotalDamageKept

GainedExperience(dealer) ==
  IF TotalDamageKept = 0 THEN 0
  ELSE (damageMap[dealer] * Experience) \div TotalDamageKept

NoDamage == [d \in Dealers |-> 0]

Init ==
  /\ kind \in {"monster", "player"}
  /\ health = MaxHealth /\ tasks = 0
  /\ damageMap = NoDamage /\ lastHit = NoDealer /\ here = Hunters
  /\ list = <<>> /\ inWorld = TRUE /\ paid = 0

MayHarm == inWorld /\ tasks < MaxTasks

(* A blow: drainHealth, and then addDamagePoints for what was drained.      *)
Strike(dealer, value, veto) ==
  /\ MayHarm /\ (dealer \in Hunters => dealer \in here) /\ Total < MaxTotal
  /\ Becomes(Drained(Body, value, veto))
  /\ IF Vetoed(Body, value, veto) THEN UNCHANGED <<damageMap, lastHit>>
     ELSE /\ damageMap' = [damageMap EXCEPT ![dealer] = @ + Least(value, health)]
          /\ lastHit' = dealer
  /\ UNCHANGED <<kind, here, inWorld, paid>>

Heal(value) ==
  /\ inWorld /\ health > 0
  /\ Becomes(Healed(Body, value))
  /\ UNCHANGED <<kind, damageMap, lastHit, here, inWorld, paid>>

(* startCondition of the first poison: unless it is delayed it bites before *)
(* it is on the list, and is not taken if the scripts have the bite         *)
(* refused.  Another one is taken if it is stronger than what is left; it   *)
(* keeps the time until the next round, and bites at once unless the first  *)
(* one was delayed.                                                         *)
Infect(poison, owned, veto) ==
  LET old == list[IndexOf("poison")]
      fresh == Fresh(poison, owned)
      time == IF old.rounds = <<>> THEN TickInterval ELSE old.timeLeft
      new == [fresh EXCEPT !.delayed = old.delayed, !.timeLeft = time]
      Bites == ~poison.delayed /\ ~owned
      Refused == Bites /\ health > 0 /\ veto /\ poison.first >= health
      Stronger == poison.force \/ poison.amount > TotalDamage(old)
      first == IF Bites THEN Drained(Body, poison.first, veto) ELSE Body
  IN /\ MayHarm
     /\ IF ~Has("poison") THEN ~Refused /\ Becomes([first EXCEPT !.list = Append(@, fresh)])
        ELSE /\ Stronger
             /\ IF old.delayed THEN Becomes(Replaced(Body, old, new))
                ELSE Becomes(Replaced(Bitten(Body, new, Head(new.rounds), veto), old, Popped(new)))
     /\ UNCHANGED <<kind, damageMap, lastHit, here, inWorld, paid>>

Feed ==
  /\ inWorld /\ ~Has("regeneration")
  /\ Becomes([Body EXCEPT !.list = Append(@, Regeneration)])
  /\ UNCHANGED <<kind, damageMap, lastHit, here, inWorld, paid>>

(* An interval passes.  checkCreatures then runs the conditions, unless it  *)
(* is late; it passes over who has no health.                               *)
Interval(checked, field, veto) ==
  LET runs == checked /\ health > 0
      b == [Body EXCEPT !.list = [i \in DOMAIN @ |-> Later(@[i], runs)]]
  IN /\ MayHarm /\ list # <<>>
     /\ Becomes(IF runs THEN Executed(b, field, veto) ELSE b)
     /\ UNCHANGED <<kind, damageMap, lastHit, here, inWorld, paid>>

(* savePlayer: nobody is stored dead.                                       *)
Save ==
  /\ inWorld /\ kind # "monster" /\ health = 0
  /\ Becomes(Healed(Body, 1))
  /\ UNCHANGED <<kind, damageMap, lastHit, here, inWorld, paid>>

(* onIdleStatus, when the fight of a player ends.                           *)
Idle ==
  /\ inWorld /\ kind # "monster" /\ health > 0
  /\ damageMap' = NoDamage /\ lastHit' = NoDealer
  /\ UNCHANGED <<kind, health, tasks, here, list, inWorld, paid>>

(* A hunter logs out or dies: his id is not given again.                    *)
HunterLeaves(hunter) ==
  /\ inWorld /\ hunter \in here /\ here' = here \ {hunter}
  /\ UNCHANGED <<kind, health, tasks, damageMap, lastHit, list, inWorld, paid>>

OwnerLeaves ==
  /\ inWorld /\ Has("poison") /\ list[IndexOf("poison")].owned
  /\ list' = [list EXCEPT ![IndexOf("poison")].owned = FALSE]
  /\ UNCHANGED <<kind, health, tasks, damageMap, lastHit, here, inWorld, paid>>

(* Variant, not of the code: who has been removed dies again.               *)
DiesAgain(found) == tasks > 0

(* executeDeath: who is no longer in the world is not found.  A player who  *)
(* is killed by another in the arena leaves no corpse and is back in town;  *)
(* everybody else is removed, after a monster has been paid for, and what   *)
(* the creature kept goes with it.                                          *)
Dies(found) == found /\ tasks > 0
StaysAlive(arena) == kind = "player" /\ arena /\ lastHit \in here
ExecuteDeath(arena) ==
  /\ tasks > 0 /\ tasks' = tasks - 1
  /\ IF ~Dies(inWorld) THEN UNCHANGED <<health, damageMap, lastHit, list, inWorld, paid>>
     ELSE /\ damageMap' = NoDamage /\ lastHit' = NoDealer /\ list' = <<>>
          /\ health' = MaxHealth
          /\ IF StaysAlive(arena) THEN UNCHANGED <<inWorld, paid>>
             ELSE /\ inWorld' = FALSE
                  /\ paid' = IF kind = "monster" THEN paid + 1 ELSE paid
  /\ UNCHANGED <<kind, here>>

Next ==
  \/ \E d \in Dealers, value \in 1..MaxHit, veto \in BOOLEAN : Strike(d, value, veto)
  \/ \E value \in 1..MaxHit : Heal(value)
  \/ \E poison \in Poisons, owned, veto \in BOOLEAN : Infect(poison, owned, veto)
  \/ Feed
  \/ \E checked, field, veto \in BOOLEAN : Interval(checked, field, veto)
  \/ Save \/ Idle
  \/ \E d \in Hunters : HunterLeaves(d)
  \/ OwnerLeaves
  \/ \E arena \in BOOLEAN : ExecuteDeath(arena)

Spec == Init /\ [][Next]_vars

-----------------------------------------------------------------------------
(* Who has no health is not left in the world, where no check would ever    *)
(* look at him again: his death is queued.                                  *)
NoneUndead == inWorld /\ health = 0 => tasks > 0

(* A monster is paid for once, however many deaths are queued; and the      *)
(* shares of all who hurt it are no more than it is worth, as long as the   *)
(* damage fits in the counter of 32 bits.                                   *)
PaidOnce == paid <= 1
SharesFit ==
  Total < Width => SumFunction([d \in Dealers |-> GainedExperience(d)]) <= Experience

(* The rounds that are done and those that are left are the whole poison;   *)
(* and there is time for all of them, unless a check has been late or a     *)
(* round has fallen due on a field.                                         *)
RoundsInTime ==
  \A i \in DOMAIN list :
    LET c == list[i]
    IN c.type = "poison" =>
         /\ c.done + SumOf(c.rounds) = Whole(c.amount, c.start)
         /\ c.rounds # <<>> /\ ~c.late =>
              (Len(c.rounds) - 1) * TickInterval + c.timeLeft <= c.left

CombatInv == NoneUndead /\ PaidOnce /\ SharesFit /\ RoundsInTime
=============================================================================
