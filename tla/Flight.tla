------------------------------- MODULE Flight -------------------------------
(***************************************************************************)
(* Where a monster steps that flees from a target or keeps its distance    *)
(* from it (monster.cpp, and word for word in duelist.cpp).                *)
(* getDistanceStep is one branch for each place of the target around the   *)
(* monster; the branches are the same up to a turn of the map, so a step   *)
(* is a pair of -1, 0 and 1 here and `away` is the direction from the      *)
(* target to the monster.  A step is decided in goToFollowCreature and     *)
(* made when the creature walks, when the target may be somewhere else.    *)
(*                                                                         *)
(* Which fields can be walked on is chosen at every decision; a path of    *)
(* the A* search is one step of it.                                        *)
(***************************************************************************)
EXTENDS Integers, Sequences, FiniteSets

CONSTANTS
  TargetDistance,  \* targetDistance of the monster's type
  Reach            \* bound: how far monster and target get from each other

VARIABLES
  offset,        \* the monster's position less the target's
  listWalkDir,   \* the step it has been told to make, None if there is none
  hasFollowPath,
  stepDuration,
  fleeing        \* isFleeing: its health is low

vars == <<offset, listWalkDir, hasFollowPath, stepDuration, fleeing>>

None == <<0, 0>>
Steps == ((-1..1) \X (-1..1)) \ {None}
Cardinals == {d \in Steps : d[1] = 0 \/ d[2] = 0}
Offsets == (-Reach..Reach) \X (-Reach..Reach)

TypeOK ==
  /\ offset \in Offsets /\ listWalkDir \in Steps \cup {None}
  /\ hasFollowPath \in BOOLEAN /\ stepDuration \in 0..2 /\ fleeing \in BOOLEAN

Init ==
  /\ offset = <<Reach, Reach>> /\ listWalkDir = None
  /\ hasFollowPath = FALSE /\ stepDuration = 0 /\ fleeing = FALSE

Abs(n) == IF n < 0 THEN -n ELSE n
Sign(n) == IF n < 0 THEN -1 ELSE IF n > 0 THEN 1 ELSE 0
Larger(m, n) == IF m > n THEN m ELSE n
Plus(p, d) == <<p[1] + d[1], p[2] + d[2]>>
Minus(d) == <<-d[1], -d[2]>>

(* Position::getDistanceX and Y, and the larger of the two. *)
Distance(p) == Larger(Abs(p[1]), Abs(p[2]))
Walked(p) == Abs(p[1]) + Abs(p[2])
Diagonal(p) == Abs(p[1]) = Abs(p[2])

(* The choices of the first row that leaves any. *)
FirstOf(rows) ==
  LET left == {i \in DOMAIN rows : rows[i] # {}}
  IN IF left = {} THEN {None} ELSE rows[CHOOSE i \in left : \A j \in left : i <= j]

OpenPair(open, ds) == IF ds \subseteq open THEN ds ELSE {}
If(condition, ds) == IF condition THEN ds ELSE {}

(* Variants of the operators, each with one slip a change of this code     *)
(* could make; the runs must notice them.                                  *)
OneOfEach(p) == {<<Sign(p[1]), 0>>, <<0, -Sign(p[2])>>}
EitherSide(p) == {d \in Cardinals : Abs(d[1]) = IF Abs(p[2]) > Abs(p[1]) THEN 1 ELSE 0}
StandsStill(p) == {}

-----------------------------------------------------------------------------
(* getDistanceStep. *)

(* The target is on a diagonal.  The two steps that go away, the one between *)
(* them, then, if it flees, the two that go towards the target's row and     *)
(* column; otherwise one of these, if the field beside it is open as well.   *)
Leaving(p) == {<<Sign(p[1]), 0>>, <<0, Sign(p[2])>>}

DiagonalStep(open, p, flee) ==
  LET away == <<Sign(p[1]), Sign(p[2])>>
      horizontal == <<-away[1], 0>>
      vertical == <<0, -away[2]>>
      Sidestep(d) == If({d, Plus(d, Plus(d, away))} \subseteq open, {d})
      first == IF away = <<-1, -1>> THEN vertical ELSE horizontal
      second == Plus(Minus(away), Minus(first))
  IN FirstOf(<<open \cap Leaving(p), open \cap {away},
               If(flee, open \cap {horizontal, vertical}),
               Sidestep(first), Sidestep(second)>>)

(* The target is nearer to the monster's row or column.  Straight away; to   *)
(* the side that does not come nearer; if it flees, to either side; the      *)
(* diagonals that go away or, if only one of them is open, a side first;     *)
(* and only then, if it flees, towards the target.                           *)
Sides(p) == {d \in Cardinals : Abs(d[1]) = IF Abs(p[2]) > Abs(p[1]) THEN 1 ELSE 0}
Outward(p) == {d \in Sides(p) : d[1] * p[1] + d[2] * p[2] >= 0}

StraightStep(open, p, flee) ==
  LET away == IF Abs(p[2]) > Abs(p[1]) THEN <<0, Sign(p[2])>> ELSE <<Sign(p[1]), 0>>
      first == IF away[1] = 0 THEN <<-1, 0>> ELSE <<0, away[1]>>
      second == Minus(first)
      diagonals == {Plus(away, first), Plus(away, second)}
      oneOpen == open \cap diagonals # {}
  IN FirstOf(<<open \cap {away}, open \cap Outward(p),
               If(flee, open \cap Sides(p)),
               OpenPair(open, diagonals),
               If(oneOpen, open \cap {first}), open \cap {Plus(away, first)},
               If(oneOpen, open \cap {second}), open \cap {Plus(away, second)},
               If(flee, open \cap {Minus(away)})>>)

(* getRandomStep. *)
RandomStep(open) == FirstOf(<<open \cap Cardinals>>)

DistanceStep(open, p, flee) ==
  IF p = <<0, 0>> THEN RandomStep(open)
  ELSE IF Diagonal(p) THEN DiagonalStep(open, p, flee)
  ELSE StraightStep(open, p, flee)

(* What it may come to, whichever fields are open. *)
DistanceSteps(flee) == UNION {DistanceStep(open, offset, flee) : open \in SUBSET Steps}

(* It is slowed down by a target that is near. *)
Slowed ==
  IF Distance(offset) <= 1
  THEN IF stepDuration < 2 THEN stepDuration + 1 ELSE stepDuration
  ELSE IF stepDuration > 0 THEN stepDuration - 1 ELSE stepDuration

-----------------------------------------------------------------------------
(* goToFollowCreature. *)

Told(d) ==
  IF d = None THEN UNCHANGED <<listWalkDir, hasFollowPath>>
  ELSE listWalkDir' = d /\ hasFollowPath' = TRUE

Flee ==
  /\ fleeing
  /\ \E d \in DistanceSteps(TRUE) : Told(d)
  /\ stepDuration' = Slowed
  /\ UNCHANGED <<offset, fleeing>>

(* The A* search takes over when the target is too far or out of sight,     *)
(* when it stands on the monster, which has no field to step to, and always *)
(* for a monster that fights hand to hand.                                  *)
Search ==
  \/ \E d \in Steps : listWalkDir' = d /\ hasFollowPath' = TRUE
  \/ listWalkDir' = None /\ hasFollowPath' = FALSE

KeepDistance ==
  /\ ~fleeing
  /\ UNCHANGED <<offset, fleeing>>
  /\ \/ Search /\ UNCHANGED stepDuration
     \/ /\ TargetDistance > 1 /\ Distance(offset) = TargetDistance
        /\ UNCHANGED <<listWalkDir, hasFollowPath, stepDuration>>
     \/ /\ TargetDistance > 1 /\ Distance(offset) < TargetDistance
        /\ stepDuration' = Slowed
        /\ \E d \in DistanceSteps(FALSE) :
             IF d = None /\ offset = <<0, 0>> THEN Search ELSE Told(d)

-----------------------------------------------------------------------------
(* getNextStep and onWalk. *)

(* getDanceStep: to a side that keeps the distance.  keepAttack: only where  *)
(* it could attack as it can now; keepDistance: not to walk off.             *)
DanceSteps(open, reached, canDoAttackNow, keepAttack, keepDistance) ==
  {d \in open \cap Cardinals :
     /\ keepDistance => d[1] * offset[1] + d[2] * offset[2] <= 0
     /\ Distance(Plus(offset, d)) = Distance(offset)
     /\ keepAttack /\ canDoAttackNow => d \in reached}

NextSteps(open, reached) ==
  IF ~hasFollowPath THEN RandomStep(open)
  ELSE IF listWalkDir # None THEN {listWalkDir}
  ELSE DanceSteps(open, reached, TRUE, ~fleeing, ~fleeing) \cup {None}

(* The step may fail, the field having been taken. *)
Walk ==
  /\ \E d \in UNION {NextSteps(open, reached) : open, reached \in SUBSET Cardinals} :
       offset' \in {offset, Plus(offset, d)}
  /\ offset' \in Offsets
  /\ listWalkDir' = None
  /\ UNCHANGED <<hasFollowPath, stepDuration, fleeing>>

(* The target walks, or the monster is hurt or healed. *)
TargetWalks ==
  /\ \E d \in Steps : offset' = Plus(offset, d) /\ offset' \in Offsets
  /\ UNCHANGED <<listWalkDir, hasFollowPath, stepDuration, fleeing>>

HealthChanges ==
  /\ fleeing' = ~fleeing
  /\ UNCHANGED <<offset, listWalkDir, hasFollowPath, stepDuration>>

Next == Flee \/ KeepDistance \/ Walk \/ TargetWalks \/ HealthChanges

Spec == Init /\ [][Next]_vars

-----------------------------------------------------------------------------
(* Properties. *)

(* Monster::getDistanceStep against what fleeing is, wherever the target is  *)
(* and whatever fields are open.  It only steps on open fields; when a step  *)
(* to the north, south, east or west would take it further off, by either    *)
(* measure of distance, so does the step it makes; it comes nearer only if   *)
(* it flees and has no other of these steps left, and then it does not stand *)
(* still as long as it has one.                                              *)
GetsAway(p) ==
  \A open \in SUBSET Steps, flee \in BOOLEAN :
       LET steps == DistanceStep(open, p, flee)
           ways == open \cap Cardinals
           Nearer(d) == Distance(Plus(p, d)) < Distance(p)
           Further(d) == Distance(Plus(p, d)) > Distance(p)
           Longer(d) == Walked(Plus(p, d)) > Walked(p)
       IN /\ steps \ {None} \subseteq open
          /\ (\E d \in ways : Further(d)) => \A d \in steps : Further(d)
          /\ (\E d \in ways : Longer(d)) => \A d \in steps : Longer(d)
          /\ \A d \in steps : Nearer(d) => flee /\ ways = {d}
          /\ flee /\ ways # {} => None \notin steps

SafeOffsets == {p \in Offsets : GetsAway(p)}

FlightInv == TypeOK /\ offset \in SafeOffsets
=============================================================================
