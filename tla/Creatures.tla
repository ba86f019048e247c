------------------------------ MODULE Creatures ------------------------------
(***************************************************************************)
(* The creatures of the world: how they see, target, master and release    *)
(* each other (creature.cpp, monster.cpp and the creature part of          *)
(* game.cpp).  Everything runs on the dispatcher, each action is a whole   *)
(* task with the callbacks it makes on all spectators.  An object is freed *)
(* as soon as its reference counter is zero; attackedCreature,             *)
(* followCreature and master are pointers that count nothing.              *)
(*                                                                         *)
(* Who is in the same place sees each other, and nobody is invisible.  All *)
(* monsters are hostile.  friendList, which is kept like targetList and    *)
(* used by healing spells only, guardians and duelists are left out, and   *)
(* so is what scripts veto.                                                *)
(***************************************************************************)
EXTENDS Naturals, FiniteSets, FiniteSetsExt, TLC

CONSTANTS
  Players, Monsters, None,
  Places,
  MaxSummons,  \* MonsterInfo::maxSummons
  MaxDying     \* bound: nobody is hurt to death while so many wait to die

ASSUME CreaturesAssumption ==
  /\ IsFiniteSet(Players) /\ IsFiniteSet(Monsters)
  /\ Players \cap Monsters = {} /\ None \notin Players \cup Monsters
  /\ MaxSummons \in Nat /\ MaxDying \in Nat \ {0}

All == Players \cup Monsters

VARIABLES
  creature,  \* every object, see TypeOK
  alive      \* the process: it may end where an iterator is used after its
             \* node was erased

vars == <<creature, alive>>

(* place: the position, kept after the removal.  refs: referenceCounter.    *)
(* check, listed: creatureCheck and inCheckCreaturesVector.  released: how  *)
(* often it is in ToReleaseCreatures.  dead: without health; executeDeath    *)
(* is among the tasks of the dispatcher.                                    *)
TypeOK ==
  /\ creature \in
       [All -> [state : {"new", "world", "removed", "freed"},
                place : Places \cup {None},
                dead : BOOLEAN, refs : Nat, check : BOOLEAN, listed : BOOLEAN,
                released : 0..2, master : All \cup {None}, summons : SUBSET All,
                attacked : All \cup {None}, followed : All \cup {None},
                targets : SUBSET All]]
  /\ alive \in BOOLEAN

(* What is not yet there, and what is kept of an object that was freed.     *)
Blank(state) ==
  [state |-> state, place |-> None, dead |-> FALSE, refs |-> 0,
   check |-> FALSE, listed |-> FALSE, released |-> 0, master |-> None,
   summons |-> {}, attacked |-> None, followed |-> None, targets |-> {}]

Init ==
  /\ creature = [c \in All |-> Blank("new")]
  /\ alive = TRUE

(* Variants of the operators below, each with one slip a change of this     *)
(* code could make; the runs must notice them.                              *)
StillThere(cs) == {c \in All : cs[c].state \in {"world", "removed"}}
OnlyTheOther(cs, s, c, t) == t # None /\ c = t /\ cs[s].place # cs[c].place
AlwaysReferenced(cs, s, c) ==
  [cs EXCEPT ![s].targets = @ \cup {c}, ![c].refs = @ + 1]
ChecksOn(cs, c) == cs

-----------------------------------------------------------------------------
(* Below, cs is a value of creature in the middle of a task.  InSight are   *)
(* the spectators of a creature, itself included.                           *)
Sees(cs, s, c) == cs[s].place = cs[c].place
InWorld(cs) == {c \in All : cs[c].state = "world"}
At(cs, x) == {c \in InWorld(cs) : cs[c].place = x}
InSight(cs, c) == At(cs, cs[c].place)

IsSummon(cs, c) == cs[c].master # None

IsOpponent(cs, s, c) ==
  /\ cs[c].summons = {}
  /\ IF cs[s].master \in Players
     THEN cs[c].master # cs[s].master /\ c # cs[s].master
     ELSE c \in Players \/ cs[c].master \in Players

(* Each creature of S is referenced once less. *)
Dropped(cs, S) ==
  [c \in S |-> [cs[c] EXCEPT !.refs = @ - 1]] @@ cs

WithTarget(cs, s, c) ==
  IF c \in cs[s].targets THEN cs
  ELSE [cs EXCEPT ![s].targets = @ \cup {c}, ![c].refs = @ + 1]

WithoutTargets(cs, s, S) ==
  [Dropped(cs, S \cap cs[s].targets) EXCEPT ![s].targets = @ \ S]

-----------------------------------------------------------------------------
(* Thinking: who has targets is on the list of Game::checkCreatures.        *)

AddCheck(cs, c) ==
  [cs EXCEPT ![c].check = TRUE, ![c].listed = TRUE,
             ![c].refs = IF cs[c].listed THEN @ ELSE @ + 1]
RemoveCheck(cs, c) == [cs EXCEPT ![c].check = @ /\ ~cs[c].listed]

SetIdle(cs, m, idle) ==
  IF cs[m].state = "removed" \/ cs[m].dead THEN cs
  ELSE IF idle THEN RemoveCheck(WithoutTargets(cs, m, All), m)
  ELSE AddCheck(cs, m)

UpdateIdleStatus(cs, m) ==
  SetIdle(cs, m, ~IsSummon(cs, m) /\ cs[m].targets = {})

OnCreatureFound(cs, m, c) ==
  IF m = c \/ ~Sees(cs, m, c) THEN cs
  ELSE UpdateIdleStatus(IF IsOpponent(cs, m, c) THEN WithTarget(cs, m, c) ELSE cs, m)

OnCreatureLeave(cs, m, c) ==
  IF ~IsOpponent(cs, m, c) THEN cs
  ELSE LET l == WithoutTargets(cs, m, {c})
       IN  IF l[m].targets = {} THEN UpdateIdleStatus(l, m) ELSE l

UpdateTargetList(cs, m) ==
  LET kept == WithoutTargets(cs, m, {t \in All : cs[t].dead \/ ~Sees(cs, m, t)})
  IN  FoldSet(LAMBDA c, acc : OnCreatureFound(acc, m, c), kept, InSight(cs, m))

-----------------------------------------------------------------------------
(* The pointers. *)

(* setAttackedCreature.  Summons are sent after their master's target as    *)
(* far as they see it; a player chases what he attacks (chaseMode).         *)
SetAttackedCreature(cs, s, c) ==
  LET Aim(x) == IF c # None /\ ~Sees(cs, x, c) THEN None ELSE c
      sent == IF Aim(s) = c THEN cs[s].summons ELSE {}
  IN  [x \in {s} \cup sent |->
         [cs[x] EXCEPT
            !.attacked = Aim(x),
            !.followed = IF x = s /\ s \in Players /\ Aim(s) = c THEN c ELSE @]] @@ cs

SetFollowCreature(cs, s, c) ==
  IF c = None \/ cs[s].followed = c \/ Sees(cs, s, c)
  THEN [cs EXCEPT ![s].followed = c]
  ELSE LET lost == [cs EXCEPT ![s].followed = None]
       IN  IF s \in Players THEN SetAttackedCreature(lost, s, None) ELSE lost

(* isTarget and selectTarget *)
SelectTarget(cs, m, c) ==
  IF cs[c].state = "removed" \/ cs[c].summons # {} \/ c \notin cs[m].targets
  THEN cs
  ELSE SetFollowCreature(SetAttackedCreature(cs, m, c), m, c)

OnCreatureDisappear(cs, s, c) ==
  LET a == IF cs[s].attacked = c THEN SetAttackedCreature(cs, s, None) ELSE cs
  IN  IF a[s].followed = c THEN SetFollowCreature(a, s, None) ELSE a

(* setMaster; the list of the master is a counted reference. *)
SetMaster(cs, c, m) ==
  LET old == cs[c].master
      joined == IF m = None THEN cs
                ELSE [cs EXCEPT ![c].refs = @ + 1, ![m].summons = @ \cup {c}]
      left == IF old = None THEN joined
              ELSE [joined EXCEPT ![c].refs = @ - 1, ![old].summons = @ \ {c}]
  IN  [left EXCEPT ![c].master = m]

-----------------------------------------------------------------------------
(* The callbacks, each on one spectator.  The turns of the spectators come  *)
(* in the order of the map: those of first before the creature's own.       *)
InTurn(Turn(_, _), cs, c, spectators, first) ==
  LET others == spectators \ {c}
  IN  FoldSet(Turn, Turn(c, FoldSet(Turn, cs, others \cap first)), others \ first)

OnRemoveCreature(cs, s, c) ==
  LET d == OnCreatureDisappear(cs, s, c)
      m == d[c].master
      e == IF s # c \/ m = None THEN d
           ELSE IF d[m].state = "removed" THEN d ELSE SetMaster(d, c, None)
  IN  IF s \in Players THEN e
      ELSE IF s = c THEN SetIdle(e, s, TRUE)
      ELSE OnCreatureLeave(e, s, c)

OutOfSight(cs, s, c, t) == t # None /\ c \in {s, t} /\ ~Sees(cs, s, t)

(* Creature::onCreatureMove, without the summons that come along. *)
LosesSight(cs, s, c) ==
  LET f == cs[s].followed
      d == IF OutOfSight(cs, s, c, f) THEN OnCreatureDisappear(cs, s, f) ELSE cs
      a == d[s].attacked
  IN  IF OutOfSight(d, s, c, a) THEN OnCreatureDisappear(d, s, a) ELSE d

(* Monster::onCreatureMove.  A monster that follows somebody may find       *)
(* another opponent, blocker, in its way.                                   *)
NoticesMove(cs, m, c, from, to, blocker) ==
  LET seen == IF cs[m].place = to /\ from # to THEN OnCreatureFound(cs, m, c)
              ELSE IF cs[m].place # to THEN OnCreatureLeave(cs, m, c)
              ELSE cs
      d == UpdateIdleStatus(seen, m)
      t == IF d[m].followed # None THEN blocker ELSE c
  IN  IF IsSummon(d, m) \/ t \in {None, m, d[m].followed} THEN d
      ELSE IF IsOpponent(d, m, t) THEN SelectTarget(d, m, t) ELSE d

OnCreatureMove(cs, s, c, from, to, blocker) ==
  LET d == LosesSight(cs, s, c)
  IN  IF s \in Players THEN d
      ELSE IF s = c THEN UpdateIdleStatus(UpdateTargetList(d, s), s)
      ELSE NoticesMove(d, s, c, from, to, blocker)

(* Map::moveCreature of a creature that nobody follows by being moved. *)
MovedAlone(cs, c, to, first, blocker) ==
  LET from == cs[c].place
      d == [cs EXCEPT ![c].place = to]
  IN  InTurn(LAMBDA s, acc : OnCreatureMove(acc, s, c, from, to, blocker),
             d, c, At(d, from) \cup At(d, to), first)

(* Summons that are too far away are moved to their master in its turn. *)
Left(cs, c) == {n \in cs[c].summons : ~Sees(cs, n, c)}

Moved(cs, c, to, first, blocker) ==
  LET from == cs[c].place
      d == [cs EXCEPT ![c].place = to]
      Bring(acc) == FoldSet(LAMBDA n, a : MovedAlone(a, n, to, first, blocker),
                            acc, Left(acc, c))
  IN  InTurn(LAMBDA s, acc : OnCreatureMove(IF s = c THEN Bring(acc) ELSE acc,
                                            s, c, from, to, blocker),
             d, c, At(d, from) \cup At(d, to), first)

(* Game::placeCreature *)
OnCreatureAppear(cs, s, c) ==
  IF s \in Players THEN cs
  ELSE IF s = c THEN UpdateIdleStatus(UpdateTargetList(cs, s), s)
  ELSE OnCreatureFound(cs, s, c)

Placed(cs, c, x) ==
  LET d == [cs EXCEPT ![c].state = "world", ![c].place = x, ![c].refs = 1]
  IN  AddCheck(FoldSet(LAMBDA s, acc : OnCreatureAppear(acc, s, c), d, At(d, x)), c)

(* Game::removeCreature.  The reference of the world goes to                *)
(* ToReleaseCreatures; a removed master keeps its summons in its list.      *)
RemovedAlone(cs, c, first) ==
  IF cs[c].state # "world" THEN cs
  ELSE LET d == InTurn(LAMBDA s, acc : OnRemoveCreature(acc, s, c),
                       cs, c, InSight(cs, c), first)
       IN  RemoveCheck([d EXCEPT ![c].state = "removed", ![c].released = @ + 1], c)

Removed(cs, c, first) ==
  LET d == RemovedAlone(cs, c, first)
  IN  FoldSet(LAMBDA n, acc : RemovedAlone(acc, n, first), d, d[c].summons)

(* The results for every order of turns and, of moves, every creature that  *)
(* may be in the way.                                                       *)
Turns(cs, c, to) == SUBSET ((InSight(cs, c) \cup At(cs, to)) \ {c})
Blockers(cs) == InWorld(cs) \cup {None}

MovedAnyhow(cs, c, to) ==
  {Moved(cs, c, to, first, b) : first \in Turns(cs, c, to), b \in Blockers(cs)}
RemovedAnyhow(cs, c) == {Removed(cs, c, first) : first \in Turns(cs, c, cs[c].place)}

-----------------------------------------------------------------------------
(* decrementReferenceCounter and the destructors.  A destructor may free    *)
(* others; as many rounds as there are creatures reach the end of it.       *)
Unheld(cs) == {c \in All : cs[c].state = "removed" /\ cs[c].refs = 0}

ReleaseSummons(cs, c) ==
  FoldSet(LAMBDA n, acc : SetMaster(SetAttackedCreature(acc, n, None), n, None),
          cs, cs[c].summons)

Freed(cs, c) ==
  [WithoutTargets(ReleaseSummons(cs, c), c, All) EXCEPT ![c] = Blank("freed")]

Deleted(cs) ==
  IF Unheld(cs) = {} THEN cs ELSE
  FoldSet(LAMBDA k, acc : FoldSet(LAMBDA c, a : Freed(a, c), acc, Unheld(acc)),
          cs, 1..Cardinality(All))

(* Monster::death, Monster::convinceCreature and ~Creature go through       *)
(* summons while setMaster erases from it.                                  *)
ErasesWhileIterating(cs, c) == cs[c].summons # {}

Becomes(cs, erased) ==
  LET d == Deleted(cs)
      freed == {c \in All : d[c].state = "freed" /\ cs[c].state # "freed"}
  IN  /\ creature' = d
      /\ alive' \in (IF erased \/ \E c \in freed : ErasesWhileIterating(cs, c)
                     THEN BOOLEAN ELSE {TRUE})

(* changeHealth.  A blow or a cure wakes a monster before it changes its     *)
(* health; down to zero executeDeath becomes a task.                        *)
Wounded(cs, c, dies) ==
  [(IF c \in Monsters THEN SetIdle(cs, c, FALSE) ELSE cs) EXCEPT ![c].dead = @ \/ dies]

DropSummons(cs, c) ==
  FoldSet(LAMBDA n, acc : SetMaster(Wounded(acc, n, TRUE), n, None), cs, cs[c].summons)

-----------------------------------------------------------------------------
(* The tasks. *)

Spawn(c, x) ==
  /\ creature[c].state = "new"
  /\ Becomes(Placed(creature, c, x), FALSE)

(* A step within sight refreshes the list of a monster, too. *)
Walk(c, to) ==
  /\ c \in InWorld(creature) /\ ~creature[c].dead
  /\ \E d \in MovedAnyhow(creature, c, to) : Becomes(d, FALSE)

(* playerSetAttackedCreature, also with no creature or an unknown one. *)
Attack(p, c) ==
  /\ p \in InWorld(creature)
  /\ c \in (InWorld(creature) \ {p}) \cup {None}
  /\ Becomes(SetAttackedCreature(creature, p, c), FALSE)

(* playerFollowCreature *)
Follow(p, c) ==
  /\ p \in InWorld(creature)
  /\ c \in (InWorld(creature) \ {p}) \cup {None}
  /\ Becomes(SetFollowCreature(SetAttackedCreature(creature, p, None), p, c), FALSE)

(* What a summon does in onThink. *)
Obeys(cs, m) ==
  LET master == cs[m].master
      a == cs[m].attacked
  IN  IF a = m THEN SetFollowCreature(cs, m, None)
      ELSE IF a # None THEN SetFollowCreature(cs, m, a)
      ELSE IF cs[master].attacked # None THEN SelectTarget(cs, m, cs[master].attacked)
      ELSE SetFollowCreature(cs, m, master)

(* Monster::onThink.  searchTarget picks any target or none. *)
Searches(cs, m, t) ==
  IF IsSummon(cs, m) THEN Obeys(cs, m)
  ELSE IF t \in cs[m].targets THEN SelectTarget(cs, m, t) ELSE cs

(* onThinkDefense; the master is set when the summon has been placed.       *)
CanSummon(cs, m) ==
  ~IsSummon(cs, m) /\ Cardinality(cs[m].summons) < MaxSummons /\ cs[m].followed # None

Summoned(cs, m, n) == SetMaster(Placed(cs, n, cs[m].place), n, m)

Think(m, t, n) ==
  LET awake == UpdateIdleStatus(creature, m)
      d == Searches(awake, m, t)
  IN  /\ creature[m].listed /\ creature[m].check /\ ~creature[m].dead
      /\ IF ~awake[m].check THEN n = None /\ Becomes(awake, FALSE)
         ELSE IF n = None THEN Becomes(d, FALSE)
         ELSE /\ creature[n].state = "new" /\ CanSummon(d, m)
              /\ Becomes(Summoned(d, m, n), FALSE)

(* convinceCreature *)
IsFriend(cs, m, c) ==
  IF cs[m].master \in Players THEN cs[m].master \in {c, cs[c].master}
  ELSE c \in Monsters /\ ~IsSummon(cs, c)

Refreshed(cs, m) == UpdateIdleStatus(UpdateTargetList(cs, m), m)

Convinced(cs, p, m) ==
  LET a == SetMaster(cs, m, p)
      b == IF a[p].attacked # None THEN SetAttackedCreature(a, p, a[p].attacked)
           ELSE SetAttackedCreature(a, m, None)
      d == Refreshed(DropSummons(SetFollowCreature(b, m, None), m), m)
  IN  FoldSet(LAMBDA s, acc : IF IsFriend(acc, s, m) \/ IsOpponent(acc, s, m)
                              THEN Refreshed(acc, s) ELSE acc,
              d, InSight(d, p) \cap Monsters)

Convince(p, m) ==
  /\ {p, m} \subseteq InWorld(creature) /\ Sees(creature, p, m)
  /\ creature[m].master \notin Players
  /\ Becomes(Convinced(creature, p, m), ErasesWhileIterating(creature, m))

(* combatChangeHealth and its like, to death or not. *)
ChangeHealth(c, dies) ==
  /\ c \in InWorld(creature) /\ ~creature[c].dead
  /\ dies => Cardinality({d \in InWorld(creature) : creature[d].dead}) < MaxDying
  /\ Becomes(Wounded(creature, c, dies), FALSE)

(* onFollowCreatureComplete, which checkFollow calls for a removed monster   *)
(* too.  A summon that found no path to its target forgets it; others only  *)
(* move it to the end of their list.                                        *)
LosesPath(m) ==
  /\ creature[m].state \in {"world", "removed"} /\ IsSummon(creature, m)
  /\ creature[m].followed \in creature[m].targets
  /\ Becomes(WithoutTargets(creature, m, {creature[m].followed}), FALSE)

(* onDeath: death, the end of the servitude, and the removal.               *)
Died(cs, c) ==
  LET a == SetAttackedCreature(cs, c, None)
      b == WithoutTargets(DropSummons(a, c), c, All)
  IN  IF IsSummon(b, c) THEN SetMaster(b, c, None) ELSE b

MonsterDies(m) ==
  /\ m \in InWorld(creature) /\ creature[m].dead
  /\ \E d \in RemovedAnyhow(Died(creature, m), m) :
       Becomes(d, ErasesWhileIterating(creature, m))

(* A player has his health again, and is removed or, in an arena, sent to   *)
(* the temple.                                                              *)
PlayerDies(p) ==
  LET saved == [creature EXCEPT ![p].dead = FALSE] IN
  /\ p \in InWorld(creature) /\ creature[p].dead
  /\ \/ \E d \in RemovedAnyhow(saved, p) : Becomes(d, FALSE)
     \/ \E to \in Places : \E d \in MovedAnyhow(saved, p, to) : Becomes(d, FALSE)

(* A logout, a despawn or a script. *)
Remove(c) ==
  /\ c \in InWorld(creature)
  /\ \E d \in RemovedAnyhow(creature, c) : Becomes(d, FALSE)

(* checkCreatures takes those without creatureCheck off its list, and       *)
(* cleanup gives up what was released; it also follows other tasks.         *)
Unlisted(S) ==
  [c \in S |-> [creature[c] EXCEPT !.listed = FALSE, !.released = @ + 1]] @@ creature
Cleaned(cs) ==
  [c \in All |-> [cs[c] EXCEPT !.refs = @ - cs[c].released, !.released = 0]]

Cleanup(S) ==
  /\ \A c \in S : creature[c].listed /\ ~creature[c].check
  /\ Becomes(Cleaned(Unlisted(S)), FALSE)

Step ==
  \/ \E c \in All, x \in Places : Spawn(c, x) \/ Walk(c, x)
  \/ \E p \in Players, c \in All \cup {None} : Attack(p, c) \/ Follow(p, c)
  \/ \E m \in Monsters, n \in Monsters \cup {None} :
       \E t \in creature[m].targets \cup {None} : Think(m, t, n)
  \/ \E p \in Players, m \in Monsters : Convince(p, m)
  \/ \E c \in All : Remove(c) \/ \E dies \in BOOLEAN : ChangeHealth(c, dies)
  \/ \E m \in Monsters : LosesPath(m) \/ MonsterDies(m)
  \/ \E p \in Players : PlayerDies(p)
  \/ \E S \in SUBSET {c \in All : creature[c].listed} : Cleanup(S)

Next == alive /\ Step

Spec == Init /\ [][Next]_vars

-----------------------------------------------------------------------------
Objects == {c \in All : creature[c].state \in {"world", "removed"}}

(* Who holds a counted reference to c. *)
Holders(c) ==
  {h \in Objects \X {"target", "summon"} :
     c \in (IF h[2] = "target" THEN creature[h[1]].targets
            ELSE creature[h[1]].summons)}

(* The counter of every object is the number of its holders, over all the   *)
(* paths that drop it: one too few frees a creature under a monster that    *)
(* has it as a target, one too many keeps it for ever.                      *)
ReferencesHeld ==
  \A c \in Objects :
    creature[c].refs = Cardinality(Holders(c)) + creature[c].released
                       + (IF creature[c].state = "world" THEN 1 ELSE 0)
                       + (IF creature[c].listed THEN 1 ELSE 0)

(* No object points at a freed one: a master at its summons and they at     *)
(* their master tell the same, and a summon in the world has its master     *)
(* there.                                                                   *)
Servitude ==
  \A c \in Objects :
    /\ creature[c].targets \cup creature[c].summons \subseteq Objects
    /\ \A n \in All : n \in creature[c].summons <=> n \in Objects /\ creature[n].master = c
    /\ creature[c].master # None => creature[c].master \in Objects /\ creature[c].summons = {}
    /\ creature[c].state = "world" /\ creature[c].master # None
         => creature[creature[c].master].state = "world"

(* The uncounted pointers of a creature in the world: what it attacks or    *)
(* follows is in the world and in its sight, however either was moved, by   *)
(* itself, by death or along with its master.                               *)
AimsAreInSight ==
  \A c \in InWorld(creature) :
    \A t \in {creature[c].attacked, creature[c].followed} \ {None} :
      t \in InWorld(creature) /\ Sees(creature, c, t)

(* A monster that has a target, or a master, thinks: nobody falls asleep    *)
(* over a target.  A removed one thinks no more and has let go of its       *)
(* targets, unless it was dead already when it was removed.                 *)
Awake ==
  \A m \in Monsters :
    /\ m \in InWorld(creature) /\ ~creature[m].dead
         /\ (creature[m].targets # {} \/ IsSummon(creature, m))
       => creature[m].check /\ creature[m].listed
    /\ creature[m].state = "removed" =>
         ~creature[m].check /\ (creature[m].targets = {} \/ creature[m].dead)

CreaturesInv ==
  alive => TypeOK /\ ReferencesHeld /\ Servitude /\ AimsAreInSight /\ Awake

(* Nobody takes a new hold of a creature that was removed, so it is freed    *)
(* once those who hold it let go.                                           *)
RemovedStayRemoved ==
  [][\A c \in All :
       creature[c].state = "removed" /\ alive' =>
         /\ creature'[c].state \in {"removed", "freed"}
         /\ creature'[c].refs <= creature[c].refs]_vars
=============================================================================
