------------------------------- MODULE Decay -------------------------------
(***************************************************************************)
(* Items that decay (game.cpp, item.cpp).  An item whose time runs is in   *)
(* toDecayItems until the next cleanup and then in one of four buckets, of *)
(* which checkDecay visits one every quarter of a second.  Its time is     *)
(* only counted down at these visits; each entry in a list is a reference. *)
(* Items are transformed, moved and removed without a word to the lists.   *)
(*                                                                         *)
(* Items do not touch each other, so there is one.  Time is counted in     *)
(* eighths of a second.  An item that is replaced by one of another type   *)
(* is removed, and the new one is another item.                            *)
(***************************************************************************)
EXTENDS Integers

CONSTANTS
  Kinds,      \* item types
  DecayTime,  \* of each; 0: it does not decay
  DecayTo,    \* what each becomes: a kind, Vanish or NoDecay
  StopTime,   \* kinds that keep the time they have left
  Durations,  \* times that are left to an item from the map or a player
  MaxEntries, \* bound: entries of the item in the lists
  Vanish, NoDecay

VARIABLES item, lastBucket

vars == <<item, lastBucket>>

Interval == 2          \* EVENT_DECAYINTERVAL
Buckets == 0..3        \* EVENT_DECAY_BUCKETS
Round == 8             \* the time between two visits of a bucket
NoTime == -1           \* no attribute
Early == -6            \* what is left beyond a round is not waited for
Late == 3              \* an item waits for the next cleanup and then for its bucket

(* soon, listed: entries in toDecayItems and in each bucket.  releases: in *)
(* ToReleaseItems.  Histories: due is the time left when it began to run,  *)
(* age the visits of checkDecay since then, timely whether it decayed when *)
(* its time was up, twice whether it was in the lists more than once or    *)
(* got a new time while it was in one; then due and age are not kept.      *)
(* stuck: it counts as decaying although its time is over, because it      *)
(* could not be removed or became a kind that lingers.                     *)
TypeOK ==
  /\ item \in [kind : Kinds, where : {"free", "world", "removed"}, refs : Nat,
               decaying : BOOLEAN, duration : Nat \cup {NoTime}, soon : Nat,
               listed : [Buckets -> Nat], releases : Nat, due : Nat, age : Nat,
               timely : BOOLEAN, twice : BOOLEAN, stuck : BOOLEAN]
  /\ lastBucket \in Buckets

New(kind, where, duration) ==
  [kind |-> kind, where |-> where, refs |-> IF where = "free" THEN 0 ELSE 1,
   decaying |-> FALSE, duration |-> duration, soon |-> 0,
   listed |-> [b \in Buckets |-> 0], releases |-> 0, due |-> 0, age |-> 0,
   timely |-> TRUE, twice |-> FALSE, stuck |-> FALSE]

Nothing == New(CHOOSE k \in Kinds : TRUE, "free", NoTime)

Init == item = Nothing /\ lastBucket = 0

Listed(i) == i.listed[0] + i.listed[1] + i.listed[2] + i.listed[3]
Entries(i) == i.soon + Listed(i)

CanDecay(i) ==
  i.where = "world" /\ DecayTo[i.kind] # NoDecay /\ DecayTime[i.kind] # 0

(* Variants of the operators, each with one slip a change of this code     *)
(* could make; the runs must notice them.                                  *)
PushedUncounted(i) ==
  [i EXCEPT !.decaying = TRUE, !.soon = @ + 1, !.twice = @ \/ Entries(i) > 0,
            !.due = i.duration, !.age = 0]
StaysDecaying(i) == [i EXCEPT !.releases = @ + 1]
InThisBucket(left) == lastBucket'
NoRelease(i) == i

-----------------------------------------------------------------------------
(* Item. *)

(* Item::setID, in place.  It does not know about the lists. *)
SetID(i, kind) ==
  LET time == DecayTime[kind]
      reset == time > 0 /\ (i.kind \notin StopTime \/ i.duration = NoTime)
      dropped == time = 0 /\ kind \notin StopTime /\ DecayTo[kind] = NoDecay
  IN [i EXCEPT !.kind = kind,
               !.decaying = @ /\ ~reset /\ ~dropped,
               !.duration = IF reset THEN time ELSE IF dropped THEN NoTime ELSE @,
               !.twice = @ \/ (reset /\ Entries(i) > 0)]

(* The histories are kept while the item is in the lists, once. *)
Forgetful(i) ==
  IF i.twice \/ Entries(i) = 0 \/ i.where = "removed" THEN [i EXCEPT !.due = 0, !.age = 0] ELSE i

(* The item is put on the list. *)
Pushed(i) ==
  [i EXCEPT !.refs = @ + 1, !.decaying = TRUE, !.soon = @ + 1,
            !.twice = @ \/ Entries(i) > 0, !.due = i.duration, !.age = 0]

(* internalRemoveItem: by now the item is removed, so that it cannot decay  *)
(* and its entries stay where they are.                                     *)
Removed(i) == [i EXCEPT !.where = "removed", !.releases = @ + 1]

(* startDecay of an item that has just got a new time. *)
Restarted(i) == IF CanDecay(i) /\ ~i.decaying THEN Pushed(i) ELSE i

(* setID leaves the state of what has no time of its own and might decay.  *)
Lingers(kind) == DecayTime[kind] = 0 /\ (kind \in StopTime \/ DecayTo[kind] # NoDecay)

(* internalDecayItem.  The removal may be refused. *)
Decays(i) ==
  LET timed == [i EXCEPT !.timely = i.twice \/ i.age * Interval - i.due \in Early..Late]
      kind == DecayTo[i.kind]
      Left(x) == [x EXCEPT !.stuck = @ \/ (i.decaying /\ Lingers(kind))]
  IN IF kind = Vanish
     THEN {Removed(timed), [timed EXCEPT !.stuck = TRUE]}
     ELSE {Removed(timed), Left(Restarted(SetID(timed, kind)))}

(* startDecay *)
StartDecay(i) ==
  IF ~CanDecay(i) \/ i.decaying THEN {i}
  ELSE IF i.duration > 0 THEN {Pushed(i)} ELSE Decays([i EXCEPT !.age = 0, !.due = 0])

-----------------------------------------------------------------------------
(* Game. *)

(* An item comes into the world: internalAddItem puts whatever has a time   *)
(* on the list, and a clone is there already; on the map and in inventories *)
(* startDecay is called; the result of transformItem waits for a move.      *)
Appear ==
  /\ item.where = "free"
  /\ \E kind \in Kinds, left \in Durations \cup {NoTime} :
       LET new == New(kind, "world", IF left = NoTime /\ DecayTime[kind] > 0
                                     THEN DecayTime[kind] ELSE left)
           Added(i) == IF i.duration > 0 THEN Pushed(i) ELSE i
       IN item' \in {new, Added(new), Added(Added(new))} \cup StartDecay(new)
  /\ UNCHANGED lastBucket

(* transformItem to a kind of the same type, with startDecay or without. *)
Transform ==
  /\ item.where = "world" /\ Entries(item) < MaxEntries
  /\ \E kind \in Kinds \ {item.kind} :
       item' \in {SetID(item, kind)} \cup StartDecay(SetID(item, kind))
  /\ UNCHANGED lastBucket

(* luaItemDecay, and the items of who logs in. *)
Start ==
  /\ item.where = "world" /\ Entries(item) < MaxEntries
  /\ item' \in StartDecay(item)
  /\ UNCHANGED lastBucket

(* internalMoveItem starts the time of an item that has one, whether it can *)
(* decay or not.                                                            *)
Move ==
  /\ item.where = "world" /\ Entries(item) < MaxEntries
  /\ item.duration > 0 /\ ~item.decaying
  /\ item' = Pushed(item)
  /\ UNCHANGED lastBucket

Remove ==
  /\ item.where = "world"
  /\ item' = Removed(item)
  /\ UNCHANGED lastBucket

(* cleanup: what was released goes, and the list is dealt to the buckets.   *)
FirstBucket(left) == IF left >= Round THEN lastBucket' ELSE (lastBucket' + 1) % 4

CleanedUp(i) ==
  LET refs == i.refs - i.releases
      left == IF i.duration > 0 THEN i.duration ELSE 0
  IN IF refs = 0 THEN Nothing
     ELSE Forgetful([i EXCEPT !.refs = refs, !.releases = 0, !.soon = 0,
                    !.listed[FirstBucket(left)] = @ + i.soon])

Cleanup ==
  /\ item.releases + item.soon > 0
  /\ UNCHANGED lastBucket
  /\ item' = CleanedUp(item)

(* One visit of checkDecay: the entry is dropped with its reference, moved  *)
(* to another bucket or stays.                                              *)
Released(i) == [i EXCEPT !.releases = @ + 1]
Cancelled(i) == [i EXCEPT !.decaying = FALSE, !.releases = @ + 1]
NewBucket(bucket, left) == (bucket + (left + 1) \div Round) % 4

Visit(i, bucket) ==
  LET time == IF i.duration > 0 THEN i.duration ELSE 0
      left == IF time > Round THEN time - Round ELSE 0
      counted == [i EXCEPT !.duration = left]
      next == NewBucket(bucket, left)
  IN IF ~CanDecay(i) THEN {Cancelled(i)}
     ELSE IF left > 0 /\ (left >= Round \/ next # bucket)
     THEN {[counted EXCEPT !.listed[IF left >= Round THEN bucket ELSE next] = @ + 1]}
     ELSE {Released(x) : x \in Decays(counted)}

(* The entries of the next bucket, one after the other: taken out at first, *)
(* and what may have become of the item after count of them.                *)
Visited(i, bucket, count) ==
  LET visits[n \in 0..MaxEntries] ==
        IF n = 0 THEN {i} ELSE UNION {Visit(x, bucket) : x \in visits[n - 1]}
  IN visits[count]

TakenOut(i, bucket) ==
  [i EXCEPT !.age = IF Entries(i) > 0 THEN @ + 1 ELSE @, !.listed[bucket] = 0]

CheckDecay ==
  LET bucket == (lastBucket + 1) % 4
  IN /\ lastBucket' = bucket
     /\ \E i \in Visited(TakenOut(item, bucket), bucket, item.listed[bucket]) :
          item' = CleanedUp(i)

Next == Appear \/ Transform \/ Start \/ Move \/ Remove \/ Cleanup \/ CheckDecay

Spec == Init /\ [][Next]_vars

-----------------------------------------------------------------------------
(* Properties. *)

(* Game::toDecayItems and decayItems point at items: each entry has its     *)
(* reference, and an item is freed when it is in none.  What counts as      *)
(* decaying is in a list, or its time would never run, except an item that  *)
(* should have vanished and could not, or that has become what has no time  *)
(* but something to decay to.  And time is right: an item that was only     *)
(* in the lists once decays no more than six eighths of a second too early  *)
(* and, as time is counted here, no more than three too late.               *)
DecayInv ==
  /\ TypeOK
  /\ item.refs = Entries(item) + item.releases + (IF item.where = "world" THEN 1 ELSE 0)
  /\ item.where # "free" => item.refs > 0
  /\ item.decaying => Entries(item) > 0 \/ item.stuck
  /\ item.timely
=============================================================================
