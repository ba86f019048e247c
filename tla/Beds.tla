-------------------------------- MODULE Beds --------------------------------
(***************************************************************************)
(* Who sleeps in which bed (bed.cpp, house.cpp, game.cpp).  It is written  *)
(* down in both halves of the bed and in a table of the game.  A player    *)
(* uses a bed, answers a window some time later, is asleep at once and     *)
(* kicked a moment after that; he wakes when he logs in, or is woken by    *)
(* the owner or an eviction.  Only saves of the game write beds down.      *)
(*                                                                         *)
(* Every bed belongs to the one house.  Who may use a bed that is free is  *)
(* left open, and so is where players are: the answer moves them into the  *)
(* bed from wherever they are then.                                        *)
(***************************************************************************)
EXTENDS FiniteSets

CONSTANTS
  Players,
  Owners,    \* the players who may come to own the house
  Halves,    \* of beds
  Partner,   \* the other half of each
  Nobody, NoBed

VARIABLES
  online,
  owner,          \* of the house
  sleeper,        \* sleeperGUID of each half
  bedSleepersMap, \* of each player
  bedItem,        \* of each player: the bed used last
  asked,          \* players who have the window open
  kicks,          \* players about to be kicked
  saved,          \* the sleepers in the database
  hasty           \* history: players who lay down twice before they were kicked

vars == <<online, owner, sleeper, bedSleepersMap, bedItem, asked, kicks, saved, hasty>>

TypeOK ==
  /\ {online, asked, kicks, hasty} \subseteq SUBSET Players
  /\ owner \in Owners \cup {Nobody}
  /\ sleeper \in [Halves -> Players \cup {Nobody}] /\ saved \in [Halves -> Players \cup {Nobody}]
  /\ bedSleepersMap \in [Players -> Halves \cup {NoBed}]
  /\ bedItem \in [Players -> Halves \cup {NoBed}]

Empty == [h \in Halves |-> Nobody]

Init ==
  /\ online = {} /\ asked = {} /\ kicks = {} /\ hasty = {}
  /\ owner = Nobody /\ sleeper = Empty /\ saved = Empty
  /\ bedSleepersMap = [p \in Players |-> NoBed]
  /\ bedItem = [p \in Players |-> NoBed]

BedsOf(who, p) == {h \in Halves : who[h] = p}

(* Variants of the operators, each with one slip a change of this code     *)
(* could make; the runs must notice them.                                  *)
OneHalf(h) == {h}
StillListed(ps) == bedSleepersMap
EvenIfTaken(h) == TRUE
SleepsOn(p) == {}

-----------------------------------------------------------------------------
(* BedItem. *)

(* getNextBedItem. *)
Both(h) == {h, Partner[h]}

(* removeBedSleeper. *)
Unlisted(ps) == [p \in Players |-> IF p \in ps THEN NoBed ELSE bedSleepersMap[p]]

(* wakeUp of every half in `hs`. *)
WakeUp(hs) ==
  /\ sleeper' = [h \in Halves |-> IF \E k \in hs : h \in Both(k) THEN Nobody ELSE sleeper[h]]
  /\ bedSleepersMap' = Unlisted({sleeper[h] : h \in hs})

Free(h) == sleeper[h] = Nobody

(* Actions::internalUseItem, trySleep and sendOfflineTrainingDialog.  The   *)
(* owner wakes who sleeps there; for others nothing happens.                *)
UseBed(p, h) ==
  /\ p \in online
  /\ IF Free(h)
     THEN /\ bedItem' = [bedItem EXCEPT ![p] = h]
          /\ asked' = asked \cup {p}
          /\ UNCHANGED <<sleeper, bedSleepersMap>>
     ELSE /\ owner = p /\ WakeUp({h})
          /\ UNCHANGED <<bedItem, asked>>
  /\ UNCHANGED <<online, owner, kicks, saved, hasty>>

(* sleep: the other half is not asked. *)
Sleep(p, h) ==
  /\ sleeper' = [k \in Halves |-> IF k \in Both(h) THEN p ELSE sleeper[k]]
  /\ bedSleepersMap' = [bedSleepersMap EXCEPT ![p] = h]
  /\ kicks' = kicks \cup {p}
  /\ hasty' = hasty \cup {q \in {p} : BedsOf(sleeper, p) # {}}

(* playerAnswerModalWindow. *)
Accept(p) ==
  /\ p \in online \cap asked /\ asked' = asked \ {p}
  /\ IF bedItem[p] # NoBed /\ Free(bedItem[p])
     THEN Sleep(p, bedItem[p]) /\ UNCHANGED bedItem
     ELSE /\ bedItem' = [bedItem EXCEPT ![p] = NoBed]
          /\ UNCHANGED <<sleeper, bedSleepersMap, kicks, hasty>>
  /\ UNCHANGED <<online, owner, saved>>

Decline(p) ==
  /\ p \in online \cap asked /\ asked' = asked \ {p}
  /\ bedItem' = [bedItem EXCEPT ![p] = NoBed]
  /\ UNCHANGED <<online, owner, sleeper, bedSleepersMap, kicks, saved, hasty>>

-----------------------------------------------------------------------------
(* Players, the house and the game. *)

(* Player::onCreatureAppear: who logs in wakes up. *)
Waking(p) == {h \in Halves : h = bedSleepersMap[p]}

Login(p) ==
  /\ p \notin online /\ online' = online \cup {p}
  /\ WakeUp(Waking(p))
  /\ UNCHANGED <<owner, bedItem, asked, kicks, saved, hasty>>

(* A logout or the kick.  A kick is for this visit: the next has another    *)
(* number.                                                                  *)
Logout(p) ==
  /\ p \in online /\ online' = online \ {p}
  /\ asked' = asked \ {p} /\ kicks' = kicks \ {p}
  /\ bedItem' = [bedItem EXCEPT ![p] = NoBed]
  /\ UNCHANGED <<owner, sleeper, bedSleepersMap, saved, hasty>>

(* ProtocolGame::connect, when another client takes over. *)
Connect(p) ==
  /\ p \in online /\ asked' = asked \ {p}
  /\ UNCHANGED <<online, owner, sleeper, bedSleepersMap, bedItem, kicks, saved, hasty>>

(* House::setOwner. *)
SetOwner(q) ==
  /\ q # owner /\ owner' = q
  /\ WakeUp(IF owner = Nobody THEN {} ELSE {h \in Halves : ~Free(h)})
  /\ UNCHANGED <<online, bedItem, asked, kicks, saved, hasty>>

(* IOMapSerialize::saveHouseItems. *)
Save ==
  /\ saved' = sleeper
  /\ UNCHANGED <<online, owner, sleeper, bedSleepersMap, bedItem, asked, kicks, hasty>>

(* The server stops, with a save before or not, and starts: readAttr of     *)
(* every half, the last of which stays in the table.                        *)
Restart ==
  /\ online' = {} /\ asked' = {} /\ kicks' = {}
  /\ sleeper' = saved
  /\ bedSleepersMap' \in [Players -> {NoBed} \cup {h \in Halves : saved[h] # Nobody}]
  /\ \A p \in Players :
       IF BedsOf(saved, p) = {} THEN bedSleepersMap'[p] = NoBed
       ELSE bedSleepersMap'[p] \in BedsOf(saved, p)
  /\ bedItem' = [p \in Players |-> NoBed]
  /\ UNCHANGED <<owner, saved, hasty>>

Next ==
  \/ \E p \in Players :
       \/ \E h \in Halves : UseBed(p, h)
       \/ Accept(p) \/ Decline(p) \/ Login(p) \/ Logout(p) \/ Connect(p)
  \/ \E q \in Owners \cup {Nobody} : SetOwner(q)
  \/ Save \/ Restart

Spec == Init /\ [][Next]_vars

-----------------------------------------------------------------------------
(* Properties. *)

(* BedItem::sleeperGUID of both halves and Game::bedSleepersMap tell the     *)
(* same, over saves and restarts: both halves have one sleeper, nobody       *)
(* sleeps in two beds or in one the table does not know, and who is online   *)
(* and not about to be kicked sleeps in none.  Excepted are those who lay    *)
(* down in a second bed in the moment before they were kicked.               *)
BedsInv ==
  /\ TypeOK
  /\ \A h \in Halves : sleeper[h] = sleeper[Partner[h]]
  /\ \A p \in Players \ hasty :
       /\ IF BedsOf(sleeper, p) = {} THEN bedSleepersMap[p] = NoBed
          ELSE bedSleepersMap[p] # NoBed /\ BedsOf(sleeper, p) = Both(bedSleepersMap[p])
       /\ p \in online \ kicks => BedsOf(sleeper, p) = {}
=============================================================================
