------------------------------- MODULE Items -------------------------------
(***************************************************************************)
(* Items that are moved, stacked, given, paid with and removed (game.cpp), *)
(* through the four functions of a cylinder: queryDestination, queryAdd,   *)
(* queryMaxCount, and addThing with its notifications (player.cpp,         *)
(* container.cpp, tile.cpp).  A handler is one task of the dispatcher.     *)
(*                                                                         *)
(* There are boxes, worn on the back or nested; rings, worn on a finger;   *)
(* and coins, in stacks, for which only the place, the kind and the size   *)
(* count.  Tiles are out of reach of each other, but in view and in range  *)
(* of a throw.  The order in a container is left open where the code goes  *)
(* by it.  Left out: depots, browsed fields, hangables, stairs, and        *)
(* scripts that forbid a move; a script may forbid to wear a ring.         *)
(* There are no crystal coins.  What becomes of an offer is in Trade; here *)
(* it is an item that the search for a place skips.                        *)
(***************************************************************************)
EXTENDS Integers, FiniteSets, FiniteSetsExt, TLC

CONSTANTS
  Players, Tiles, Boxes, Rings, None,
  MaxItemCount, \* coins of a stack, and gold coins in a platinum coin
  Capacity,     \* items in a box
  MaxLoad,      \* Player::capacity; a coin, a ring and a box weigh 1
  MaxWorth      \* bound: gold in the world

VARIABLES
  world,  \* see TypeOK
  books   \* history: gold earned and not spent or removed

vars == <<world, books>>

Solids == Boxes \cup Rings
Kinds == {"gold", "platinum"}
Piles == [in : Tiles \cup Boxes, kind : Kinds, count : 1..MaxItemCount]

(* inside: the parent of a box or ring.  piles: how many stacks of a sort   *)
(* lie in a place.  total: Container::totalWeight.  carried:                *)
(* Player::inventoryWeight.  open: Player::openContainers.  offered:        *)
(* Player::tradeItem.  Histories: crowded, boxes in which the search found  *)
(* a place that was none; lost and lostGold, what was given without being   *)
(* added; cut, players whose weight lacks the first part of a gift.         *)
TypeOK ==
  /\ world \in [inside : [Solids -> Players \cup Tiles \cup Boxes \cup {None}],
                piles : [Piles -> Nat],
                total : [Boxes -> Nat], carried : [Players -> Nat],
                at : [Players -> Tiles], open : [Players -> SUBSET Boxes],
                offered : [Players -> Solids \cup {None}],
                crowded : SUBSET Boxes, lost : SUBSET Solids, lostGold : Nat,
                cut : SUBSET Players]
  /\ books \in 0..MaxWorth

Init ==
  /\ \E at \in [Players -> Tiles] :
       world = [inside |-> [s \in Solids |-> None],
                piles |-> [t \in Piles |-> 0],
                total |-> [b \in Boxes |-> 0], carried |-> [p \in Players |-> 0],
                at |-> at, open |-> [p \in Players |-> {}],
                offered |-> [p \in Players |-> None],
                crowded |-> {}, lost |-> {}, lostGold |-> 0, cut |-> {}]
  /\ books = 0

-----------------------------------------------------------------------------
(* Where things are. *)

(* x and the boxes around it, if x is a box. *)
Chain(w, x) ==
  LET up[n \in 0..Cardinality(Boxes)] ==
        IF n = 0 THEN {x} \cap Boxes
        ELSE LET S == up[n - 1] IN S \cup ({w.inside[b] : b \in S} \cap Boxes)
  IN  up[Cardinality(Boxes)]

(* The player or tile x finally lies in; None once it is removed. *)
Root(w, x) ==
  IF x \notin Boxes THEN x
  ELSE LET S == {w.inside[b] : b \in Chain(w, x)} \ Boxes
       IN  IF S = {} THEN None ELSE CHOOSE r \in S : TRUE

TileOf(w, x) ==
  LET r == Root(w, x) IN IF r \in Players THEN w.at[r] ELSE r

InReach(w, p, x) == TileOf(w, x) = w.at[p]

Worn(w, p) == {s \in Solids : w.inside[s] = p}
PilesIn(w, b) == {t \in Piles : t.in = b /\ w.piles[t] > 0}

(* Container::size *)
Size(w, b) ==
  Cardinality({s \in Solids : w.inside[s] = b})
    + MapThenSumSet(LAMBDA t : w.piles[t], PilesIn(w, b))
NeverFull(w, b) == Capacity  \* variant for the runs
FreeSlots(w, b) == IF Size(w, b) < Capacity THEN Capacity - Size(w, b) ELSE 0

Weight(w, s) == 1 + (IF s \in Boxes THEN w.total[s] ELSE 0)
Value(kind) == IF kind = "gold" THEN 1 ELSE MaxItemCount
Worth(t) == Value(t.kind) * t.count

-----------------------------------------------------------------------------
(* addThing, updateThing and removeThing of containers, players and tiles.  *)

(* updateItemWeight.  Variant for the runs: without the boxes around x. *)
OnlyHeavierItself(w, x, weight) ==
  [w EXCEPT !.total = [b \in {x} \cap Boxes |-> @[b] + weight] @@ @]
Heavier(w, x, weight) ==
  [w EXCEPT !.total = [b \in Chain(w, x) |-> @[b] + weight] @@ @]

(* checkTradeState of what changes inside x, and the callbacks of a removal *)
(* that look into the item and into what is around it.  Variant for the     *)
(* runs: only the item itself is compared.                                  *)
OnlyTheOffer(w, p, x, item, removed) == item \in Solids /\ item = w.offered[p]
ClosesTrade(w, p, x, item, removed) ==
  LET offer == w.offered[p] IN
  offer # None /\
    \/ item = offer \/ offer \in Chain(w, x)
    \/ /\ removed /\ w.inside[offer] # x
       /\ {x, item} \cap Chain(w, w.inside[offer]) # {}

CheckTrade(w, x, item, removed) ==
  [w EXCEPT !.offered =
     [p \in {p \in Players : ClosesTrade(w, p, x, item, removed)} |-> None] @@ @]

AddPile(w, x, kind, n) ==
  CheckTrade(Heavier([w EXCEPT !.piles[[in |-> x, kind |-> kind, count |-> n]] = @ + 1],
                     x, n), x, None, FALSE)

Resize(w, t, n) ==
  LET v == CheckTrade(Heavier([w EXCEPT !.piles[t] = @ - 1], t.in, -t.count),
                      t.in, None, n = 0)
  IN  IF n = 0 THEN v ELSE AddPile(v, t.in, t.kind, n)

TakeSolid(w, s) ==
  [Heavier(CheckTrade(w, w.inside[s], s, TRUE), w.inside[s], -Weight(w, s))
     EXCEPT !.inside[s] = None]

PutSolid(w, s, x) ==
  CheckTrade(Heavier([w EXCEPT !.inside[s] = x], x, Weight(w, s)), x, s, FALSE)

-----------------------------------------------------------------------------
(* postAddNotification and postRemoveNotification. *)

(* updateInventoryWeight, of whoever carries x. *)
Reweigh(w, x) ==
  LET p == Root(w, x) IN
  IF p \notin Players THEN w
  ELSE [w EXCEPT !.carried[p] = MapThenSumSet(LAMBDA s : Weight(w, s), Worn(w, p)),
                 !.cut = @ \ {p}]

(* autoCloseContainers *)
Without(w, p, s) == {b \in w.open[p] : s \notin Chain(w, b) /\ Root(w, b) # None}

KeepsView(w, p, s) ==
  Root(w, s) \in Tiles \cup {p} /\ InReach(w, p, s)

(* s has left x: its carrier is told, or who sees the tile.  Variant for     *)
(* the runs: who carries anything.                                           *)
OnTheSpot(w, x) ==
  IF Root(w, x) \in Players THEN {Root(w, x)} ELSE {p \in Players : Worn(w, p) # {}}
Notified(w, x) == IF Root(w, x) \in Players THEN {Root(w, x)} ELSE Players

CloseViews(w, s, x) ==
  [w EXCEPT !.open =
     [p \in {p \in Notified(w, x) : ~KeepsView(w, p, s)} |-> Without(w, p, s)] @@ @]

PostRemove(w, s, x) ==
  LET v == Reweigh(w, x) IN IF s \in Boxes THEN CloseViews(v, s, x) ELSE v

-----------------------------------------------------------------------------
(* queryAdd and queryMaxCount. *)

(* hasCapacity, for who carries x, of something that comes from a place. *)
HasCapacity(w, x, weight, from) ==
  LET p == Root(w, x) IN
  p \in Players => Root(w, from) = p \/ weight <= MaxLoad - w.carried[p]

SlotIsFree(w, p, s, wears) ==
  /\ Worn(w, p) \cap (IF s \in Boxes THEN Boxes ELSE Rings) = {}
  /\ s \in Rings => wears
  /\ HasCapacity(w, p, Weight(w, s), w.inside[s])

BoxTakes(w, b, s) ==
  s \notin Chain(w, b) /\ HasCapacity(w, b, Weight(w, s), w.inside[s])

(* Stacks in b that a stack of this kind, other than t itself, merges with. *)
Matching(w, b, kind, t) ==
  {u \in PilesIn(w, b) :
     u.kind = kind /\ u.count < MaxItemCount /\ (u = t => w.piles[t] > 1)}

Carried(w, p) == {b \in Boxes : Root(w, b) = p}

(* Player::queryMaxCount of n new coins; the search is deep and does not    *)
(* skip an offer.                                                           *)
RoomForCoins(w, p, kind, n) ==
  MapThenSumSet(
    LAMBDA b : FreeSlots(w, b) * MaxItemCount
      + (IF HasCapacity(w, b, n, None)
         THEN MapThenSumSet(LAMBDA t : w.piles[t] * (MaxItemCount - t.count),
                            Matching(w, b, kind, None))
         ELSE 0),
    Carried(w, p))

RoomForSolid(w, p, s, wears) ==
  SlotIsFree(w, p, s, wears) \/ \E b \in Carried(w, p) : FreeSlots(w, b) > 0

-----------------------------------------------------------------------------
(* Player::queryDestination: the first good box of those worn, then of      *)
(* those in them, and so on.                                                *)
Search(w, p, good, skipWorn, skip) ==
  LET layer[n \in 0..Cardinality(Boxes)] ==
        IF n = 0 THEN {b \in Boxes : w.inside[b] = p} \ skipWorn
        ELSE {b \in Boxes : w.inside[b] \in layer[n - 1]} \ skip
      hits == {n \in DOMAIN layer : layer[n] \cap good # {}}
  IN  IF hits = {} THEN {} ELSE layer[Min(hits)] \cap good

(* A ring or box: capacity() - size() is unsigned, so a box with too many   *)
(* items has room, too, at an index beyond its capacity.                    *)
NotFull(w, b) == Size(w, b) # Capacity

PlacesFor(w, p, s, wears) ==
  IF SlotIsFree(w, p, s, wears) THEN {p}
  ELSE Search(w, p, {b \in Boxes : NotFull(w, b) /\ BoxTakes(w, b, s)},
              {w.offered[p], s}, {})

(* A stack.  The offer, and the stack itself when it lies there, are not    *)
(* counted.                                                                 *)
Counted(w, p, b, t) ==
  Size(w, b) - (IF w.offered[p] # None /\ w.inside[w.offered[p]] = b THEN 1 ELSE 0)
             - (IF t # None /\ t.in = b THEN 1 ELSE 0)

(* A place for coins: a stack to merge with or a new one, and how much      *)
(* queryMaxCount finds at its index beside the free slots.                  *)
Place(b, onto, spare) == [box |-> b, onto |-> onto, spare |-> spare]
Onto(w, b, kind, t) ==
  {Place(b, u, MaxItemCount - u.count) : u \in Matching(w, b, kind, t)}

PlacesForCoins(w, p, kind, n, t) ==
  LET from == IF t = None THEN None ELSE t.in
      good == {b \in Boxes : \/ Matching(w, b, kind, t) # {}
                             \/ /\ Counted(w, p, b, t) < Capacity
                                /\ HasCapacity(w, b, n, from)}
      New(b) == {Place(b, None, 0)}
                  \cup (IF from = b THEN {Place(b, None, MaxItemCount - t.count)} ELSE {})
  IN  UNION {IF Matching(w, b, kind, t) # {} THEN Onto(w, b, kind, t) ELSE New(b) :
             b \in Search(w, p, good, {w.offered[p]}, {w.offered[p]})}

-----------------------------------------------------------------------------
(* internalAddItem and its callers. *)

(* The search took b for a box with room. *)
Crowd(w, b) == IF Size(w, b) >= Capacity THEN [w EXCEPT !.crowded = @ \cup {b}] ELSE w

(* A gift of coins: what is left of it, and how often it was merged. *)
Gift(w, left, merges) == [world |-> w, left |-> left, merges |-> merges]

Given(r, p, kind, place) ==
  IF place.onto = None
  THEN Gift(Reweigh(AddPile(Crowd(r.world, place.box), place.box, kind, r.left), p),
            0, r.merges)
  ELSE LET n == Min({place.spare, r.left})
           v == Resize(r.world, place.onto, place.onto.count + n)
       IN  IF n = r.left THEN Gift(Reweigh(v, p), 0, r.merges + 1)
           ELSE Gift([v EXCEPT !.cut = @ \cup {p}], r.left - n, r.merges + 1)

(* internalAddItem to a player, which calls itself with what is left. *)
AddItem(w, p, kind, n) ==
  LET Refused(r) == \/ r.left = 0
                    \/ RoomForCoins(r.world, p, kind, r.left) < r.left
                    \/ ~HasCapacity(r.world, p, r.left, None)
      Places(r) == PlacesForCoins(r.world, p, kind, r.left, None)
      run[i \in 0..MaxItemCount] ==
        IF i = 0 THEN {Gift(w, n, 0)}
        ELSE UNION {IF Refused(r) \/ Places(r) = {} THEN {r}
                    ELSE {Given(r, p, kind, place) : place \in Places(r)} : r \in run[i - 1]}
  IN  run[MaxItemCount]

(* To a tile: on the top item, if that is a stack of the kind.  How many    *)
(* items a tile holds is left out.                                          *)
Dropped(w, x, kind, n) ==
  {AddPile(w, x, kind, n)} \cup
    {LET all == t.count + n IN
     IF all <= MaxItemCount THEN Resize(w, t, all)
     ELSE AddPile(Resize(w, t, MaxItemCount), x, kind, all - MaxItemCount) :
       t \in {u \in PilesIn(w, x) : u.kind = kind /\ u.count < MaxItemCount}}

LoseCoins(w, kind, n) == [w EXCEPT !.lostGold = @ + Value(kind) * n]

(* addMoney drops on the tile what was refused as a whole, only. *)
GiveMoney(w, p, kind, n) ==
  IF n = 0 THEN {w}
  ELSE UNION {IF r.left = 0 THEN {r.world}
              ELSE IF r.merges = 0 THEN Dropped(r.world, r.world.at[p], kind, n)
              ELSE {LoseCoins(r.world, kind, r.left)} : r \in AddItem(w, p, kind, n)}

AddMoney(w, p, money) ==
  UNION {GiveMoney(v, p, "gold", money % MaxItemCount) :
           v \in GiveMoney(w, p, "platinum", money \div MaxItemCount)}

-----------------------------------------------------------------------------
(* removeMoney: the cheapest stacks first.  Change is given before the last *)
(* coins are taken.                                                         *)
Purse(w, p) == {t \in Piles : t.in \in Carried(w, p) /\ w.piles[t] > 0}
WorthOf(w, S) == MapThenSumSet(LAMBDA t : w.piles[t] * Worth(t), S)

RemovePile(w, t, n) == Reweigh(Resize(w, t, t.count - n), t.in)

RemoveMoney(w, p, money) ==
  LET Cheapest(v) == {t \in Purse(v, p) : \A u \in Purse(v, p) : Worth(t) <= Worth(u)}
      Take(r, t) ==
        LET n == (r.due + Value(t.kind) - 1) \div Value(t.kind) IN
        IF Worth(t) <= r.due
        THEN {[world |-> RemovePile(r.world, t, t.count), due |-> r.due - Worth(t)]}
        ELSE {[world |-> RemovePile(v, t, n), due |-> 0] :
                v \in AddMoney(r.world, p, Value(t.kind) * n - r.due)}
      run[i \in 0..money] ==
        IF i = 0 THEN {[world |-> w, due |-> money]}
        ELSE UNION {IF r.due = 0 THEN {r}
                    ELSE UNION {Take(r, t) : t \in Cheapest(r.world)} : r \in run[i - 1]}
  IN  {r.world : r \in run[money]}

-----------------------------------------------------------------------------
(* Handlers of a player's requests. *)

(* internalGetCylinder, in range. *)
Accessible(p, x) ==
  x \in world.open[p] \cup {p, world.at[p]} /\ InReach(world, p, x)

(* The boxes a place in a window leads to: the box of the window, one in    *)
(* it, and the one around it.                                               *)
NamedBoxes(w, p) ==
  w.open[p] \cup {b \in Boxes : w.inside[b] \in w.open[p] \cup {p}}
            \cup ({w.inside[b] : b \in w.open[p]} \cap Boxes)

Moved(w, s, x) ==
  Reweigh(PostRemove(PutSolid(TakeSolid(w, s), s, x), s, w.inside[s]), x)

MoveSolid(p, s, wears) ==
  /\ Accessible(p, world.inside[s])
  /\ \E x \in Tiles \cup PlacesFor(world, p, s, wears)
                    \cup {b \in NamedBoxes(world, p) : BoxTakes(world, b, s)} :
       /\ x \in Boxes => FreeSlots(world, x) > 0
       /\ world' = Moved(world, s, x)
  /\ UNCHANGED books

(* A ring for the one that is worn.  The old one is off before the equip    *)
(* script is asked.                                                         *)
Exchange(p, s, wears) ==
  LET from == world.inside[s] IN
  /\ s \in Rings /\ Accessible(p, from)
  /\ from \in Carried(world, p) /\ FreeSlots(world, from) > 0
  /\ \E old \in Worn(world, p) \cap Rings :
       LET v == Moved(world, old, from)
       IN  world' = IF wears THEN Moved(v, s, p) ELSE v
  /\ UNCHANGED books

(* Where n coins of t may go in a box that the player names. *)
Named(w, p, t, b) ==
  IF t.in = b
  THEN {Place(b, None, 0)} \cup
       {Place(b, u, MaxItemCount - u.count) :
          u \in {u \in PilesIn(w, b) : u.kind = t.kind /\ (u = t => w.piles[t] > 1)}}
  ELSE IF Matching(w, b, t.kind, t) # {} THEN Onto(w, b, t.kind, t)
  ELSE {Place(b, None, 0)}

CoinsMoved(w, t, n, place) ==
  LET b == place.box
      n1 == Min({n, FreeSlots(w, b) * MaxItemCount + place.spare})
      merged == IF place.onto = None THEN 0 ELSE Min({place.spare, n1})
      v1 == Resize(w, t, t.count - n1)
      v2 == IF merged = 0 THEN v1 ELSE Resize(v1, place.onto, place.onto.count + merged)
      v3 == IF merged = n1 THEN v2 ELSE AddPile(v2, b, t.kind, n1 - merged)
  IN  IF n1 = 0 THEN {} ELSE {Reweigh(Reweigh(v3, t.in), b)}

MoveCoins(p, t, n) ==
  /\ world.piles[t] > 0 /\ Accessible(p, t.in) /\ n <= t.count
  /\ \/ \E x \in Tiles :
          \E v \in Dropped(Resize(world, t, t.count - n), x, t.kind, n) :
            world' = Reweigh(v, t.in)
     \/ \E b \in NamedBoxes(world, p) :
          /\ HasCapacity(world, b, t.count, t.in)
          /\ \E place \in Named(world, p, t, b) : world' \in CoinsMoved(world, t, n, place)
     \/ \E place \in PlacesForCoins(world, p, t.kind, t.count, t) :
          /\ HasCapacity(world, place.box, t.count, t.in)
          /\ world' \in CoinsMoved(IF place.onto = None THEN Crowd(world, place.box)
                                   ELSE world, t, n, place)
  /\ UNCHANGED books

-----------------------------------------------------------------------------
(* Scripts give and take (luascript.cpp). *)

(* internalPlayerAddItem: what is refused falls to the ground.  A box with   *)
(* too many items is asked to put s beyond its end, and does not.            *)
Receive(p, s, wears) ==
  LET places == IF RoomForSolid(world, p, s, wears) THEN PlacesFor(world, p, s, wears) ELSE {} IN
  /\ world.inside[s] = None /\ s \notin world.lost
  /\ \E x \in IF places = {} THEN {world.at[p]} ELSE places :
       world' = IF x \in Boxes /\ Size(world, x) > Capacity
                THEN [world EXCEPT !.lost = @ \cup {s}]
                ELSE Reweigh(PutSolid(world, s, x), x)
  /\ UNCHANGED books

(* What is left after one merge falls to the ground, too; what is left      *)
(* after more is gone.                                                      *)
ReceiveCoins(p, kind, n) ==
  /\ books + Value(kind) * n <= MaxWorth
  /\ \E r \in AddItem(world, p, kind, n) :
       IF r.left = 0 THEN world' = r.world
       ELSE IF r.merges <= 1 THEN world' \in Dropped(r.world, r.world.at[p], kind, r.left)
       ELSE world' = LoseCoins(r.world, kind, r.left)
  /\ books' = books + Value(kind) * n

Earn(p, money) ==
  /\ books + money <= MaxWorth
  /\ world' \in AddMoney(world, p, money)
  /\ books' = books + money

Pay(p, money) ==
  /\ WorthOf(world, Purse(world, p)) >= money
  /\ world' \in RemoveMoney(world, p, money)
  /\ books' = books - money

(* internalRemoveItem.  The notification still finds what is in the box.    *)
RemoveItem(s) ==
  LET x == world.inside[s]
      gone == {s} \cup {r \in Solids : s \in Chain(world, world.inside[r])}
      spilt == {t \in Piles : world.piles[t] > 0 /\ s \in Chain(world, t.in)}
  IN  /\ x # None
      /\ world' = [PostRemove(TakeSolid(world, s), s, x) EXCEPT
                     !.inside = [r \in gone |-> None] @@ @,
                     !.piles = [t \in spilt |-> 0] @@ @,
                     !.total = [b \in gone \cap Boxes |-> 0] @@ @]
      /\ books' = books - WorthOf(world, spilt)

RemoveCoins(t, n) ==
  /\ world.piles[t] > 0 /\ n <= t.count
  /\ world' = RemovePile(world, t, n)
  /\ books' = books - Value(t.kind) * n

-----------------------------------------------------------------------------
(* Open containers, steps, and offers. *)

OpenViews(p, S) == world' = [world EXCEPT !.open[p] = S] /\ UNCHANGED books

(* A box that is open is closed; another is shown in a window of its own or *)
(* in one that showed something else.                                       *)
UseBox(p, b) ==
  /\ Accessible(p, world.inside[b])
  /\ IF b \in world.open[p] THEN OpenViews(p, world.open[p] \ {b})
     ELSE \E c \in world.open[p] \cup {None} : OpenViews(p, (world.open[p] \ {c}) \cup {b})

Close(p, b) == b \in world.open[p] /\ OpenViews(p, world.open[p] \ {b})

MoveUp(p, b) ==
  /\ b \in world.open[p] /\ world.inside[b] \in Boxes
  /\ OpenViews(p, (world.open[p] \ {b}) \cup {world.inside[b]})

(* A step ends where the open containers are looked at. *)
Walk(p, x) ==
  LET v == [world EXCEPT !.at[p] = x] IN
  /\ x # world.at[p]
  /\ world' = [v EXCEPT !.open[p] =
                 {b \in @ : \A c \in @ \cap Chain(v, b) : InReach(v, p, c)}]
  /\ UNCHANGED books

Offer(p, s) ==
  /\ world.offered[p] = None /\ Accessible(p, world.inside[s])
  /\ world' = [world EXCEPT !.offered[p] = s]
  /\ UNCHANGED books

Withdraw(p) ==
  /\ world.offered[p] # None
  /\ world' = [world EXCEPT !.offered[p] = None]
  /\ UNCHANGED books

Next ==
  \/ \E p \in Players, s \in Solids :
       \/ Offer(p, s)
       \/ \E wears \in BOOLEAN :
            MoveSolid(p, s, wears) \/ Exchange(p, s, wears) \/ Receive(p, s, wears)
  \/ \E p \in Players, t \in Piles, n \in 1..MaxItemCount : MoveCoins(p, t, n)
  \/ \E p \in Players, kind \in Kinds, n \in 1..MaxItemCount : ReceiveCoins(p, kind, n)
  \/ \E p \in Players, money \in 1..MaxWorth : Earn(p, money) \/ Pay(p, money)
  \/ \E s \in Solids : RemoveItem(s)
  \/ \E t \in Piles, n \in 1..MaxItemCount : RemoveCoins(t, n)
  \/ \E p \in Players, b \in Boxes : UseBox(p, b) \/ Close(p, b) \/ MoveUp(p, b)
  \/ \E p \in Players, x \in Tiles : Walk(p, x)
  \/ \E p \in Players : Withdraw(p)

Spec == Init /\ [][Next]_vars

-----------------------------------------------------------------------------
(* No box lies in itself, however deep. *)
Forest == \A b \in Boxes : b \notin Chain(world, world.inside[b])

(* Every weight that is cached, over any depth, is the weight there is.      *)
WeightsAreTrue ==
  /\ \A b \in Boxes :
       world.total[b] =
         MapThenSumSet(LAMBDA s : Weight(world, s), {s \in Solids : world.inside[s] = b})
           + MapThenSumSet(LAMBDA t : world.piles[t] * t.count, PilesIn(world, b))
  /\ \A p \in Players \ world.cut :
       world.carried[p] = MapThenSumSet(LAMBDA s : Weight(world, s), Worn(world, p))

(* No box holds more than it has room for, but those in which a search       *)
(* took an item for room.                                                    *)
RoomKept == \A b \in Boxes : Size(world, b) > Capacity => b \in world.crowded

(* One slot, one item.                                                       *)
SlotsKept ==
  \A p \in Players : \A S \in {Boxes, Rings} : Cardinality(Worn(world, p) \cap S) <= 1

(* Nobody looks into a container that is out of reach, or that is carried    *)
(* by someone else or gone, however it got there.                            *)
ViewsInReach ==
  \A p \in Players : \A b \in world.open[p] : Root(world, b) \in {p, world.at[p]}

(* Money is neither made nor destroyed by moving, splitting, merging and     *)
(* changing it.                                                              *)
BooksBalance == WorthOf(world, Piles) + world.lostGold = books

(* Nothing is lost before a search has overfilled a box.                     *)
LossesAreKnown == world.lost # {} => world.crowded # {}

ItemsInv ==
  /\ TypeOK /\ Forest /\ WeightsAreTrue /\ RoomKept /\ SlotsKept
  /\ ViewsInReach /\ BooksBalance /\ LossesAreKnown

(* What a player is given, he gets, or it lies on the ground.                *)
NothingIsLost == world.lost = {} /\ world.lostGold = 0

(* An offer that stands is what the partner was shown: it lies where it lay, *)
(* and what is in it, however deep, has neither moved nor changed.           *)
Contents(w, s) ==
  [solids |-> {<<r, w.inside[r]>> : r \in {r \in Solids : s \in Chain(w, w.inside[r])}},
   piles |-> {<<t, w.piles[t]>> : t \in {t \in Piles : w.piles[t] > 0 /\ s \in Chain(w, t.in)}}]

OffersAreAsShown ==
  [][\A p \in Players : LET s == world.offered[p] IN
       s # None /\ world'.offered[p] = s =>
         world'.inside[s] = world.inside[s] /\ Contents(world', s) = Contents(world, s)]_vars
=============================================================================
