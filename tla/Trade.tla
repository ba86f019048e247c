------------------------------- MODULE Trade -------------------------------
(***************************************************************************)
(* Trading between two players (game.cpp, playerRequestTrade to            *)
(* internalCloseTrade), together with the callbacks of Player that close a *)
(* trade when the offered item or one of the players moves (player.cpp).   *)
(* Every action is one task of the dispatcher, hence atomic.               *)
(*                                                                         *)
(* An offer stays with its owner until both have accepted; nothing locks   *)
(* the item.  What keeps two offers apart, in reach and in existence is    *)
(* the set of callbacks that see every change of a container, a tile or an *)
(* inventory, so items lie in a forest of containers, players and places   *)
(* here, and move freely.                                                  *)
(***************************************************************************)
EXTENDS Integers, FiniteSets

CONSTANTS
  Players, Items,
  Containers,    \* those items that are containers
  Stackable,     \* those items that merge with others of their kind
  Places,        \* numbers: positions on a line
  NoPlayer, NoItem, Gone

VARIABLES
  online,        \* players in the game
  place,         \* Creature::position of each player
  loc,           \* the parent of each item
  tradeState,    \* Player::tradeState; TRADE_TRANSFER lasts no longer than
                 \* the handler that sets it
  tradePartner,  \* Player::tradePartner
  tradeItem,     \* Player::tradeItem
  tradeItems,    \* Game::tradeItems, NoPlayer for an absent key
  alive          \* FALSE once the process has dereferenced a null item

vars == <<online, place, loc, tradeState, tradePartner, tradeItem,
          tradeItems, alive>>
tradeVars == <<tradeState, tradePartner, tradeItem, tradeItems>>

TypeOK ==
  /\ online \subseteq Players
  /\ place \in [Players -> Places]
  /\ loc \in [Items -> Players \cup Places \cup Containers \cup {Gone}]
  /\ tradeState \in [Players -> {"NONE", "INITIATED", "ACKNOWLEDGE", "ACCEPT"}]
  /\ tradePartner \in [Players -> Players \cup {NoPlayer}]
  /\ tradeItem \in [Players -> Items \cup {NoItem}]
  /\ tradeItems \in [Items -> Players \cup {NoPlayer}]
  /\ alive \in BOOLEAN

Abs(n) == IF n < 0 THEN -n ELSE n

-----------------------------------------------------------------------------
(* The forest of items. *)

(* The containers that hold i, at any depth, under the placement l: they    *)
(* are in every set that has the one i lies in and is closed upwards.       *)
Above(l, S) == {l[c] : c \in S} \cap Containers

Around(l, i) ==
  {c \in Containers :
     \A S \in SUBSET Containers : Above(l, S \cup {i}) \subseteq S => c \in S}

(* Container::isHoldingItem, at any depth. *)
IsHoldingItem(l, c, i) == c \in Around(l, i)

(* The player, the place or the void an item finally lies in. *)
Root(l, i) ==
  CHOOSE r \in {l[c] : c \in Around(l, i) \cup {i}} : r \notin Containers

(* Item::getPosition. *)
PositionOf(l, i) ==
  IF Root(l, i) \in Players THEN place[Root(l, i)] ELSE Root(l, i)

InReach(p, l, i) ==
  Root(l, i) # Gone /\ Abs(PositionOf(l, i) - place[p]) <= 1
PlayersInRange(p, q) == Abs(place[p] - place[q]) <= 2

Overlap(i, j) == i = j \/ IsHoldingItem(loc, i, j) \/ IsHoldingItem(loc, j, i)

-----------------------------------------------------------------------------
Init ==
  /\ online = {}
  /\ place \in [Players -> Places]
  /\ loc \in [Items -> Players \cup Places]
  /\ tradeState = [p \in Players |-> "NONE"]
  /\ tradePartner = [p \in Players |-> NoPlayer]
  /\ tradeItem = [p \in Players |-> NoItem]
  /\ tradeItems = [i \in Items |-> NoPlayer]
  /\ alive = TRUE

(* Variants of the operators below, each with one slip a change of this     *)
(* code could make; the runs must notice them.                              *)
BeingTradedExactly(i) == tradeItems[i] # NoPlayer
OnlyThese(S) == S
NeverErased(Q, i) == FALSE
NotClosedByMove(p, to) == FALSE
NeverMisplaces(d, b) == FALSE
StackDestinations(l, q, i) ==
  {q} \cup {c \in Items \ {i} : Root(l, c) = q /\ ~IsHoldingItem(l, i, c)}

-----------------------------------------------------------------------------
(* Game::internalCloseTrade, called for every player of S: it clears the    *)
(* partner as well.                                                         *)
WithPartners(S) == S \cup ({tradePartner[p] : p \in S} \cap Players)

Erased(Q, i) == \E p \in Q : tradeItem[p] = i

CloseTrades(S) ==
  LET Q == WithPartners(S) IN
  /\ tradeState' = [p \in Players |-> IF p \in Q THEN "NONE" ELSE tradeState[p]]
  /\ tradePartner' =
       [p \in Players |-> IF p \in Q THEN NoPlayer ELSE tradePartner[p]]
  /\ tradeItem' = [p \in Players |-> IF p \in Q THEN NoItem ELSE tradeItem[p]]
  /\ tradeItems' =
       [i \in Items |-> IF Erased(Q, i) THEN NoPlayer ELSE tradeItems[i]]

(* The check in playerRequestTrade: an item is refused when it is offered,  *)
(* holds an offered item or lies in one.                                    *)
BeingTraded(i) == \E j \in Items : tradeItems[j] # NoPlayer /\ Overlap(i, j)

(* playerRequestTrade with internalStartTrade.  The offer may come first    *)
(* (the partner is asked to acknowledge) or be the answer.                  *)
RequestTrade(p, q, i) ==
  /\ p \in online /\ q \in online /\ p # q
  /\ PlayersInRange(p, q)
  /\ Root(loc, i) \in {p} \cup Places /\ InReach(p, loc, i)
  /\ ~BeingTraded(i)
  /\ \/ tradeState[p] = "NONE"
     \/ tradeState[p] = "ACKNOWLEDGE" /\ tradePartner[p] = q
  /\ \/ tradeState[q] = "NONE"
     \/ tradePartner[q] = p
  /\ tradeItem' = [tradeItem EXCEPT ![p] = i]
  /\ tradeItems' = [tradeItems EXCEPT ![i] = p]
  /\ IF tradeState[q] = "NONE"
     THEN /\ tradeState' = [tradeState EXCEPT ![p] = "INITIATED",
                                              ![q] = "ACKNOWLEDGE"]
          /\ tradePartner' = [tradePartner EXCEPT ![p] = q, ![q] = p]
     ELSE /\ tradeState' = [tradeState EXCEPT ![p] = "INITIATED"]
          /\ tradePartner' = [tradePartner EXCEPT ![p] = q]
  /\ UNCHANGED <<online, place, loc, alive>>

MayAccept(p) ==
  p \in online /\ tradeState[p] \in {"ACKNOWLEDGE", "INITIATED"}

(* playerAcceptTrade by the first of the two. *)
AcceptFirst(p) ==
  /\ MayAccept(p)
  /\ tradeState[tradePartner[p]] # "ACCEPT"
  /\ tradeState' = [tradeState EXCEPT ![p] = "ACCEPT"]
  /\ UNCHANGED <<online, place, loc, tradePartner, tradeItem, tradeItems,
                 alive>>

AcceptsSecond(p) == MayAccept(p) /\ tradeState[tradePartner[p]] = "ACCEPT"

BothOffer(p) == tradeItem[p] # NoItem /\ tradeItem[tradePartner[p]] # NoItem

(* Where internalMoveItem may put item i for player q: into the inventory   *)
(* or into a container there, never into the item itself.                   *)
Destinations(l, q, i) ==
  {q} \cup {c \in Containers \ {i} :
              Root(l, c) = q /\ ~IsHoldingItem(l, i, c)}

(* The last argument of internalMoveItem: the first of the two moves must   *)
(* not end in the item that is about to leave.                              *)
Misplaces(d, b) == d = b \/ (d \in Items /\ IsHoldingItem(loc, b, d))

(* Other players watching the two items go: the trades their callbacks      *)
(* close, see ItemMoves.                                                    *)
Sees(p, l, x) ==
  IF x \in Players THEN p = x
  ELSE IF x \in Places THEN Abs(place[p] - x) <= 2
  ELSE Root(l, x) # Gone /\ Abs(place[p] - PositionOf(l, x)) <= 2

(* onRemoveTileItem, onRemoveInventoryItem and onRemoveContainerItem with   *)
(* checkTradeState: i is the offer, lies in it or holds it; a container     *)
(* that loses anything closes the trades of offers deeper inside it.        *)
ClosedByRemoval(p, i) ==
  /\ p \in online /\ tradeItem[p] # NoItem
  /\ Sees(p, loc, loc[i])
  /\ \/ Overlap(i, tradeItem[p])
     \/ /\ loc[i] \in Containers
        /\ loc[tradeItem[p]] # loc[i]
        /\ IsHoldingItem(loc, loc[i], tradeItem[p])

(* onAddContainerItem: something is put into the offer. *)
ClosedByAdding(p, d) ==
  /\ p \in online /\ tradeItem[p] # NoItem
  /\ d \in Containers
  /\ Sees(p, loc, d)
  /\ d = tradeItem[p] \/ IsHoldingItem(loc, tradeItem[p], d)

(* playerAcceptTrade by the second of the two: the first move.  Both items  *)
(* find room when that is tested, or the handler has already given up.      *)
FirstMove(p, a, b, d) ==
  /\ d \in Destinations(loc, tradePartner[p], a)
  /\ ~Misplaces(d, b)

WatchersOf(q, i, d) ==
  {o \in Players \ {q} : ClosedByRemoval(o, i) \/ ClosedByAdding(o, d)}

(* Both moves succeed: the room the second was tested with is still there,  *)
(* unless see below.                                                        *)
Exchange(p) ==
  LET q == tradePartner[p]
      a == tradeItem[p]
      b == tradeItem[q]
  IN /\ AcceptsSecond(p) /\ BothOffer(p)
     /\ \E d \in Players \cup Containers :
          /\ FirstMove(p, a, b, d)
          /\ LET l == [loc EXCEPT ![a] = d] IN
             \E e \in Destinations(l, p, b) :
               /\ loc' = [l EXCEPT ![b] = e]
               /\ CloseTrades({p} \cup WatchersOf(q, a, d) \cup WatchersOf(q, b, e))
     /\ UNCHANGED <<online, place, alive>>

(* The test lets a stack merge with another, the move (FLAG_IGNOREAUTOSTACK) *)
(* needs a slot of its own; a slot is certain when the other offer has just  *)
(* left a container of the same player.                                      *)
NeedsSlot(p, a, b) ==
  b \in Stackable /\ ~(loc[a] \in Containers /\ Root(loc, a) = p)

(* The second move fails, and nothing looks at its result. *)
HalfExchange(p) ==
  LET q == tradePartner[p]
      a == tradeItem[p]
      b == tradeItem[q]
  IN /\ AcceptsSecond(p) /\ BothOffer(p) /\ NeedsSlot(p, a, b)
     /\ \E d \in Players \cup Containers :
          /\ FirstMove(p, a, b, d)
          /\ loc' = [loc EXCEPT ![a] = d]
          /\ CloseTrades({p} \cup WatchersOf(q, a, d))
     /\ UNCHANGED <<online, place, alive>>

(* The same when there is no room, or the event script refuses. *)
ExchangeFails(p) ==
  /\ AcceptsSecond(p) /\ BothOffer(p)
  /\ CloseTrades({p})
  /\ UNCHANGED <<online, place, loc, alive>>

(* A player who only acknowledged may accept too.  The handler then works   *)
(* on a null item: without an accept script internalAddItem refuses it, with *)
(* one (or when the other offer is the player's own backpack) it is          *)
(* dereferenced.                                                            *)
ExchangeNothing(p) ==
  /\ AcceptsSecond(p) /\ ~BothOffer(p)
  /\ \/ CloseTrades({p}) /\ UNCHANGED <<online, alive>>
     \/ /\ alive' = FALSE     \* the process ends, with all it held
        /\ online' = {}
        /\ CloseTrades(Players)
  /\ UNCHANGED <<place, loc>>

(* playerCloseTrade. *)
CloseTrade(p) ==
  /\ p \in online
  /\ CloseTrades({p})
  /\ UNCHANGED <<online, place, loc, alive>>

-----------------------------------------------------------------------------
(* Player::onRemoveCreature. *)
Logout(p) ==
  /\ p \in online
  /\ online' = online \ {p}
  /\ CloseTrades(IF tradePartner[p] # NoPlayer THEN {p} ELSE {})
  /\ UNCHANGED <<place, loc, alive>>

Login(p) ==
  /\ alive /\ p \notin online
  /\ online' = online \cup {p}
  /\ \E x \in Places : place' = [place EXCEPT ![p] = x]
  /\ UNCHANGED <<loc, tradeVars, alive>>

(* Player::onCreatureMove of the player who moved. *)
ClosedByMove(p, to) ==
  \/ /\ tradeItem[p] # NoItem
     /\ Root(loc, tradeItem[p]) # p
     /\ Abs(PositionOf(loc, tradeItem[p]) - to) > 1
  \/ /\ tradePartner[p] # NoPlayer
     /\ Abs(place[tradePartner[p]] - to) > 2

Walk(p, to) ==
  /\ p \in online /\ to # place[p]
  /\ place' = [place EXCEPT ![p] = to]
  /\ CloseTrades(IF ClosedByMove(p, to) THEN {p} ELSE {})
  /\ UNCHANGED <<online, loc, alive>>

(* internalMoveItem on behalf of a player who can reach both ends. *)
MoveItem(p, i, d) ==
  /\ p \in online /\ d # loc[i]
  /\ Root(loc, i) \in {p} \cup Places /\ InReach(p, loc, i)
  /\ \/ d = p
     \/ d \in Places /\ Abs(place[p] - d) <= 1
     \/ /\ d \in Containers \ {i} /\ ~IsHoldingItem(loc, i, d)
        /\ Root(loc, d) \in {p} \cup Places /\ InReach(p, loc, d)
  /\ loc' = [loc EXCEPT ![i] = d]
  /\ CloseTrades({o \in Players : ClosedByRemoval(o, i) \/ ClosedByAdding(o, d)})
  /\ UNCHANGED <<online, place, alive>>

(* internalRemoveItem: used up, sold or decayed, with all it holds. *)
RemoveItem(i) ==
  /\ alive
  /\ Root(loc, i) # Gone
  /\ Root(loc, i) \in online \cup Places
  /\ loc' = [loc EXCEPT ![i] = Gone]
  /\ CloseTrades({o \in Players : ClosedByRemoval(o, i)})
  /\ UNCHANGED <<online, place, alive>>

-----------------------------------------------------------------------------
Next ==
  \/ \E p, q \in Players, i \in Items : RequestTrade(p, q, i)
  \/ \E p \in Players :
       \/ AcceptFirst(p) \/ Exchange(p) \/ HalfExchange(p) \/ ExchangeFails(p)
       \/ ExchangeNothing(p) \/ CloseTrade(p) \/ Logout(p) \/ Login(p)
  \/ \E p \in Players, to \in Places : Walk(p, to)
  \/ \E p \in Players, i \in Items, d \in Players \cup Places \cup Containers :
       MoveItem(p, i, d)
  \/ \E i \in Items : RemoveItem(i)

Spec == Init /\ [][Next]_vars

-----------------------------------------------------------------------------
(* The two sides of a trade agree: partners point at each other, both are   *)
(* in the game, and a player without a partner is in no trade.              *)
Symmetric ==
  \A p, q \in Players :
    /\ tradePartner[p] = q => tradePartner[q] = p /\ p # q /\ q \in online
    /\ tradeState[p] = "NONE" <=> tradePartner[p] = NoPlayer

(* Game::tradeItems holds exactly the offers of players in a trade: no      *)
(* entry outlives its trade, which would bar the item from trading and leak  *)
(* its reference.                                                           *)
OffersRegistered ==
  /\ \A p \in Players, i \in Items : tradeItems[i] = p <=> tradeItem[p] = i
  /\ \A p \in Players : tradeItem[p] # NoItem => tradeState[p] # "NONE"

(* No offer is, holds or lies in another offer, however items moved since:  *)
(* an exchange moves two separate things.                                   *)
OffersDisjoint ==
  \A i, j \in Items :
    tradeItems[i] # NoPlayer /\ tradeItems[j] # NoPlayer /\ i # j
      => ~Overlap(i, j)

(* While a trade is on, the partners stand in range of each other and the   *)
(* offer exists within reach of its owner, not in someone else's hands.     *)
OffersInReach ==
  \A p \in Players :
    /\ tradePartner[p] # NoPlayer => PlayersInRange(p, tradePartner[p])
    /\ tradeItem[p] # NoItem =>
         /\ Root(loc, tradeItem[p]) \in {p} \cup Places
         /\ InReach(p, loc, tradeItem[p])

(* The two players and the table of offers tell the same story of a trade,  *)
(* whichever of its many callers closed the one before, and offers keep     *)
(* what playerRequestTrade has tested, whatever moves since.                *)
TradeInv ==
  TypeOK /\ Symmetric /\ OffersRegistered /\ OffersDisjoint /\ OffersInReach

(* An offer goes from its owner's hands into the partner's, and what it was *)
(* exchanged for comes back.                                                *)
Gives(p) ==
  LET q == tradePartner[p] IN
  /\ q # NoPlayer /\ tradeItem[p] # NoItem
  /\ Root(loc, tradeItem[p]) = p
  /\ Root(loc', tradeItem[p]) = q
Gets(p) ==
  LET b == tradeItem[tradePartner[p]] IN b # NoItem /\ Root(loc', b) = p

(* When an offer leaves its owner's hands for the partner's, the partner's   *)
(* offer comes back in the same step, and neither item ends inside the       *)
(* other; only a stack may stay behind, when the slot it needs was not the   *)
(* one that became free.                                                     *)
ExchangeIsMutual ==
  [][\A p \in Players :
       Gives(p) => Gets(p) \/ NeedsSlot(p, tradeItem[p],
                                        tradeItem[tradePartner[p]])]_vars

(* What the success that onTradeCompleted is told of stands for: nobody      *)
(* gives anything away in a trade without getting the partner's offer.  The  *)
(* code does not keep it: see HalfExchange.                                  *)
NothingForNothing == [][\A p \in Players : Gives(p) => Gets(p)]_vars
=============================================================================
