---------------------------- MODULE MCPossessions ----------------------------
(***************************************************************************)
(* What players own, on disk and in their hands, in one run: Persistence,  *)
(* and Items three times: with coins that a player stacks and spends, with *)
(* rings that he wears, and with boxes that two players open and take out  *)
(* of each other's reach.  They share no variable, so a behaviour in which *)
(* one of them is busy and the others rest is a behaviour of that one, and *)
(* all of its behaviours are among them.                                   *)
(***************************************************************************)
EXTENDS Persistence, TLC

CONSTANTS
  Somebody, Ground,
  Tiles, Boxes, MaxItemCount, Capacity, MaxLoad, MaxWorth  \* see Items

ASSUME PossessionsAssumption ==
  /\ IsFiniteSet(Boxes) /\ IsFiniteSet(Tiles)
  /\ \A S \in {Players, Items, Tiles, {Somebody, Ground}} : S \cap Boxes = {} /\ None \notin S
  /\ Tiles \cap Players = {}
  /\ Cardinality({Somebody, Ground} \cup Items) = 2 + Cardinality(Items)
  /\ MaxItemCount \in Nat \ {0} /\ Capacity \in Nat \ {0} /\ MaxLoad \in Nat
  /\ MaxWorth \in 0..(MaxItemCount * MaxItemCount + MaxItemCount - 1)

VARIABLES
  purse, books,           \* world and books of the coins
  fingers, fingersBooks,  \* of the rings
  hands, handsBooks,      \* of the two players
  busy                    \* the component whose behaviour this is

Coins == INSTANCE Items WITH
  Players <- {Somebody}, Tiles <- {Ground}, Rings <- {}, world <- purse
Fingers == INSTANCE Items WITH
  Players <- {Somebody}, Tiles <- {Ground}, Rings <- Items, MaxWorth <- 0,
  world <- fingers, books <- fingersBooks
Hands == INSTANCE Items WITH
  Rings <- {}, MaxWorth <- 0, world <- hands, books <- handsBooks

coinVars == <<purse, books>>
ringVars == <<fingers, fingersBooks>>
handVars == <<hands, handsBooks>>

InitialPlaces == {House}

(* Those that rest do so in one of their initial states. *)
PossessionsInit ==
  /\ busy \in {"saves", "coins", "rings", "hands"}
  /\ Init /\ Coins!Init /\ Fingers!Init /\ Hands!Init
  /\ busy # "saves" => rows[House] = Items
  /\ busy # "hands" => \A p \in Players : hands.at[p] = CHOOSE x \in Tiles : TRUE

PossessionsNext ==
  \/ busy = "saves" /\ Next /\ UNCHANGED <<coinVars, ringVars, handVars, busy>>
  \/ busy = "coins" /\ Coins!Next /\ UNCHANGED <<vars, ringVars, handVars, busy>>
  \/ busy = "rings" /\ Fingers!Next /\ UNCHANGED <<vars, coinVars, handVars, busy>>
  \/ busy = "hands" /\ Hands!Next /\ UNCHANGED <<vars, coinVars, ringVars, busy>>

PossessionsSpec ==
  PossessionsInit /\ [][PossessionsNext]_<<vars, coinVars, ringVars, handVars, busy>>

-----------------------------------------------------------------------------
(* What Items says of moved, stacked and paid items (internalMoveItem,       *)
(* internalAddItem, removeMoney), of all instances.                          *)
ItemsInv ==
  /\ busy = "coins" => Coins!ItemsInv
  /\ busy = "rings" => Fingers!ItemsInv
  /\ busy = "hands" => Hands!ItemsInv
OffersAreAsShown ==
  Coins!OffersAreAsShown /\ Fingers!OffersAreAsShown /\ Hands!OffersAreAsShown

(* Players are interchangeable, and items. *)
Symmetry == Permutations(Players) \cup Permutations(Items)
=============================================================================
