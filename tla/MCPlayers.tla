----------------------------- MODULE MCPlayers -----------------------------
(***************************************************************************)
(* What players do with each other, in one run: parties and trades.  As in *)
(* MCOnline the two share no variable, and a behaviour is one of the        *)
(* component that is busy.  Party is extended, Trade is an instance.        *)
(*                                                                         *)
(* Bounds: three players; two addresses for a party, levels just too far   *)
(* apart for the two-thirds rule, and two places just out of range of each *)
(* other; for trades squares 0, 1 and 3 of a line, so that of two of them  *)
(* one pair is in reach of an item, one in range of a partner and one in   *)
(* neither, and two containers among the items, so that an item can lie    *)
(* two deep.                                                               *)
(***************************************************************************)
EXTENDS Party, TLC

CONSTANTS
  Items, Containers, Stackable, Squares, NoPlayer, NoItem, Gone   \* Trade

ASSUME PlayersAssumption ==
  /\ Containers \subseteq Items
  /\ Stackable \subseteq Items \ Containers
  /\ Squares \subseteq Int
  /\ (Players \cup Squares \cup {Gone}) \cap Items = {}
  /\ Players \cap Squares = {} /\ Gone \notin Players \cup Squares
  /\ NoPlayer \notin Players
  /\ NoItem \notin Items

VARIABLES
  playing, square,     \* online and place of Trade
  loc, tradeState, tradePartner, tradeItem, tradeItems, alive,
  busy                 \* the component whose behaviour this is

Trades == INSTANCE Trade WITH
  Places <- Squares, online <- playing, place <- square

tradesVars == <<playing, square, loc, tradeState, tradePartner, tradeItem,
                tradeItems, alive>>

(* The one that rests does so in one of its initial states. *)
PlayersInit ==
  /\ busy \in {"parties", "trades"}
  /\ Init /\ Trades!Init
  /\ busy = "parties" =>
       /\ square = [p \in Players |-> CHOOSE x \in Squares : TRUE]
       /\ loc = [i \in Items |-> CHOOSE x \in Squares : TRUE]
  /\ busy = "trades" =>
       /\ level = [p \in Players |-> CHOOSE n \in Levels : TRUE]
       /\ place = [p \in Players |-> CHOOSE x \in Places : TRUE]

PlayersNext ==
  \/ busy = "parties" /\ Next /\ UNCHANGED <<tradesVars, busy>>
  \/ busy = "trades" /\ Trades!Next /\ UNCHANGED <<vars, busy>>

PlayersSpec == PlayersInit /\ [][PlayersNext]_<<vars, tradesVars, busy>>

-----------------------------------------------------------------------------
(* The properties of Trade, as it states them.                              *)
TradeInv == Trades!TradeInv
ExchangeIsMutual == Trades!ExchangeIsMutual

LineSquares == {0, 1, 3}

(* Safety only, and nothing orders the players, the parties or the          *)
(* containers.                                                              *)
Sym == Permutations(Players) \cup Permutations(Parties) \cup Permutations(Containers)
=============================================================================
