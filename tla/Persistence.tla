----------------------------- MODULE Persistence -----------------------------
(***************************************************************************)
(* Saving and loading players, houses and market offers (iologindata.cpp,  *)
(* iomapserialize.cpp, market.cpp) over a database connection with         *)
(* transactions (database.cpp).  All of it runs on the dispatcher: nothing *)
(* moves during a save, but a statement may fail and the process may end   *)
(* between any two.  Only the place of each item is kept, and of the       *)
(* tables those that hold items.  The tables are InnoDB (schemas/).  A     *)
(* connection that is lost stays lost, executeQuery retries for ever and   *)
(* the process must be killed: a crash here.  A ROLLBACK only fails with   *)
(* the connection, a COMMIT that fails has been rolled back by the server. *)
(* After a BEGIN that failed the destructor unlocks a mutex it does not    *)
(* hold, which changes nothing in the library of the build.                *)
(***************************************************************************)
EXTENDS Naturals, Sequences, FiniteSets

CONSTANTS
  Players, Items, None,
  Initial,     \* places the database has items in at first
  Packet,      \* rows that fit into one INSERT, see DBInsert::addRow
  MaxMoves,    \* bound: times an item changes its place
  MaxFailures, \* bound: statements that fail
  MaxCrashes,  \* bound: crashes, before a last clean run
  MaxSessions  \* bound: logins and game saves

ASSUME PersistenceAssumption ==
  /\ None \notin Players /\ IsFiniteSet(Items) /\ IsFiniteSet(Players)
  /\ Packet \in Nat \ {0}
  /\ Initial \subseteq (Players \X {"items", "depot", "inbox"})
                  \cup {<<None, "tile_store">>, <<None, "market_offers">>}
  /\ {MaxMoves, MaxFailures, MaxCrashes, MaxSessions} \subseteq Nat

VARIABLES
  phase,     \* of the server
  online,
  opened,    \* players with lastDepotId # -1
  held,      \* the items of each place in memory
  todo,      \* the saves to do, in order; the first is in progress
  at,        \* its statement
  rows,      \* what the database has committed
  work,      \* what the server's connection sees
  begun,     \* it is in a transaction
  locked,    \* Database::databaseLock, by DBTransaction
  damaged,   \* history: a crash, a save that was given up or a bad load
  count      \* what the bounds limit

vars == <<phase, online, opened, held, todo, at, rows, work, begun, locked,
          damaged, count>>
store == <<rows, work, begun, locked>>

Tables == {"items", "depot", "inbox"}
House == <<None, "tile_store">>
Market == <<None, "market_offers">>
Of(p) == {p} \X Tables
Places == (Players \X Tables) \cup {House, Market}

Saves == [what : {"player", "info", "house", "market"},
          who : Players \cup {None}, tries : 1..3, leaves : BOOLEAN]

TypeOK ==
  /\ phase \in {"open", "stopping", "closing", "down"}
  /\ online \subseteq Players /\ opened \subseteq Players
  /\ held \in [Places -> SUBSET Items]
  /\ todo \in Seq(Saves) /\ at \in Nat
  /\ rows \in [Places -> SUBSET Items] /\ work \in [Places -> SUBSET Items]
  /\ begun \in BOOLEAN /\ locked \in BOOLEAN /\ damaged \in BOOLEAN
  /\ count \in [moves : 0..MaxMoves, failures : 0..MaxFailures,
                crashes : 0..MaxCrashes, sessions : 0..MaxSessions]

Empty == [x \in Places |-> {}]

Init ==
  /\ phase = "down"
  /\ online = {} /\ opened = {}
  /\ held = Empty
  /\ todo = <<>> /\ at = 1
  /\ \E f \in [Items -> Initial] :
       rows = [x \in Places |-> {i \in Items : f[i] = x}]
  /\ work = rows
  /\ begun = FALSE /\ locked = FALSE
  /\ damaged = FALSE
  /\ count = [moves |-> 0, failures |-> 0, crashes |-> 0, sessions |-> 0]

SavePlayer(p, tries, leaves) ==
  [what |-> "player", who |-> p, tries |-> tries, leaves |-> leaves]
SaveMap == <<[what |-> "info", who |-> None, tries |-> 3, leaves |-> FALSE],
             [what |-> "house", who |-> None, tries |-> 3, leaves |-> FALSE]>>
SaveMarketItems ==
  [what |-> "market", who |-> None, tries |-> 1, leaves |-> FALSE]

Replace(x) == << <<"delete", x>>, <<"insert", x>> >>

(* Variants of the operators below, each with one slip a change of this     *)
(* code could make; the runs must notice them.                              *)
NeverDepot(p) == <<>>
NoBegin == begun' = FALSE /\ locked' = TRUE
KeepsLock == work' = rows /\ begun' = FALSE /\ UNCHANGED <<rows, locked>>

-----------------------------------------------------------------------------
(* The statements of a save.  What they write beside items (the row of the  *)
(* player, spells, storage, the access lists of houses) is one "update".    *)
Depot(p) == IF p \in opened THEN Replace(<<p, "depot">>) ELSE <<>>

Player(p) ==
  << <<"select">>, <<"begin">>, <<"update">> >> \o Replace(<<p, "items">>)
  \o Depot(p) \o Replace(<<p, "inbox">>) \o << <<"commit">> >>

Statements(s) ==
  CASE s.what = "player" -> Player(s.who)
    [] s.what = "info"   -> << <<"begin">>, <<"update">>, <<"commit">> >>
    [] s.what = "house"  -> << <<"begin">> >> \o Replace(House) \o << <<"commit">> >>
    [] s.what = "market" -> Replace(Market)

Saving == todo # <<>>
Save == Head(todo)
Statement == Statements(Save)[at]

(* The object of a player who leaves, or of one that was loaded to be given *)
(* something, is deleted after its save, whatever came of it.               *)
After(s) ==
  IF s.leaves
  THEN /\ held' = [x \in Places |-> IF x \in Of(s.who) THEN {} ELSE held[x]]
       /\ online' = online \ {s.who}
       /\ opened' = opened \ {s.who}
  ELSE UNCHANGED <<held, online, opened>>

Finish == todo' = Tail(todo) /\ at' = 1 /\ After(Save)

Proceed ==
  IF at < Len(Statements(Save))
  THEN at' = at + 1 /\ UNCHANGED <<todo, held, online, opened>>
  ELSE Finish

(* Outside of a transaction a statement commits itself. *)
Wrote(w) == work' = w /\ rows' = (IF begun THEN rows ELSE w)

BeginTransaction == begun' = TRUE /\ locked' = TRUE

Begin ==
  /\ Saving /\ Statement = <<"begin">>
  /\ BeginTransaction
  /\ Proceed
  /\ UNCHANGED <<phase, rows, work, damaged, count>>

Delete ==
  /\ Saving /\ Statement[1] = "delete"
  /\ Wrote([work EXCEPT ![Statement[2]] = {}])
  /\ Proceed
  /\ UNCHANGED <<phase, begun, locked, damaged, count>>

(* DBInsert splits rows over statements.  The offers of the market are      *)
(* numbered from 1: while old ones are there the INSERT fails, see Fail.    *)
Missing == held[Statement[2]] \ work[Statement[2]]

Insert ==
  /\ Saving /\ Statement[1] = "insert"
  /\ work[Statement[2]] \subseteq held[Statement[2]]
  /\ \E S \in SUBSET Missing :
       /\ Cardinality(S) = (IF Cardinality(Missing) > Packet THEN Packet
                            ELSE Cardinality(Missing))
       /\ Wrote([work EXCEPT ![Statement[2]] = @ \cup S])
       /\ IF S = Missing THEN Proceed
          ELSE UNCHANGED <<todo, at, held, online, opened>>
  /\ UNCHANGED <<phase, begun, locked, damaged, count>>

Other ==
  /\ Saving /\ Statement[1] \in {"select", "update"}
  /\ Proceed
  /\ UNCHANGED <<phase, store, damaged, count>>

Commit ==
  /\ Saving /\ Statement = <<"commit">>
  /\ rows' = work /\ begun' = FALSE /\ locked' = FALSE
  /\ Proceed
  /\ UNCHANGED <<phase, work, damaged, count>>

(* ~DBTransaction *)
Rollback == work' = rows /\ begun' = FALSE /\ locked' = FALSE /\ UNCHANGED rows

(* A failed save is tried again by Player::onRemoveCreature and Map::save,  *)
(* which leaves out the items of the houses when their owners were not      *)
(* saved.                                                                   *)
TriesAgain(s) == s.tries > 1

GiveUp ==
  /\ todo' = (IF Save.what = "info" THEN Tail(Tail(todo)) ELSE Tail(todo))
  /\ at' = 1
  /\ After(Save)
  /\ damaged' = (damaged \/ Save.leaves \/ phase # "open")

Abandon ==
  IF TriesAgain(Save)
  THEN /\ todo' = [todo EXCEPT ![1].tries = @ - 1] /\ at' = 1
       /\ UNCHANGED <<held, online, opened, damaged>>
  ELSE GiveUp

Failing ==
  /\ Saving /\ count.failures < MaxFailures
  /\ count' = [count EXCEPT !.failures = @ + 1]
  /\ UNCHANGED phase

(* A statement fails inside the life of a DBTransaction, or its COMMIT. *)
Fail ==
  /\ Failing /\ Save.what # "market" /\ Statement[1] # "select"
  /\ Rollback /\ Abandon

(* The SELECT comes before the transaction. *)
FailSelect ==
  /\ Failing /\ Statement[1] = "select"
  /\ Abandon /\ UNCHANGED store

(* saveMarketItems ignores the result of the DELETE. *)
FailMarket ==
  /\ Failing /\ Save.what = "market"
  /\ UNCHANGED store
  /\ IF Statement[1] = "delete"
     THEN Proceed /\ damaged' = TRUE
     ELSE GiveUp

DuplicateId ==
  /\ Saving /\ Statement[1] = "insert"
  /\ ~(work[Statement[2]] \subseteq held[Statement[2]])
  /\ Save.what = "market"
  /\ GiveUp
  /\ UNCHANGED <<phase, store, count>>

-----------------------------------------------------------------------------
Idle == phase = "open" /\ ~Saving

Moved ==
  /\ count.moves < MaxMoves
  /\ count' = [count EXCEPT !.moves = @ + 1]

Session ==
  /\ count.sessions < MaxSessions
  /\ count' = [count EXCEPT !.sessions = @ + 1]

(* Where the game can put an item: the market takes and gives items of its  *)
(* players, a depot is reached when its player has opened it.               *)
Reachable(x) ==
  \/ x \in {House, Market}
  \/ x[1] \in online /\ (x[2] = "depot" => x[1] \in opened)

MoveItem(i, x, y) ==
  /\ Idle /\ Moved
  /\ x # y /\ i \in held[x] /\ Reachable(x) /\ Reachable(y)
  /\ held' = [held EXCEPT ![x] = @ \ {i}, ![y] = @ \cup {i}]
  /\ UNCHANGED <<phase, online, opened, todo, at, store, damaged>>

(* Actions::internalUseItem sets lastDepotId. *)
OpenDepot(p) ==
  /\ Idle /\ p \in online \ opened
  /\ opened' = opened \cup {p}
  /\ UNCHANGED <<phase, online, held, todo, at, store, damaged, count>>

(* loadPlayer.  A SELECT that fails reads like a table without rows.        *)
Loaded(p, unread) ==
  [x \in Places |-> IF x \in Of(p) /\ x[2] \notin unread THEN work[x] ELSE held[x]]

Unread(unread) ==
  IF unread = {} THEN UNCHANGED damaged
  ELSE /\ Cardinality(unread) = 1 /\ count.failures < MaxFailures
       /\ damaged' = TRUE

Login(p, unread) ==
  /\ Idle /\ p \notin online /\ count.sessions < MaxSessions
  /\ Unread(unread)
  /\ count' = [count EXCEPT !.sessions = @ + 1,
                            !.failures = @ + Cardinality(unread)]
  /\ online' = online \cup {p}
  /\ held' = Loaded(p, unread)
  /\ UNCHANGED <<phase, opened, todo, at, store>>

Logout(p) ==
  /\ Idle /\ p \in online
  /\ todo' = <<SavePlayer(p, 3, TRUE)>>
  /\ UNCHANGED <<phase, online, opened, held, at, store, damaged, count>>

(* Mail to a player who is offline, and House::transferToDepot, load the    *)
(* player, move the items and save once.                                    *)
Give(S, x, p) ==
  /\ Idle /\ Moved /\ p \notin online
  /\ S # {} /\ S \subseteq held[x] /\ Reachable(x) /\ x # Market
  /\ x[2] = "tile_store" \/ Cardinality(S) = 1
  /\ held' = [Loaded(p, {}) EXCEPT ![x] = @ \ S, ![<<p, "inbox">>] = @ \cup S]
  /\ todo' = <<SavePlayer(p, 1, TRUE)>>
  /\ UNCHANGED <<phase, online, opened, at, store, damaged>>

Orders(S) == {s \in [1..Cardinality(S) -> S] : \A p \in S : \E k \in DOMAIN s : s[k] = p}

SaveGameState ==
  /\ Idle /\ Session
  /\ \E s \in Orders(online) :
       todo' = [k \in DOMAIN s |-> SavePlayer(s[k], 1, FALSE)] \o SaveMap
  /\ UNCHANGED <<phase, online, opened, held, at, store, damaged>>

(* setGameState(GAME_STATE_SHUTDOWN): everybody is kicked, which saves      *)
(* them, and the game is saved.  Game::shutdown is a task of its own.       *)
Shutdown ==
  /\ Idle
  /\ phase' = "stopping"
  /\ \E s \in Orders(online) :
       todo' = [k \in DOMAIN s |-> SavePlayer(s[k], 3, TRUE)] \o SaveMap
  /\ UNCHANGED <<online, opened, held, at, store, damaged, count>>

GameShutdown ==
  /\ phase = "stopping" /\ ~Saving
  /\ phase' = "closing"
  /\ todo' = <<SaveMarketItems>>
  /\ UNCHANGED <<online, opened, held, at, store, damaged, count>>

(* The process ends, and with it the connection and what it left open. *)
Ends ==
  /\ phase' = "down"
  /\ online' = {} /\ opened' = {} /\ held' = Empty
  /\ todo' = <<>> /\ at' = 1
  /\ work' = rows /\ begun' = FALSE /\ locked' = FALSE
  /\ UNCHANGED rows

Exit ==
  /\ phase = "closing" /\ ~Saving
  /\ Ends /\ UNCHANGED <<damaged, count>>

Crash ==
  /\ phase # "down" /\ count.crashes < MaxCrashes
  /\ count' = [count EXCEPT !.crashes = @ + 1]
  /\ Ends /\ damaged' = TRUE

(* loadHouseItems and loadMarketItems *)
Startup ==
  /\ phase = "down" /\ Session
  /\ phase' = "open"
  /\ held' = [Empty EXCEPT ![House] = rows[House], ![Market] = rows[Market]]
  /\ UNCHANGED <<online, opened, todo, at, store, damaged>>

Next ==
  \/ Begin \/ Delete \/ Insert \/ Other \/ Commit
  \/ Fail \/ FailSelect \/ FailMarket \/ DuplicateId
  \/ \E i \in Items, x, y \in Places : MoveItem(i, x, y)
  \/ \E S \in SUBSET Items, x \in Places, p \in Players : Give(S, x, p)
  \/ \E p \in Players :
       OpenDepot(p) \/ Logout(p) \/ \E unread \in SUBSET Tables : Login(p, unread)
  \/ SaveGameState \/ Shutdown \/ GameShutdown \/ Exit \/ Crash \/ Startup

Spec == Init /\ [][Next]_vars

-----------------------------------------------------------------------------
(* The lock of the database is held exactly from BEGIN to the COMMIT or     *)
(* ROLLBACK of the same save, whichever statement fails: the next holder    *)
(* would wait for ever, or save into somebody else's transaction.           *)
LockIsBalanced ==
  locked <=> /\ Saving /\ Save.what # "market"
             /\ \E k \in 1..(at - 1) : Statements(Save)[k] = <<"begin">>

(* Where an item is: with the holders in memory, or in the rows of somebody *)
(* who is not in memory.                                                    *)
InMemory(x) ==
  /\ phase # "down"
  /\ x \in {House, Market} \/ x[1] \in online
Whereabouts(i) ==
  {x \in Places : i \in (IF InMemory(x) THEN held[x] ELSE work[x])}

(* Without a crash or a save that had to be given up no item is lost or     *)
(* doubled, over any sequence of moves, mail, logins, failed and repeated   *)
(* saves and restarts: the server saves everything that has moved before it *)
(* forgets it, each item in one place.                                      *)
ItemsAreKept ==
  ~damaged /\ ~Saving =>
    /\ \A i \in Items : Cardinality(Whereabouts(i)) = 1
    /\ \A p \in online \ opened : held[<<p, "depot">>] = work[<<p, "depot">>]

StoreInv == TypeOK /\ LockIsBalanced /\ ItemsAreKept

(* What the database keeps of a player or of the houses only ever changes   *)
(* to everything memory holds of them at one moment: a crash or a failure   *)
(* in the middle of a save leaves no half of it behind.  The market is      *)
(* saved outside of a transaction and keeps no such promise.                *)
Whole(g) ==
  (\E x \in g : rows'[x] # rows[x]) =>
     \A x \in g : rows'[x] = held[x] \/ (x[2] = "depot" /\ rows'[x] = rows[x])

SavesAreWhole ==
  [][Whole({House}) /\ \A p \in Players : Whole(Of(p))]_vars
=============================================================================
