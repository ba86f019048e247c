------------------------------ MODULE MCOnline ------------------------------
(***************************************************************************)
(* Three components that serve players who log in or are online, in one    *)
(* run: the waiting list, the output pool and the asynchronous queries.     *)
(* They share no variable, so a behaviour in which one of them is busy and *)
(* the others rest is a behaviour of that one, and all of its behaviours   *)
(* are among them.                                                         *)
(***************************************************************************)
EXTENDS Naturals, FiniteSets

CONSTANTS
  Players, Premium, Always, MaxPlayers, NoPlayer, MaxEntries,  \* WaitingList
  Protocols, Capacity, MaxMessages, MaxLogins,                 \* OutputPool
  Tasks, NoTask                                                \* DatabaseTasks

ASSUME OnlineAssumption ==
  /\ IsFiniteSet(Players)
  /\ Premium \subseteq Players /\ Always \subseteq Players
  /\ NoPlayer \notin Players
  /\ MaxPlayers \in Nat /\ MaxEntries \in Nat
  /\ Capacity \in Nat \ {0} /\ MaxMessages \in Nat /\ MaxLogins \in Nat
  /\ NoTask \notin Tasks

VARIABLES
  lists, online, promised,
  bufferedProtocols, scheduled, buffer, written, wire, open, logins,
  dbState, tasks, owed, dbPc, serverPc, dbTask, flushTask, accepted, taken, executed,
  callbacks, dispatcherOpen,
  busy  \* the component whose behaviour this is

Line == INSTANCE WaitingList
Pool == INSTANCE OutputPool
Queries == INSTANCE DatabaseTasks WITH threadState <- dbState, pc <- dbPc, dpc <- serverPc

lineVars == <<lists, online, promised>>
poolVars == <<bufferedProtocols, scheduled, buffer, written, wire, open, logins>>
queryVars == <<dbState, tasks, owed, dbPc, serverPc, dbTask, flushTask, accepted, taken,
               executed, callbacks, dispatcherOpen>>
onlineVars == <<lineVars, poolVars, queryVars, busy>>

OnlineInit ==
  /\ Line!Init /\ Pool!Init /\ Queries!Init
  /\ busy \in {"line", "pool", "queries"}

OnlineNext ==
  \/ busy = "line" /\ Line!Next /\ UNCHANGED <<poolVars, queryVars, busy>>
  \/ busy = "pool" /\ Pool!Next /\ UNCHANGED <<lineVars, queryVars, busy>>
  \/ busy = "queries" /\ Queries!Next /\ UNCHANGED <<lineVars, poolVars, busy>>

OnlineSpec ==
  /\ OnlineInit /\ [][OnlineNext]_onlineVars
  /\ \/ busy = "line"
     \/ busy = "pool" /\ Pool!Fairness
     \/ busy = "queries" /\ Queries!Fairness

-----------------------------------------------------------------------------
(* The properties of the components, as their modules state them: capacity  *)
(* and places of the waiting list (clientLogin); the pool and its chain of   *)
(* sendAll events; the queue of asynchronous queries and its consumers.      *)
LineIsKept == Line!LineIsKept
PoolInv == Pool!PoolInv
ChainServes == Pool!ChainServes
QueueInv == Queries!QueueInv
QueriesEnd == Queries!QueriesEnd
=============================================================================
