------------------------------- MODULE MCAsio -------------------------------
(***************************************************************************)
(* The components built on handlers of boost::asio, in one run: a client's *)
(* connection, the service ports that accept connections, the throttling   *)
(* of the clients that connect to them, and the delayed events with the    *)
(* tables of scripts on top of them.  As in MCOnline they share no         *)
(* variable, and a behaviour is one of the component that is busy.         *)
(* Connection is extended, the others are instances.                       *)
(***************************************************************************)
EXTENDS Connection, FiniteSets

CONSTANTS
  MaxEvents, MaxOps,           \* LuaTimers
  Ports, MaxFailures, Prompt,  \* Services
  Clients, MaxBlock            \* Ban

ASSUME AsioAssumption ==
  /\ MaxEvents \in Nat \ {0} /\ MaxOps \in Nat
  /\ IsFiniteSet(Ports) /\ MaxFailures \in Nat /\ Prompt \in BOOLEAN
  /\ MaxBlock \in Nat /\ MaxBlock >= 12

VARIABLES
  terminated, lastEventId, ops, eventIdTimerMap, adding, io, task,
  dispatcherOpen, stopped, lastEventTimerId, timerEvents, bound, called,
  luaStopped,
  loader, main, acceptors, port, ready, game, failures,
  ipConnectMap, row,
  busy  \* the component whose behaviour this is

Timers == INSTANCE LuaTimers
Server == INSTANCE Services
Bans == INSTANCE Ban

timerVars == <<terminated, lastEventId, ops, eventIdTimerMap, adding, io, task,
               dispatcherOpen, stopped, lastEventTimerId, timerEvents, bound,
               called, luaStopped>>
serverVars == <<loader, main, acceptors, port, ready, game, failures>>
banVars == <<ipConnectMap, row>>
asioVars == <<timerVars, vars, serverVars, banVars, busy>>

AsioInit ==
  /\ Timers!LuaInit /\ Init /\ Server!Init /\ Bans!Init
  /\ busy \in {"timers", "client", "server", "bans"}

AsioNext ==
  \/ /\ busy = "timers" /\ Timers!LuaNext
     /\ UNCHANGED <<vars, serverVars, banVars, busy>>
  \/ /\ busy = "client" /\ Next
     /\ UNCHANGED <<timerVars, serverVars, banVars, busy>>
  \/ /\ busy = "server" /\ Server!Next
     /\ UNCHANGED <<timerVars, vars, banVars, busy>>
  \/ /\ busy = "bans" /\ Bans!Next
     /\ UNCHANGED <<timerVars, vars, serverVars, busy>>

AsioSpec ==
  /\ AsioInit /\ [][AsioNext]_asioVars
  /\ \/ busy = "timers" /\ Timers!LuaFairness
     \/ busy = "client" /\ Fairness
     \/ busy = "server" /\ Server!Fairness
     \/ busy = "bans"

-----------------------------------------------------------------------------
(* The properties of the components, as their modules state them: an event  *)
(* and its task, and the table of scripts; the life of a port and of main;  *)
(* Ban::acceptConnection.  Those of the connection are its own.  What must   *)
(* happen is asked of a component when it is busy.                          *)
TimersInv == Timers!SchedulerInv /\ Timers!TimerTableInv
EventsEnd == busy = "timers" => Timers!EventsEnd
SilentClientsGo == busy = "client" => SilentGoAway
ServicesInv == Server!ServicesInv
ServerGoesOn == busy = "server" => Server!ServerGoesOn
BansAreFair == Bans!BansAreFair
=============================================================================
