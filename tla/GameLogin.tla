------------------------------ MODULE GameLogin ------------------------------
(***************************************************************************)
(* Logging in and out of the game world (protocolgame.cpp) by several      *)
(* connections for the same character.  Each connection has a ProtocolGame *)
(* whose login, connect, logout and release run on the dispatcher, while   *)
(* the network thread reads packets and closes connections between any two *)
(* of them.  A login to a character that is in the world disconnects the   *)
(* client it has and takes the player over a second later.  Player objects *)
(* are counted by reference and are named here by the connection whose     *)
(* login made them.  The two outcomes a configuration fixes are those of   *)
(* config.lua.dist: allowClones is off and replaceKickOnLogin on.          *)
(***************************************************************************)
EXTENDS Naturals, Sequences, FiniteSets

CONSTANTS
  Conns,    \* the connections, and the player objects their logins make
  None,
  MaxTasks  \* bound: the network thread adds no task when so many wait

ASSUME GameLoginAssumption ==
  None \notin Conns /\ IsFiniteSet(Conns) /\ MaxTasks \in Nat

VARIABLES
  life,        \* of the Connection object, see ConnectionLife
  first,       \* connections that have received their first message
  tasks,       \* tasks in the dispatcher, of the form <<what, connection>>
  timers,      \* connections whose connect is waiting in the scheduler
  player,      \* ProtocolGame::player
  accept,      \* ProtocolGame::acceptPackets
  target,      \* the player object connect was scheduled for
  released,    \* connections whose Protocol::release has run
  client,      \* Player::client
  connecting,  \* Player::isConnecting
  refs,        \* the reference counter of a player object
  world,       \* the players in the game
  toRelease,   \* Game::ToReleaseCreatures
  pool         \* OutputMessagePool::bufferedProtocols, with multiplicities

connVars == <<life, first, timers, target>>
protVars == <<player, accept, released, pool>>
playVars == <<client, connecting, refs, world, toRelease>>
vars == <<connVars, tasks, protVars, playVars>>

TypeOK ==
  /\ life \in [Conns -> {"new", "open", "closing", "gone"}]
  /\ first \subseteq Conns
  /\ tasks \in Seq({"login", "connect", "logout", "release"} \X Conns)
  /\ timers \subseteq Conns
  /\ player \in [Conns -> Conns \cup {None}]
  /\ accept \subseteq Conns
  /\ target \in [Conns -> Conns \cup {None}]
  /\ released \subseteq Conns
  /\ client \in [Conns -> Conns \cup {None}]
  /\ connecting \subseteq Conns
  /\ refs \in [Conns -> 0..(Cardinality(Conns) + 1)]
  /\ world \subseteq Conns
  /\ toRelease \subseteq Conns
  /\ pool \in [Conns -> 0..1]

Init ==
  /\ life = [c \in Conns |-> "new"]
  /\ first = {}
  /\ tasks = <<>>
  /\ timers = {}
  /\ player = [c \in Conns |-> None]
  /\ accept = {}
  /\ target = [c \in Conns |-> None]
  /\ released = {}
  /\ client = [c \in Conns |-> None]
  /\ connecting = {}
  /\ refs = [c \in Conns |-> 0]
  /\ world = {}
  /\ toRelease = {}
  /\ pool = [c \in Conns |-> 0]

(* Variants of the operators below, each with one slip a change of this     *)
(* code could make; the runs must notice them.                              *)
FoundOnline == {o \in world : client[o] # None}
Uncounted(o) == refs
DereferencedTwice(o) == [refs EXCEPT ![o] = @ - 2]
StillPooled(c) == pool
KeepsClient(o) == client
DropsAtOnce(c) == [life EXCEPT ![c] = IF @ = "open" THEN "gone" ELSE @]
SilentlyRefused(c) == tasks' = Tail(tasks) /\ UNCHANGED life

-----------------------------------------------------------------------------
(* Connection::close, by either thread: the first call posts the release. *)
Disconnected(c) == [life EXCEPT ![c] = IF @ = "open" THEN "closing" ELSE @]
ReleasePosted(c) ==
  IF life[c] = "open" THEN Append(tasks, <<"release", c>>) ELSE tasks

(* The network thread. *)

MayPost == Len(tasks) < MaxTasks

Accept(c) ==
  /\ life[c] = "new"
  /\ life' = [life EXCEPT ![c] = "open"]
  /\ UNCHANGED <<first, timers, target, tasks, protVars, playVars>>

(* onRecvFirstMessage posts the login, or refuses it and disconnects. *)
RecvFirstMessage(c) ==
  /\ MayPost /\ life[c] = "open" /\ c \notin first
  /\ first' = first \cup {c}
  /\ \/ tasks' = Append(tasks, <<"login", c>>) /\ UNCHANGED life
     \/ tasks' = ReleasePosted(c) /\ life' = Disconnected(c)
  /\ UNCHANGED <<timers, target, protVars, playVars>>

(* parsePacket with a logout; one of them waits at a time. *)
RecvLogout(c) ==
  /\ MayPost /\ life[c] = "open" /\ c \in accept /\ player[c] # None
  /\ \A i \in 1..Len(tasks) : tasks[i] # <<"logout", c>>
  /\ tasks' = Append(tasks, <<"logout", c>>)
  /\ UNCHANGED <<connVars, protVars, playVars>>

(* An error, a timeout, or the peer going away. *)
Hangup(c) ==
  /\ MayPost /\ life[c] = "open"
  /\ life' = Disconnected(c)
  /\ tasks' = ReleasePosted(c)
  /\ UNCHANGED <<first, timers, target, protVars, playVars>>

(* The last handler drops the Connection. *)
Expire(c) ==
  /\ life[c] = "closing"
  /\ life' = [life EXCEPT ![c] = "gone"]
  /\ UNCHANGED <<first, timers, target, tasks, protVars, playVars>>

-----------------------------------------------------------------------------
(* The dispatcher thread. *)

IsHead(what, c) == tasks # <<>> /\ Head(tasks) = <<what, c>>

(* What a task leaves of the queue when it disconnects c. *)
DoneDisconnecting(c) ==
  /\ life' = Disconnected(c)
  /\ tasks' = Tail(ReleasePosted(c))

Done == tasks' = Tail(tasks) /\ UNCHANGED life

Referenced(o) == [refs EXCEPT ![o] = @ + 1]

Dereferenced(o) == [refs EXCEPT ![o] = @ - 1]

Pooled(c) == [pool EXCEPT ![c] = @ + 1]

(* Game::getPlayerByName *)
Found == world

(* The first half of login: no such player in the world.  The player is     *)
(* made with its client; then the account, the waiting list, the load or    *)
(* the placement may refuse it, and an onLogin script may kick it out again *)
(* from within placeCreature.                                               *)
LoginNew(c) ==
  /\ IsHead("login", c)
  /\ Found = {}
  /\ player' = [player EXCEPT ![c] = c]
  /\ client' = [client EXCEPT ![c] = c]
  /\ \/ /\ DoneDisconnecting(c)
        /\ refs' = [refs EXCEPT ![c] = 1]
        /\ UNCHANGED <<accept, pool, world, toRelease>>
     \/ /\ refs' = [refs EXCEPT ![c] = 2]
        /\ accept' = accept \cup {c}
        /\ pool' = Pooled(c)
        /\ \/ Done /\ world' = world \cup {c} /\ UNCHANGED toRelease
           \/ DoneDisconnecting(c) /\ toRelease' = toRelease \cup {c} /\ UNCHANGED world
  /\ UNCHANGED <<first, timers, target, released, connecting>>

(* Game::getPlayerByID finds it and it has no client. *)
Takeable(o) == o \in world /\ client[o] = None

Expired(c) == life[c] = "gone"

Refused(c) == DoneDisconnecting(c)

(* connect: refuse, give up when the connection is gone, or take over. *)
Connect(c, o) ==
  \/ /\ ~Takeable(o)
     /\ Refused(c)
     /\ UNCHANGED <<player, accept, client, connecting, refs>>
  \/ /\ Takeable(o) /\ Expired(c)
     /\ Done
     /\ UNCHANGED <<player, accept, client, connecting, refs>>
  \/ /\ Takeable(o) /\ ~Expired(c)
     /\ Done
     /\ player' = [player EXCEPT ![c] = o]
     /\ refs' = Referenced(o)
     /\ connecting' = connecting \ {o}
     /\ client' = [client EXCEPT ![o] = c]
     /\ accept' = accept \cup {c}

(* The other half of login: the player o is in the world.  Its client is    *)
(* disconnected and connect follows in a second; with no client, at once.   *)
LoginAgain(c) ==
  /\ IsHead("login", c)
  /\ \E o \in Found :
       \/ /\ client[o] # None
          /\ DoneDisconnecting(client[o])
          /\ connecting' = connecting \cup {o}
          /\ timers' = timers \cup {c}
          /\ target' = [target EXCEPT ![c] = o]
          /\ UNCHANGED <<player, accept, client, refs>>
       \/ /\ client[o] = None
          /\ Connect(c, o)
          /\ UNCHANGED <<timers, target>>
  /\ pool' = Pooled(c)
  /\ UNCHANGED <<first, released, world, toRelease>>

(* The scheduler posts the connect. *)
Fire(c) ==
  /\ c \in timers
  /\ timers' = timers \ {c}
  /\ tasks' = Append(tasks, <<"connect", c>>)
  /\ UNCHANGED <<life, first, target, protVars, playVars>>

ConnectTask(c) ==
  /\ IsHead("connect", c)
  /\ Connect(c, target[c])
  /\ UNCHANGED <<first, timers, target, released, pool, world, toRelease>>

(* Game::removeCreature: the reference of the world waits for cleanup. *)
Removed(o) ==
  /\ world' = world \ {o}
  /\ toRelease' = IF o \in world THEN toRelease \cup {o} ELSE toRelease

(* logout: nothing without a player; refused by the tile, a fight or a      *)
(* script unless forced.                                                    *)
LogoutTask(c) ==
  /\ IsHead("logout", c)
  /\ \/ /\ player[c] = None \/ player[c] \in world
        /\ Done
        /\ UNCHANGED <<world, toRelease>>
     \/ /\ player[c] # None
        /\ DoneDisconnecting(c)
        /\ Removed(player[c])
  /\ UNCHANGED <<first, timers, target, protVars, client, connecting, refs>>

WithoutClient(o) == [client EXCEPT ![o] = None]

Unpooled(c) == [pool EXCEPT ![c] = IF @ > 0 THEN @ - 1 ELSE 0]

(* ProtocolGame::release.  The Connection object may outlive it, in a        *)
(* handler of the network thread.                                           *)
Release(c) ==
  /\ IsHead("release", c)
  /\ IF player[c] # None /\ client[player[c]] = c
     THEN /\ client' = WithoutClient(player[c])
          /\ refs' = Dereferenced(player[c])
          /\ player' = [player EXCEPT ![c] = None]
     ELSE UNCHANGED <<client, refs, player>>
  /\ pool' = Unpooled(c)
  /\ released' = released \cup {c}
  /\ Done
  /\ UNCHANGED <<first, timers, target, accept, connecting, world, toRelease>>

(* Player::kickPlayer, by idleness, a lost connection, a ban, a script or   *)
(* the shutdown: through logout, by force, when there is a client.          *)
Kick(o) ==
  /\ o \in world
  /\ IF client[o] = None
     THEN Removed(o) /\ UNCHANGED <<life, tasks>>
     ELSE LET c == client[o] IN
          IF player[c] = None
          THEN UNCHANGED <<life, tasks, world, toRelease>>
          ELSE /\ life' = Disconnected(c)
               /\ tasks' = ReleasePosted(c)
               /\ Removed(player[c])
  /\ UNCHANGED <<first, timers, target, protVars, client, connecting, refs>>

(* Death removes the player and leaves the client connected. *)
Death(o) ==
  /\ o \in world
  /\ Removed(o)
  /\ UNCHANGED <<connVars, tasks, protVars, client, connecting, refs>>

(* Game::cleanup *)
Cleanup ==
  /\ toRelease # {}
  /\ toRelease' = {}
  /\ refs' = [o \in Conns |-> IF o \in toRelease THEN refs[o] - 1 ELSE refs[o]]
  /\ UNCHANGED <<connVars, tasks, protVars, client, connecting, world>>

RunTask ==
  \E c \in Conns : LoginNew(c) \/ LoginAgain(c) \/ ConnectTask(c)
                     \/ LogoutTask(c) \/ Release(c)

Next ==
  \/ RunTask
  \/ \E c \in Conns : \/ Accept(c) \/ RecvFirstMessage(c) \/ RecvLogout(c)
                      \/ Hangup(c) \/ Expire(c) \/ Fire(c)
                      \/ Kick(c) \/ Death(c)
  \/ Cleanup

(* The dispatcher runs its tasks, the scheduler fires its events, and the   *)
(* network thread leaves its handlers.                                      *)
Fairness ==
  /\ WF_vars(RunTask)
  /\ \A c \in Conns : WF_vars(Fire(c)) /\ WF_vars(Expire(c))

Spec == Init /\ [][Next]_vars
FairSpec == Spec /\ Fairness

-----------------------------------------------------------------------------
(* A protocol points at a player exactly while that player points back:     *)
(* what release and the takeover of a character rely on, and kickPlayer,    *)
(* which does nothing when its client has no player: Game::setGameState     *)
(* would kick the first player of the list forever at shutdown.             *)
ClientIsMutual ==
  \A o, c \in Conns : refs[o] > 0 => (client[o] = c <=> player[c] = o)

(* A player object is counted once for the protocol that points at it and   *)
(* once for the game, so it is never deleted under either of them.          *)
HoldersCounted ==
  \A o \in Conns :
    refs[o] = Cardinality({c \in Conns : player[c] = o})
              + (IF o \in world \cup toRelease THEN 1 ELSE 0)

(* A character is in the game once, however many connections log it in.     *)
OneInWorld == Cardinality(world) <= 1

(* The pool that flushes the output of protocols has every protocol that    *)
(* plays, once, and none that was released.                                 *)
PoolIsLive ==
  \A c \in Conns :
    IF c \in released THEN pool[c] = 0
    ELSE player[c] \in world => pool[c] = 1

(* Protocols, players, their reference counts and the pool agree. *)
LoginInv == TypeOK /\ ClientIsMutual /\ HoldersCounted /\ OneInWorld /\ PoolIsLive

(* A login that replaces another gets the player or is disconnected.        *)
ReplacementEnds ==
  \A c \in Conns :
    (c \in timers) ~> (player[c] # None \/ life[c] # "open")

(* "ProtocolGame::release() has been called at this point and the           *)
(* Connection object no longer exists, so we return to prevent leakage of   *)
(* the Player": connect gives no player to a protocol that was released and *)
(* will never let go of it.  This is not so when the object still exists    *)
(* after release has run.                                                   *)
NothingLeaks == \A o, c \in Conns : player[c] = o => c \notin released

(* Every connection behaves as ConnectionLife says. *)
Life(c) == INSTANCE ConnectionLife WITH
  life <- IF life[c] = "new" THEN "open" ELSE life[c],
  bound <- TRUE,
  release <- IF c \in released THEN "run"
             ELSE IF \E i \in 1..Len(tasks) : tasks[i] = <<"release", c>>
                  THEN "posted" ELSE "none"

UsesLife ==
  /\ \A c \in Conns : Life(c)!LifeInit
  /\ [][\A c \in Conns : Life(c)!LifeNext \/ UNCHANGED Life(c)!lifeVars]_vars
=============================================================================
