# A verification of the game server

TLA+ models of the server in `src/src` (C++20, derived from The Forgotten Server
1.4), checked with TLC on small instances. For most components the invariants are
proved with TLAPS as well, for every instance: all but those of items, creatures,
conditions and combat. The models follow the code and not its comments; section 4 lists
where the two disagree.

1. [The system](#1-the-system)
2. [The modules](#2-the-modules)
3. [What the runs check](#3-what-the-runs-check)
4. [Disagreements between code and comments](#4-disagreements-between-code-and-comments)
5. [What is proved](#5-what-is-proved)
6. [What is only model-checked, and what is not modelled](#6-what-is-only-model-checked-and-what-is-not-modelled)
7. [Plan](#7-plan)

Paths are relative to `src/src` unless they start with `data`.

## 1. The system

One process with these threads:

| thread | code | runs |
|---|---|---|
| network | `ServiceManager::run` (server.cpp), on main | handlers of asio: accept, read, write, timers of connections, signals |
| dispatcher | `Dispatcher::threadMain` (tasks.cpp) | all game logic, one task after the other |
| scheduler | `Scheduler::threadMain` (scheduler.h) | handlers of its own `io_context`: insertion, cancellation and expiry of timers |
| database | `DatabaseTasks::threadMain` (databasetasks.cpp) | asynchronous queries |
| path finding (several) | `PathFinding::threadMain` (pathfinding.cpp) | one shared function, `Game::checkFollow(true)` |

Because game logic is confined to the dispatcher, what is concurrent is the way
into it (tasks, timers, packets, results of queries), the way out (messages,
closing of connections) and the shutdown. What is hard inside it is different:
state kept twice, by pointers in both directions, which a long sequence of
handlers has to keep in agreement while other players move, log out or die
between any two of them.

### Components

**Dispatcher** (tasks.cpp, thread_holder_base.h). State: `taskList` under
`taskLock`, the swapped-out batch, the state of the thread. Operations:
`addTask` from any thread (refused unless the thread is RUNNING; notifies only
if the list was empty, after unlocking), the loop (wait without a predicate,
swap, run what has not expired), `stop`, `shutdown` (pushes a last lambda
without testing the state). Correct if every accepted task is run or found
expired, once, in order; if no wake-up is lost; if the thread ends with nothing
left to do.

**Scheduler** (scheduler.cpp). State: `lastEventId`, `eventIdTimerMap`, and the
handlers that wait in the `io_context`; each carries a raw pointer to a task.
Operations: `addEvent`, `stopEvent`, `shutdown`, all by posting a handler, and
the completion of a timer, which gives the task to the dispatcher or deletes it.
Correct if a task has one owner in every race of expiry, stop and shutdown.

**Script timers** (luascript.cpp, `luaAddEvent` ... `executeTimerEvent`). A
second table, `timerEvents`, on top of the scheduler. Correct if `stopEvent` is
final and no entry outlives its task.

**Asynchronous queries** (databasetasks.cpp). State: the queue under its lock, a
thread state. Operations: `addTask`, the thread's loop, `flush` (on the
dispatcher, when the game is saved), `shutdown`. Two consumers of one queue:
correct if each query is run once and if a save leaves nothing behind.

**Path finding** (pathfinding.cpp with `Game::checkFollow`). State: the shared
function, the count `ready`, two sets of creatures with a reference each and a
static iterator that the threads share. The dispatcher blocks in `runTask` until
all threads are done, or its wait returns without a notify. Correct if that is a
barrier, if no creature is handled by two threads or freed meanwhile, and if nobody
waits for ever; without a predicate at the two waits it is so only as far as section 4 says.

**Connection** (connection.cpp). State: the socket, two timers, the queue of
messages, the protocol, `closed`. Operations: handlers of the network thread and
calls of the dispatcher, under a lock per connection; `closeAll` without it.
Talks to a protocol by tasks of the dispatcher and to `ConnectionManager`, which
keeps it alive. Correct if messages leave in order, a graceful close sends what
was queued, `Protocol::release` is the last task of the protocol, and silent
peers and closed sockets go away.

**Output pool** (outputmessage.cpp, `Protocol::getOutputBuffer`). State: the
protocols in the pool, a buffer each, a chain of `sendAll` events. Correct if
output is sent once, in order, in the end.

**Game login** (protocolgame.cpp, `login` ... `release`). State: pointers between
`ProtocolGame` and `Player`, reference counts, the list of players, the pool.
Operations: tasks of the dispatcher posted by packets, by the scheduler (a
takeover happens a second after it was requested) and by the closing of a
connection. Correct if both pointers agree, a player object is counted for every
holder, and a character is in the world once.

**Waiting list** (protocolgame.cpp, `clientLogin`). State: two lists of
(timeout, guid). Correct if capacity is kept, nobody jumps the line and who
waits keeps the place promised.

**Trade** (game.cpp, `playerRequestTrade` ... `internalCloseTrade`; callbacks of
player.cpp). State: partner, offer and state of each player, `Game::tradeItems`.
Items are not locked; callbacks of every move close trades. Correct if both sides
agree, offers are disjoint and in reach, and an exchange is mutual.

**Party** (party.cpp). State: leader, members and invitations in the `Party`, and
again in each `Player`, by raw pointers; a cached flag of shared experience.
Correct if both records agree, freed parties are not referred to, and experience
is shared only where it may be.

**Service ports** (server.cpp, with the main thread of otserv.cpp). State: the
acceptor of each port, `pendingStart`, the event that opens the port again, the
handlers main has to run, `death_timer`. Operations: the loader adds ports; a
failed open or accept closes the port and schedules another open 15 s later;
`Game::shutdown` posts a stop to every port and lets main return from `run`.
Correct if a port always has exactly one thing that keeps it going, and if main
gets through start and shutdown.

**Throttling** (ban.cpp). State: for each address the last attempt, the end of its
block and a count. One operation, `acceptConnection`. Correct if who connects too
often is blocked and nobody else is.

**Persistence** (iologindata.cpp, iomapserialize.cpp, market.cpp over database.cpp
and database.h). State: what memory holds, what the database has committed, the
transaction of the connection and its recursive lock, the save in progress.
Operations: logins and logouts, mail to and evictions of players who are offline, saves of the game, start and
shutdown, each statement by statement. Correct if the lock is given back on every
path, a save is written whole or not at all, and nothing is lost or doubled
without a crash.

**Creatures and monsters** (creature.cpp, monster.cpp, parts of game.cpp, map.cpp and
player.cpp). State: reference counters, `attackedCreature` and `followCreature`
(not counted), masters and summons, target lists, the list of checks, the creatures
to release. Operations: everything that places, moves, aims at, summons, convinces,
kills and removes a creature, with the callbacks of everybody who sees it. Correct
if counters equal holders, both sides of a servitude agree, a target is in the world
and in sight, and nobody sleeps over a target.

**Items** (the moves of game.cpp -- `internalMoveItem`, `internalAddItem`,
`internalRemoveItem`, `addMoney`, `removeMoney` -- through the cylinders of player.cpp,
container.cpp and tile.cpp). State: the parent of each item, stacks, the cached weights
of containers and players, open containers, offers. Operations: moves, exchanges, gifts
and payments, removals, windows that are opened and closed, steps. Correct if the cached
weights are the true ones at every depth, containers hold what they have room for, a slot
one item, nobody looks into what he cannot reach, money adds up, and an offer that stands
is what the partner was shown.

**Spawns** (spawn.cpp). State: the entries (block, monster) of a spawn, each with a
reference, the monster's pointer back, one timer that does not always run. Operations:
the start, `checkSpawn` with its cleanup, removal, convincing and straying of monsters,
`clear` at the end. Correct if entries, pointers and references agree and no empty block
is forgotten.

**Raids** (raids.cpp). State: the list of raids, the one that is `running`, the next event
of each, the events of the scheduler. Operations: the check of every minute, the events of
a raid, scripts that start one, reload, which may fail and then leaves no raids and no
checks. Correct if there is one chain of checks while raids are loaded, if a raid
that runs goes on, and if none runs after it was deleted.

**Shops and sight of NPCs** (npc.cpp, player.cpp). State: `Player::shopOwner` and
`Npc::shopPlayerSet`, callbacks in Lua's registry, the players an NPC believes to see it,
for which it asks their clients when they move. Correct if both sides of a window agree,
callbacks are given back once, and an NPC knows whom it is in sight of and rests only when
it knows nobody.

**Channels and guilds** (chat.cpp, guild.cpp). State: users and invited of each channel, by
pointer; the members of a guild who are online. Correct if nobody in them is gone, and a
channel's owner and its users keep to its rules.

**Beds** (bed.cpp, house.cpp). State: the sleeper in both halves, the table of sleepers, the
bed a player was asked about. Correct if the three tell the same, over saves and restarts.

**Steps of monsters** (monster.cpp, copied in duelist.cpp). `getDistanceStep`: where a monster steps
that flees or keeps its distance. Correct if the step leads away wherever one can.

**Decay** (game.cpp, item.cpp). State: the list of items to be put in a bucket, four
buckets, a reference for each entry, the time left of each item. Correct if every entry
has its reference and an item decays in time.

**Conditions** (condition.cpp, creature.cpp). State: a list in the creature, and what its
entries have changed there: speed, skills, visibility, the lock of a fight. A haste in the
middle of a step and the end of a paralysis are events of the scheduler. Correct if nothing
of a condition stays behind, and haste and paralysis exclude each other.

**Harm and death** (game.cpp, creature.cpp, condition.cpp). State: health, who dealt how much,
poisons with their rounds, and the deaths queued in the dispatcher. Correct if nobody is left
without health, a death is paid for once, and a poison bites with all of its rounds.

**The rest**: special tiles, areas and formulas of combat, item use, access and rent of houses, ranks
and wars of guilds, what scripts do, the login/status/account protocols, encryption and
encoding, configuration. `PROJECT.json` lists each with what is modelled of it or why it is
not.

### Interactions

    network --addTask--> dispatcher --addEvent/stopEvent--> scheduler
       ^                    |  ^  ^                             |
       |   send, close      |  |  +-----------addTask-----------+
       +--------------------+  +---addTask (callbacks)--- database thread
                            +--addTask, flush-----------> database thread
                            +--runTask (blocks)---------> path-finding threads

A shutdown is a task as well: a signal posts `setGameState(GAME_STATE_SHUTDOWN)`,
which kicks all players, saves, queues `Game::shutdown` and then stops, one after the
other, the threads' acceptance of tasks, the dispatcher's last; `Game::shutdown` then shuts the scheduler, the database
thread, the path-finding threads, the dispatcher and the network down.

## 2. The modules

Each module says in its header which code it stands for; `map` in
`PROJECT.json` gives the lines of every definition. A step is what the code does
atomically: a critical section, a handler under its lock, or a task of the
dispatcher. Handlers, with every call they make that changes state, are one
action each.

| module | code | variables and actions |
|---|---|---|
| `Dispatcher` | tasks.cpp, part of otserv.cpp and `Game::setGameState`/`shutdown` | `taskList`, `tmpTaskList`, `threadState` as in the code; `pc` is the place of the thread in `threadMain`; `owed` are adders between unlock and notify. Tasks are model values: work (some with an expiration), signal handlers, `Game::shutdown`, the terminating lambda. A signal handler takes three steps (`SetGameState`, `QueueShutdown`, `StopDispatcher`), between which other threads add. `accepted` and `done` are histories |
| `TaskQueue` | -- | what the dispatcher promises: a queue served from its head, closed by one of its tasks, with the terminating task as its last element |
| `DispatcherProofs`, `GameLoginProofs`, `PersistenceProofs` | -- | theorems about the module of that name, see section 5 |
| `AsioProofs`, `PlayersProofs`, `OnlineProofs`, `TownProofs` | -- | theorems about the components of `MCAsio`, `MCPlayers`, `MCOnline`, and of `MCTown` and `MCWorld` |
| `Lists`, `ListFacts` | -- | the elements of a list and that they are distinct, for models and proofs alike; lemmas about appending, taking the head, joining and counting |
| `Scheduler` | scheduler.cpp | `ops` is the queue of ready handlers of the `io_context`; a timer is absent, armed or completed; `adding` is a completion between its test of the state and `addTask`. An armed timer may expire at any moment |
| `LuaTimers` | luascript.cpp | extends `Scheduler` by `timerEvents`; its actions are those of `Scheduler` conjoined with what the script functions do |
| `DatabaseTasks` | databasetasks.cpp | `pc` of the database thread, `dpc` of the dispatcher thread in `flush` and `shutdown`, `dbTask`/`flushTask` the queries in flight |
| `PathFinding` | pathfinding.cpp, `Game::checkFollow` | `pc` of each thread, `dpc` of the dispatcher, the two sets, the shared iterator as the set of creatures still ahead of it, references as numbers; both waits may return without a notify, which `upset` remembers until a round begins with all threads at rest; `alive` ends where threads use what the dispatcher changes |
| `Connection` | connection.cpp, parts of server.cpp, protocol.h | one record `conn` with the members and the operations in progress; one action per handler, plus actions of the kernel (external): reads and writes end, timers expire |
| `ConnectionLife` | -- | what a protocol may rely on: open, closing, gone; `release` posted once, last |
| `GameLogin` | protocolgame.cpp, parts of player.cpp and game.cpp | several connections for one character; `tasks` of the dispatcher, `timers` of the scheduler, pointers, reference counts, the pool. A connection here is a `ConnectionLife`, and `UsesLife` says so |
| `WaitingList` | protocolgame.cpp | the two lists; time in units of 5 s, the shortest wait; `Tick` lets one unit pass |
| `OutputPool` | outputmessage.cpp, protocol.cpp | the pool, the buffers, the number of scheduled `sendAll` events; a message is its number |
| `Trade` | game.cpp, player.cpp, container.cpp | `loc` gives each item its parent (a player, a place, a container), so nesting, reach and the callbacks' tests are computed as in the code; what holds an item, at any depth (`Around`), is what is in every set closed under parents, which can be reasoned about where a recursion could not. Two outcomes of moving a stack (room as a merged stack, no room as a separate one) are explicit |
| `Party` | party.cpp, party parts of game.cpp and player.cpp | an element of `Parties` is the address of a `Party`; `leader = None` is freed memory, which a new party may use again |
| `Services` | server.cpp, part of otserv.cpp | `port` is a `ServicePort` each, `reopen` where its event to open again is; `ready` the handlers of main's `io_service` in order; `loader`, `main` and `game` the places of the three threads |
| `Ban` | ban.cpp | `ipConnectMap` as differences of times, in quarters of a second; `row` is a history of attempts that were let in |
| `Persistence` | iologindata.cpp, iomapserialize.cpp, market.cpp, database.h, part of game.cpp | `held` and `rows`: the items of each place in memory and in committed tables, `work` what the connection sees; `todo` and `at` the statement of the save in progress. One action per kind of statement, its failure, and the crash |
| `Creatures` | creature.cpp, monster.cpp, parts of game.cpp, map.cpp, player.cpp | `creature` is one record per creature. A task is an action; the cascade of callbacks in it is a fold over the spectators, whose order is open (`first` has its turn before the creature concerned) |
| `MCOnline` | -- | `WaitingList`, `OutputPool` and `DatabaseTasks` in one run |
| `Items` | game.cpp, player.cpp, container.cpp, tile.cpp | `world` is one record: `inside` the parent of a box or ring, `piles` how many stacks of a sort lie in a place, `total` and `carried` the cached weights, `open` the windows, `offered` the offers; in it the histories `crowded`, `lost`, `lostGold`, `cut` of what goes wrong on the way. `books` is the gold there should be. An operator is a function of a cylinder; an action is a handler |
| `Spawns` | spawn.cpp, part of monster.cpp | `where`, `refs` and `spawn` of each monster, an address that is used again; `spawnedMap` the entries; `check` the timer; `missed` is a history of blocks that were emptied without a word |
| `Raids` | raids.cpp | a raid is its name and the number of its load; `pending` the events of the scheduler, each with the number `stopEvent` would be called with and whether it is already a task; `loaded` as in the code, `late` is a history of reloads that came too late |
| `Npcs` | npc.cpp, part of player.cpp | both sides of the windows, `callbacks` as a count; `near` and `inSight` are where players are, `clients` who can see at all, `spectators` what the NPC believes of it; `unsure` is a history of players the NPC came to, or who moved without a client, `reloaded` one of NPCs without news since a reload |
| `Channels` | chat.cpp, guild.cpp, parts of player.cpp, party.cpp | users of the channels of guilds, of party addresses and of numbers; `privates` with owner, invites and users |
| `Beds` | bed.cpp, parts of house.cpp, game.cpp, iomapserialize.cpp | `sleeper` of each half, `bedSleepersMap`, `bedItem`, the players `asked` and those about to be kicked; `saved` is the map in the database |
| `Flight` | monster.cpp, part of creature.cpp | `offset` is the monster's position less its target's; the branches for each direction are one, turned; which fields are open is chosen at each decision |
| `Decay` | game.cpp, item.cpp | one `item` with its entries in `toDecayItems` (`soon`) and in each bucket (`listed`); `due`, `age` and `timely` are histories of its time, `stuck` of why it may count as decaying although nothing waits for it |
| `MCAsio` | -- | extends `Connection` by `LuaTimers`, `Services` and `Ban`, in one run |
| `MCWorld` | -- | `Spawns` and `Raids` in one run |
| `MCPlayers` | -- | extends `Party` by `Trade`, in one run |
| `Conditions` | creature.cpp, condition.cpp, parts of player.cpp, game.cpp, iologindata.cpp | `body` is one record: the list, what it has changed, and the events; an operator is a function of it. `left` is `endTime` seen from now, in intervals of the checks; `late` is a history of a renewal after the end |
| `Combat` | game.cpp, creature.cpp, condition.cpp, parts of player.cpp, iologindata.cpp | one victim; `tasks` counts the queued `executeDeath`, `rounds` is the `damageList` of a poison, `done` a history of those that are over; `paid` is a history |
| `MCTown` | -- | `Npcs`, `Channels`, `Beds`, `Flight`, `Decay`, `Conditions` and `Combat` in one run |
| `MCPossessions` | -- | extends `Persistence` by three instances of `Items`, in one run |
| `MCCreatures` | -- | symmetry sets and bounds for TLC |

Composition: `LuaTimers` contains `Scheduler`; `Connection` implements
`ConnectionLife` and `GameLogin` uses it once per connection, so that what
`GameLogin` assumes of the network side is what `Connection` was shown to do, and
both sides of that are proved; `Dispatcher` implements `TaskQueue`, also proved, and the other modules represent the
dispatcher by such a queue (`GameLogin`) or by the fact that a task is atomic.

`MCAsio`, `MCOnline`, `MCPlayers`, `MCWorld`, `MCPossessions` and `MCTown` hold several
components or instances that share no variable. A theorem about such a run speaks of the
run's own specification and property. A variable (`busy`, or `chain` of `MCWorld`) says
whose behaviour it is, and the others rest. Every behaviour of a component is among those of the run, with its fairness,
and nothing is claimed of the components together. The specification is
`Init /\ [][Next]_vars` with the disjunction of the components' fairness over `busy`, since
of the others, which rest, none is asked. Where a property of a component would speak of a
state at rest, the run's property begins with `busy = ... =>`.

Operators named in the comment "Variants of the operators" of a module are
slips a change of the code could make (a dropped guard, a swapped order, a missing
reset). They are not used by the specifications; replacing an operator by its
variant makes a property of the run fail, which `mutants` in `PROJECT.json` records.

## 3. What the runs check

`tlc -config X.cfg M`. Ten runs pass, each within five minutes on a slow machine; two more show a
disagreement of section 4. The largest is **paths** with about 701 000 states, then
**town** (412 000), **asio** (216 000) and **players** (207 000). Deadlock is not checked: every component may stop where the
server does, after a shutdown, when nobody adds anything, or at the bounds below. What
must not stop is stated as liveness. Where a component has a proof (section 5) its
instance is only as large as its properties need to be broken by a slip of the code.

Most modules have one invariant with a name in `-Inv`, the conjunction of the type
invariant and of named parts that together say that a component's records agree. Each
part is stated on its own in the module, and for each there is a variant that breaks it.

### Threads

* **dispatcher** (`Dispatcher.cfg`). `NoLostWakeup`; `DrainedAtExit`: the thread leaves
  nothing behind; `WorkEnds`: every accepted task is done (`AcceptedIsDone`) and the
  thread ends once the game closes (`ShutdownEnds`); `ImplementsQueue`: it is a
  `TaskQueue`, which has the order of the tasks, that the task which closes the queue has
  put `Game::shutdown` into it, and that nothing follows the terminating one. Other tasks
  may come between `Game::shutdown` and the closing, and are done after it. Three ordinary tasks, one of which may expire, and two signals: two adders for
  the race of notifications, a third task to be added by a task, a second signal while
  the first shuts down.
* **asio** (`MCAsio` with `Asio.cfg`), the scheduler with the script timers on top.
  `TimersInv`: a task has one owner (`OneOwner`), the handler that cancels a timer
  comes after the one that inserts it (`StopAfterInsert`), a task whose timer was
  cancelled does not run (`StoppedIsDropped`); an entry of the script
  table has a task on its way that takes it out (`EntriesHaveTasks`), and there is no
  callback after `stopEvent` (`StopIsFinal`). `EventsEnd`: every event comes to its end
  and, after a
  shutdown, so does the thread. `MaxEvents = 2` events of scripts or of the server,
  and at most `MaxOps = 3` handlers ready when somebody stops an event: the races are
  between one event and one stop or shutdown, and the other event's handlers come between.
* **paths** (`PathFinding` with `PathFinding.cfg`), with `Prompt = TRUE`. `FollowInv`: a
  creature is referenced as long as one of the two sets has it, once for each
  (`ReferencesHeld`), whatever wakes whom; `runTask` is a barrier (`Barrier`) and a creature
  is handled by one thread, once (`OneThreadEach`), in every round but those since a wait
  returned without a notify and made a difference (`upset`): the first round that begins
  with all threads at rest is sound again. `NoWaitForEver`: `runTask` returns, the threads
  end, and a creature that was skipped is handled (`SkippedAreHandled`). Three threads, as
  many as the server has (`PATHFINDING_THREADS`), two creatures, one of them found
  walking (`MaxSkips`). `Prompt` says that the threads are back at their wait when the
  dispatcher calls `runTask`; the code does not ensure it, see section 4.
* **players_online** (`MCOnline` with `Online.cfg`), asynchronous queries.
  `QueueInv`: no query is taken twice
  (`TakenOnce`), a query is overtaken only by being in flight in the other thread
  (`OvertakenOnlyInFlight`), no wake-up is lost (`NoLostWakeup`). `QueriesEnd`: a save
  leaves nothing behind (`FlushCompletes`, an action property), every query is executed
  (`AllExecuted`) and the thread ends (`EndsAfterShutdown`). Two
  queries: one in flight in each thread, or one in flight and one behind it.

### Start and shutdown

* **asio**, service ports with `Prompt = TRUE`. `ServicesInv`: a port has exactly
  one thing that keeps it going, an accept, its handler or an event that opens it again
  -- none and it is deaf for good, two and one closes the acceptor under the other.
  `ServerGoesOn`: after every failure a port listens again (`ListensAgain`), main wakes
  when the loader is done and ends after a shutdown (`MainGoesOn`). Two ports, and three
  failures: one of each port and a second in a row. `Prompt` is as for path finding:
  main waits without a predicate (otserv.cpp:86), and `ServiceManager::stop` does nothing
  before main is in `run`. A loader takes seconds to read the maps, so only a failure at
  once or a signal right after the start finds main late.

### Network

* **asio**, the connection. `ConnectionInv`: messages leave in order and whole
  (`WrittenInOrder`), a write is in progress exactly while messages are queued, unless
  the connection was closed (`QueueIsDriven`), `release` is the last task of the protocol (`ReleaseIsLast`),
  and a graceful close sends what was queued (`FarewellIsSent`). The refinement
  `ImplementsLife`. Liveness: `SilentClientsGo`, of `TimeoutsClose` and `ClosedGoesAway`. Two messages (one being
  written, one queued) and two answered reads (`MaxReads`: header and packet of the
  first message), after which the peer is silent. `Armings` contains FALSE: starting an
  operation may throw.
* **players_online**, output pool. `PoolInv`: a protocol in the pool has a chain of
  events that serves it (`PoolIsServed`), and output keeps its order (`OutputInOrder`);
  `ChainServes`: output is sent and chains end. Two protocols, buffers of two messages, three messages
  each, three logins: enough to empty the pool and fill it again before the event fires.
* **asio**, throttling. `BansAreFair`: however the attempts are spaced, no more than
  six in a row with gaps of up to half a second are let in, also across the resets of the
  count (`BanInv`), and (`BlocksAreEarned`) nobody is blocked who has not just been let in five times in
  a row; the end of a block is a fresh start. One client, as addresses have separate
  entries; a block is prolonged to at most `MaxBlock = 30` quarters of a second, from the
  12 it starts with.
* **game_login** (`GameLogin.cfg`). `LoginInv`: protocol and player point at each other
  (`ClientIsMutual`), a player object has one reference for each holder
  (`HoldersCounted`), the pool has the protocols that play and none that was released
  (`PoolIsLive`), the character is in the world once (`OneInWorld`). `ReplacementEnds`: a takeover ends with the player or
  with a closed connection; `UsesLife`. Three connections for one character: one client
  in the world, one taking over, one that comes in between; the network thread adds
  no task while three wait (`MaxTasks`), as many as there are connections. No symmetry, as the run
  checks liveness.
* **players_online**, waiting list. `LineIsKept`: the capacity is kept
  (`CapacityKept`), nobody is in line twice (`OnceInLine`), and nobody
  jumps the line (`NewcomersWait`). Four players (one premium, one who can always log in), two seats, at
  most three entries: a full server, somebody in line in each list and a newcomer.

### Game

* **players** (`MCPlayers` with `Players.cfg`), trades. `TradeInv`: both sides agree on partner and state
  (`Symmetric`), and the table of offers has exactly the offers of the players
  (`OffersRegistered`), and offers are disjoint and in reach (`OffersInv`).
  `ExchangeIsMutual`, an action property. Three players (a third who moves things about or wants the same partner),
  three items of which two are containers (an item two deep, an offer inside an offer)
  and one a stack, places 0, 1 and 3 of a line: of their distances one is in reach of an
  item, one in range of a partner, one in neither.
* **players**, parties. `PartyInv`: players and parties have the same members and
  the same invitations, and nobody points at freed memory (`MembershipMutual`,
  `InvitationsMutual`), and a party exists as long as it has a member or an
  invitation besides its leader (`NoEmptyParty`);
  while experience is shared, every member has the level and the
  distance for it (`SharingIsFair`). `PartySurvives`: a party with two members or more outlives the
  departure of anybody, the leader included.
  Three players and two addresses, so that a party of three loses its leader while an
  address is used again; levels 8 and 13 (two thirds of 13 is more than 8, by less than
  one: who divides without rounding up lets them share); two places 31 apart, just out of the range of 30.
* **creatures** (`MCCreatures` with `Creatures.cfg`). `CreaturesInv`: the counter of a
  creature is the number of its holders (`ReferencesHeld`), masters and summons tell the
  same and point at nothing freed (`Servitude`), what a creature attacks or follows is in
  the world and in its sight (`AimsAreInSight`), a monster with a target or a master
  thinks and a removed one does not (`Awake`), although a blow wakes whoever it hits and a
  summon forgets a target it finds no way to. `RemovedStayRemoved`, an action property:
  nobody takes a new hold of a removed creature. One player and two monsters, so that a
  monster summons or is convinced while the other aims at it or at the player; two places
  out of sight of each other; `MaxSummons = 1` and one death queued at a time
  (`MaxDying`). Creatures may be removed, die, be freed;
  none comes back.
* **possessions** (`MCPossessions` with `Possessions.cfg`), persistence. `StoreInv`: the database lock
  is held exactly from BEGIN to the end of the same save (`LockIsBalanced`); as long as no
  crash and no abandoned save has happened, every item is in one place, in memory or in
  the tables (`ItemsAreKept`). `SavesAreWhole`, an action property: what the tables keep of
  a player, or of the houses, changes only to what memory has of them at that moment. Two
  players and two items that start in houses; each row is an INSERT of
  its own (`Packet = 1`), so that a save of two items can break in the middle;
  `MaxMoves = 2` lets an item pass through a player into another's mail or the market;
  one statement fails (`MaxFailures`), which a save that is tried again survives and one
  with a single attempt does not; one crash (`MaxCrashes`), and
  three logins, game saves or starts (`MaxSessions`).
* **possessions**, items. `ItemsInv`: the weights cached in containers and players are the
  weights there are, at any depth (`WeightsAreTrue`), no box lies in itself (`Forest`), a
  box holds what it has room for and a slot one item (`RoomKept`, `SlotsKept`), nobody
  looks into what is out of reach (`ViewsInReach`), and gold is neither made nor destroyed
  by moving, merging, splitting and changing it (`BooksBalance`). Where the code does lose
  something, the parts name the cause: a box that a search has overfilled
  (`LossesAreKnown`), the rest of a gift. `OffersAreAsShown`, an action property: while an
  offer stands, it lies where it lay and its contents, however deep, are what they were.
  Three instances: a player with two boxes and coins (`Coins`); with two rings for one
  finger (`Fingers`); and two players on two tiles (`Hands`). Two boxes are the least for nesting;
  stacks of two coins (`MaxItemCount`) merge, overflow and split; boxes hold two; the load
  of 5 is less than two boxes, full, weigh; three gold (`MaxWorth`) are a platinum coin and
  one more, so that change must be given.

* **world** (`MCWorld` with `World.cfg`), spawns and raids. `WorldInv` is `SpawnsInv` of `Spawns` -- a monster in
  the world has an entry exactly if it points at the spawn, references equal entries and
  the game's own, a block has one monster, and an empty block has a check to wait for --
  and `RaidsInv` of `Raids` -- a chain of checks while raids are loaded, a raid that runs has
  an event pending, nothing runs while no raids are loaded, and unless a reload came too late
  there is one chain or, after a reload that failed, none, and no event of another raid or of
  a deleted one.
  `WorldGoesOn` is their liveness: every block is filled again (`BlocksRefill`); raids end
  and the checks of loaded raids go on (`RaidsGoOn`). Two blocks of different interval, so that one is due
  when the other is not, and one monster at a time (`RateSpawn = 1`); two monsters are lost
  (`MaxLosses`), one placement refused (`MaxRefusals`); six addresses, as many as can be in
  use, so that the guard that asks for a free one (Spawns) excludes nothing. Two raids of two events, one that repeats and one that does not; one reload
  (`MaxReloads`), in every state of a raid; start and reload may fail, or leave raids out.

### Town

* **town** (`MCTown` with `Town.cfg`), seven components.
  `TalkInv` is two invariants. `NpcsInv`: both sides of a shop window agree, are in the world, and hold their callbacks
  once; an NPC knows the players who have it in sight and nobody who is not near, except
  whoever moved without a client, or was near when the NPC moved, and has not moved since
  (`unsure`); it rests exactly if it knows nobody, unless it was loaded again and has had no
  news. Two NPCs, so that one window replaces another and a player is between two sights,
  and one buyer, whose client comes and goes.
  `ChannelsInv`: who listens or is invited is online; a private channel has an owner who
  listens, nobody owns two, nobody uninvited listens; the members of a guild that are online
  are those whose guild it is. Two guilds of which one has a default rank, one party
  address that is used again.
  `BedsInv`: both halves of a bed and the table of sleepers tell the same, nobody sleeps
  twice, nobody online sleeps except on his way out, also after a restart from an older save.
  Two beds, since a player may change his mind.
  `FlightInv`: wherever the target is and whatever fields are open, `getDistanceStep` stays
  on open fields, goes away if a step to a side does, by either measure of distance, nears
  only when fleeing with no other way, and does not stand still while it can flee. All
  256 sets of open fields are tried at every offset up to `Reach = 2`, the target
  distance; what the branches test is the signs and the order of the two coordinates.
  `DecayInv`: each entry of a list has its reference, an item that counts as decaying is in
  a list, and decays no more than six eighths of a second too early (the buckets) and three
  too late, against the time as `checkDecay` counts it.
  The torch has two phases, the last of which ends it; the ring loses time only while worn;
  remains become bones, which would vanish but have no time to (`Lingers`);
  with times of 16 and 8 eighths, and 1, 7 and 12 left to an item that is loaded, every
  bucket is met; two entries (`MaxEntries`) are the least for an item listed twice.
  `HarmInv` is two invariants. `ConditionsInv`: there is one condition of a type and an id;
  speed, skills, visibility and the lock of a fight are what the conditions on the list make
  of them; who is hasty and paralysed has a removal on its way. Two conditions (`MaxList`),
  so that one excludes, covers or replaces another; nothing is given while an event is on its
  way (`MaxEvents = 1`), but an event that fires may schedule the next; steps of two intervals.
  `CombatInv`: who is in the world without health has a death queued; a monster is paid for
  once; the shares of those who hurt it are no more than its worth; the rounds of a poison
  that are done and left are the whole of it, with time for all that are left. Two dealers and
  an odd worth, so that shares are cut; two queued deaths (`MaxTasks`), so that one finds the
  creature gone or alive again; a poison of two rounds, and one that bites at once; the 32 bits
  of the sum are a modulus of 3 (`Width`). That the rounds of any poison sum up to what was
  drawn is an assumption that TLC evaluates for all amounts to 60 and starts to 9.

### Fairness

Weak fairness of what the machine does by itself: a thread that is not blocked takes
steps; a handler that is ready is run; a notification that an adder owes is
delivered, since nothing blocks that thread between unlock and `notify_one`; armed
timers expire; the dispatcher runs what it has. `Spawns` and `Raids` ask no more than this
last pair. None is assumed of peers, players,
scripts, signals or callers of an operation, nor of spurious wake-ups. Four cases
need a word. `Services` assumes nothing of clients or of accepts that fail, and that main,
the loader and the timers go on. `PathFinding` asks for strong fairness of `Shutdown`: it is enabled only
while the dispatcher is in no call of `runTask`. `ClosedGoesAway`
assumes in the property itself that the kernel ends every write; without it no close
would end. And the loops of the dispatcher, the database
thread and the path-finding threads are one fair action per thread, as the operating
system schedules threads and not lines of code.

### Bounds that appear in guards

`MaxEvents`, `MaxOps` (Scheduler, LuaTimers); `MaxMessages`, `MaxReads` (Connection);
`MaxEntries` (WaitingList: nobody new arrives when the lists hold that many);
`MaxSkips` (PathFinding); `MaxMessages`, `MaxLogins` (OutputPool); `MaxFailures`
(Services); `MaxTasks` (GameLogin: the network thread adds none while so many wait);
`MaxBlock` (Ban); `MaxMoves`, `MaxFailures`, `MaxCrashes`, `MaxSessions`
(Persistence); `MaxSummons`, `MaxDying` (Creatures); `MaxWorth` (Items); `MaxLosses`, `MaxRefusals`
(Spawns); `MaxReloads` (Raids); `Reach` (Flight); `MaxEntries` (Decay, where it is of the
item in the lists); `MaxList`, `MaxEvents`, `MaxStep`, `MaxDelay` (Conditions, where
`MaxStep` and `MaxDelay` are the longest step and the longest wait); `MaxTotal`, `MaxTasks`
(Combat: nobody strikes, and nothing harms, beyond them). `MaxItemCount`, `Capacity` and
`MaxLoad` of `Items` are limits of the code, made small. Everything else is
finite because tasks, queries, connections, players and items are.

## 4. Disagreements between code and comments

Two of them are runs that TLC ends with a behaviour of the model:

* **pathfinding_late**: `runTask` and `threadMain` wait without a predicate
  (pathfinding.cpp:35 and 11). A thread that finished the last task and has not
  reached its wait again misses the `notify_all` of the next one, `ready` never
  reaches the number of threads, and dispatcher and threads wait for each other for
  ever. "queue walking creatures path finding for next checkFollow" (game.cpp:5882)
  is then never kept. With `Prompt = TRUE` what **paths** checks holds, and that is less than
  a barrier: as the waits have no predicate, one that returns without a notify lets the
  dispatcher go on before the threads are done, or has a thread count itself ready twice.
  The set and the iterator are then changed under the threads (`alive`); the next round
  that finds them all at rest is whole again.
* **waiting_list_entry**: "let them wait a bit longer" (protocolgame.cpp:109) writes
  the new timeout over the guid of the entry (line 110), so the client is no longer in
  line, and an entry of nobody blocks newcomers until it expires.

Four more are properties stated in the modules that no run checks, because the code
does not keep them. TLC shows a behaviour when the property is the only one of the
configuration named:

* `ClosedByWriteOrDestructor` of `Connection` (with
  `Armings = {TRUE}`): a graceful close leaves the socket to "the destructor or
  onWriteOperation" (connection.cpp:69). When the write fails, `onWriteOperation`
  clears the queue and calls `close(FORCE_CLOSE)`, which returns because the
  connection is already closed; the pending read keeps object and socket until the
  peer ends it.
* `NothingLeaks` of `GameLogin` (an INVARIANT for `GameLogin.cfg`): `connect` tests
  `isConnectionExpired()` and takes that for "ProtocolGame::release() has been called"
  (protocolgame.cpp:275-277). `release` may have run while a handler still holds the
  `Connection`; then the released protocol gets a player it never lets go of.
* `SlotIsPosition` of `WaitingList` (a PROPERTY for `WaitingListEntry.cfg`): "position in
  wait list" (protocolgame.cpp:87) is the distance from the end of the list (lines 39
  and 44): the first in line is told the largest number and is the last for whom there
  is room.
* `NothingForNothing` of `Trade` (a PROPERTY for `Trade` alone, with the constants of `Players.cfg`): the test for room
  (game.cpp:2943) may count on merging a stack, the move (2950) forbids it and its
  result is ignored. One side then gives its item for nothing, while the hook
  `Player:onTradeCompleted(target, item, targetItem, isSuccess)` (events.cpp:846) is
  told of a success.

Other observations, of which no text promises the opposite:

* `DatabaseTasks::shutdown`
  notifies without the lock, so a thread between the test of its loop and the lock goes
  to sleep with nobody left to wake it (excluded by name in `EndsAfterShutdown`).
* A player who has only acknowledged a trade may accept it, and the exchange then works
  on a missing item (`ExchangeNothing`).
* `isConnecting` stays set when a takeover is refused.
* A pool that runs empty and fills again before its event fires has two chains of
  `sendAll` until it is empty for good.
* `~Creature` (creature.cpp:32), `Monster::death` and `convinceCreature` go through
  `summons` while `setMaster` erases from it. That is undefined behaviour whenever there
  is a summon; `Creatures` lets the process end or go on (`alive' \in BOOLEAN`).
* A SELECT that fails while a player is loaded reads like an empty table; the player
  plays without the items, and the next save deletes them (`Login` with `unread`).
  Mail ignores the result of the save of a player who is offline.
* After a BEGIN that failed, `~DBTransaction` rolls back and unlocks a mutex it does not
  hold. A database connection that is lost makes `executeQuery` retry for ever.
* Players, houses and the market are saved in transactions of their own, and the market
  in none: a crash between two of them loses or doubles what moved from one to the other.
* Not everything a player is given reaches him (`NothingIsLost` of `Items` is not kept). The
  search for a place computes `capacity() - size()` without a sign (player.cpp:2789), skips
  the offer when it counts and does not open it (player.cpp:2834), so that a box may get one
  item too many; a later gift is then put at an index beyond the end, where
  `Container::addThing` drops it (container.cpp:478). Where `queryAdd` refuses such a box,
  the loop over its indices runs about 2^32 times.
* `internalAddItem` calls itself with what is left of a stack (game.cpp:1417): what the
  inner call refuses is neither dropped by `addMoney` nor reported, and the weight of the
  player lacks the part that was merged until the next change (`cut`).
* In an exchange of worn items, the old one is off (game.cpp:1221) before the equip script
  is asked for the new one (1233); when it refuses, half of the exchange stays.
* `decayItems->remove(item)` (game.cpp:1499) is behind `canDecay()`, which a removed item
  answers with false; and if it were reached, it would look in bucket 0 only and keep the
  reference of the entry.
* An item that is copied or given another id while it is listed is listed twice,
  and its time runs twice as fast (`twice`). One that should vanish and cannot be removed
  counts as decaying for ever (`stuck`). So does one that becomes, while it decays, a kind
  without a time of its own but with something to decay to: `setID` leaves its state as it
  is (item.cpp:248), and no list has it any more. items.xml has one such case, the remains of
  Koshei (8273 to 8274). And a time of less than a second is over at the first visit of its
  bucket, which may be three quarters of a second too early and more than the time itself.
* A raid that does not repeat is taken off the list when it starts: a reload neither stops
  nor deletes it, and when it ends it gives back the `running` of another. A reload that
  meets an event already given to the dispatcher runs a task of a deleted raid or doubles
  the chain of checks (`late`, `alive`). A raid without events keeps `running` for ever.
* An NPC that is placed or moves next to players does not look for them
  (`unsure`): it sleeps in their presence, and a player who was in sight before stays in
  the set, also after his logout. One that is loaded again sleeps until the next news.
* A player without a client sees nothing (player.cpp:786), so an NPC drops him when he is
  moved; `ProtocolGame::connect` gives him a client without telling it, and it sleeps in
  his sight until he moves.
* A reload of the raids that fails stops the checks, and no raid starts by itself until
  another succeeds (raids.cpp:38, game.cpp:5696).
* Tasks that other threads add between the `addTask` of `Game::shutdown` (game.cpp:139) and the
  `stop` of the dispatcher (145) are run after `Game::shutdown`, which has by then cleaned up.
* A player put into a guild without a default rank stays among the members online of the
  one he left (`orphans`). `removeGuildBuffs` raises the health of summons once more instead
  of lowering it (player.cpp:4828).
* Who leaves a party or a guild goes on listening to its channel (`OnlyMembersListen` of
  `Channels` is not kept). `Party::leaveParty` and `disband` call `sendClosePrivate`, which is to
  take the player out, after `setParty(nullptr)` (party.cpp:99, 46, 32), so that
  `removeUserFromChannel` does not find the channel; `Player::setGuild` leaves none.
* A bed's conditions are tested when it is used, not when the window is answered, and the
  answer moves the player to it from anywhere. Lying down twice before the kick leaves a
  sleeper the table does not know (`hasty`).
* A monster that goes without `onRemoveCreature` of its spawn (a script that takes it over,
  convincing) has its block filled only when another monster of the spawn is removed
  (`missed`).
* Haste and paralysis can be had at once: when one is over but not yet taken off and is
  renewed, `addCondition` of the class does not ask for the end of the other (`late`). A
  removal that was put off by a step goes by type and ends a paralysis that came later; a haste
  put off by a step is never freed if the player has left.
* Light, outfits and `disableDefense` are reset when one condition of the kind ends, although
  another may go on; these conditions are not in `Conditions`.
* Who is revived between the blow and its task, by a save or by a regeneration that comes
  after the poison in the same check, dies all the same, at whatever health he has.
* A poison whose owner is in the world does no damage: `combatChangeHealth` replaces the value
  by the power of a spell that has no name, and refuses a player who is the owner.
* `totalDamage` has 32 bits (creature.cpp:1011): past that, the shares are more than the
  experience. A round that falls due on a field gives back less time than it took, and a check
  that comes late cuts the last rounds off (`late` in `Combat`).
* `creature:setHealth(0)` of a script queues no death, and the creature would stay. The
  shipped scripts do not do so: the one that sets what a ball has kept tests for 0 before
  (newfunctions.lua:654). `Combat` leaves scripts that set the health out.
* A connection whose accept failed or was aborted stays in `ConnectionManager` until
  `closeAll`.

## 5. What is proved

`DispatcherProofs`, for every set of tasks and any number of adders, from
`TaskAssumption` (the kinds of task are different objects, and only ordinary work
expires):

* `TypeCorrect`: `Spec => []TypeOK`. `TypeOK` is not inductive: that `exec` finds a
  current task needs `HasCurrent` (the thread executes only while the batch is not
  empty), and their conjunction `TypeInv` is.
* `NoWakeupLost`: `Spec => []NoLostWakeup`, inductive relative to `TypeOK`. An adder
  to an empty list becomes one who owes a notification in the same step, `Signal`
  wakes a waiting thread in the step in which it pays, and the thread tests the list
  and blocks in one critical section.
* `ExitIsDrained`: `Spec => []DrainedAtExit`. The property speaks of one moment, the
  argument of the whole shutdown. `ShutdownInv` says that, unless main gave up, no task is
  in the queue twice, nothing is left once the thread is TERMINATED, and where the
  terminating lambda is in the queue it is the last element, `Game::shutdown` is done and
  the list is closed (`LambdaIsLast`). Other threads may add behind `Game::shutdown` until the
  same task of `setGameState` calls `stop`; but that task is still the head of the batch then,
  so when `Game::shutdown` runs and pushes the lambda the list has been closed, and nothing
  follows. That `addTask` comes before `stop` lets `Game::shutdown` in; that both are in one
  task, and `stop` not in a later one, keeps everything else in front of the lambda.
* `ServesInOrder`: `Spec => ImplementsQueue`. The dispatcher is the queue of
  `TaskQueue`, whose content is what is left of the batch followed by the list, and which is
  open while the thread is RUNNING. `QueueInv` is what the mapping needs besides: what the
  lists hold was accepted, nobody can ask to quit before main is online, `Game::shutdown` is
  accepted once, by the task that quits and before it closes the list, and the
  batch is empty when the lists are swapped. Accepting
  a task is an `Append` to the promised queue, executing or expiring one is its `Tail`,
  and every other step leaves both lists joined as they were.

`OnlineProofs`, for every set of threads, creatures, players, queries and protocols, from
`FollowAssumption` and `OnlineAssumption`. Only the threads, creatures and players must be finite.

* `FollowIsSafe`: `Spec => []FollowInv`, whether the dispatcher waits for the threads at
  once or not, and wherever a wait returns without a notify. `Basic` survives all of that:
  the types, what holds a reference to a creature (`References`), and that only a thread
  that runs has one in hand (`Working`). `Whole` is what such a return spoils. In it
  `Rounds` counts: each thread takes part in a round once, from its wake-up to its `Ready`, so
  the threads that are ready and those that are active are never more than there are, and
  all are ready only when none is active. `Handled` says that a creature is in the hands of
  one thread at most, and that in a round each has been handled once unless it waits or is
  in hand. The invariant is `Basic` and, unless `upset`, `Whole`; a round that begins with
  all threads at rest is `Whole` from `Basic` alone.
* `QueueIsConsistent`: `OnlineSpec => []QueueInv`: no wake-up is lost, each query is taken
  once, and none is executed before an earlier one, save those in flight when the queue is
  flushed. The invariant `QueueIInv` is `TypeOK`, `NoLostWakeup`, `OnceEach` and that what
  was accepted is different queries; `OvertakenOnlyInFlight` is not part of it, it follows.
* `FlushLeavesNothing`: when `flush` returns, all that was accepted has been executed but for
  the query the database thread is at (`FlushCompletes`).
* `PoolIsKept`: `OnlineSpec => []PoolInv`. `PoolIInv` adds only that there are no more
  events than logins; that a chain serves the pool is inductive because `sendAll` decides
  whether to go on from the same list that `addProtocolToAutosend` finds empty or not.
* `WaitingListIsKept`: `OnlineSpec => LineIsKept`. `LineIInv` says the same of places in the
  lists as `OnceInLine` says by counting (`OnePlace`, `NoPlace`), and that who can always
  log in never stands in line; without that, who is let in without a look at the
  lists would leave an entry in them. What `cleanupList` keeps is a recursive function; `StillWaitingFacts` is an
  induction over it, by the least number (`LeastNumber`) that contradicts the claim.

`AsioProofs`, for any numbers of events, calls, messages, reads, ports, failures and clients,
from `ConnectionAssumption` and `AsioAssumption`:

* `TimersAgree`: `AsioSpec => []TimersInv`, the scheduler and the table of scripts on top.
  `SchedulerIInv` says of each event who owns its task (`Owned`: the handler that is to insert
  the timer, the timer, its completion or the dispatcher, exactly one of them while it is
  held), that ids are given in order (`Fresh`, `Known`), and that the task of a cancelled
  timer is deleted or about to be (`Cancelled`). `LuaIInv` adds what the table needs: what is
  on its way to being stopped has no entry any more unless the scheduler shuts down
  (`StopsErased`), and what was called or stopped has none either (`Settled`). No callback
  after `stopEvent` follows from these two: `stopEvent` of a script erases the entry before
  it asks the scheduler.
* `ConnectionIsSound`: `Spec => []ConnectionInv`. A handler works in several calls
  (`send`, `close`, `closeSocket`, posting to the dispatcher) whose composition is one
  action, so the invariant is a predicate `Sound(conn, failed, reads)` of a connection in
  the making: each call preserves its parts, with `Almost` for the moment between a failure
  and the `close` that follows it. The parts: the queue holds the last messages
  accepted, in order (`Numbered`); unless a write has failed, one is under way exactly
  while the queue is not empty (`Driven`); the socket of a connection closed gracefully is
  not closed before the queue is empty (`Farewell`); the protocol's release is posted once,
  on closing, as its last task (`ReleasedOnce`); timers and tasks are bounded by reads and
  writes (`Within`); and nothing has been started while the connection waits to be
  accepted (`Opening`).
* `LivesAsPromised`: `Spec => ImplementsLife`, the refinement of `ConnectionLife`: a
  connection goes from open through closing to gone, and never back.
* `ServicesAreKept`: `AsioSpec => []ServicesInv`. `Kept` is the statement for one port and
  the handlers that wait for it: an accept, one handler, or one event to open it again, and
  never two of them. A port the loader has not added yet has none (`NotYet`), and a handler
  that stops a port exists only once the loader is done and no port is to be kept any more
  (`StopsLast`): without it, a stop could take a port that the loader adds afterwards.
* `ClientsAreBannedFairly`: `AsioSpec => BansAreFair`, both parts. `BanIInv` ties the count
  of the code to the histories: quick attempts in a row are at most one more than the count,
  and the count is at most the attempts that were let in since the last fresh start.

`GameLoginProofs`, for every finite set of connections, from `GameLoginAssumption`:

* `LoginIsConsistent`: `Spec => []LoginInv`. Protocol and player point at each other, a
  player has as many references as holders, and the character is in the world once. What
  makes it inductive is what the waiting tasks say: no task waits twice and a login waits
  before its release (`Types`); a connection whose login is still to come has nothing yet,
  and a replacement waits in the scheduler or in the queue and never in both (`Stages`);
  the release of a connection that is gone is under way or done (`Releases`).
* `ConnectionsLive`: `Spec => UsesLife`: each connection, as the login sees it, lives as
  `ConnectionLife` promises.

`PlayersProofs`, for all players, parties, levels and places, all items, however deep they
lie in each other, and all squares, from `PartyAssumption` and `PlayersAssumption`:

* `PartyIsConsistent`: `Spec => []PartyInv`. Player and party agree on membership and on
  invitations, no party is left empty, and experience is shared only among who may have a
  share. The invariant says it of each player (`Belongs`: who points at a party is its leader
  or in its list) and without counting; `Listed` (nobody is twice in a list) makes the
  count right, and `MembersOnline` that nothing points at a player who is gone.
* `PartyLivesOn`: `Spec => PartySurvives`, the action property: a party with two
  members or more outlives any departure, the leader's included, and then goes to a member.
* `TradesAgree`: `Trades!Spec => []TradeInv`. What `TradeInv` lacks to be inductive is that
  items form a forest (`Forest`: each set of containers has one that lies outside of it) and
  that who was only asked has offered nothing yet (`NoOfferYet`). The forest makes sense of
  `Around` and `Root`: what holds an item is its parent and what holds that, a move changes
  neither for items that are not in what is moved, and the two moves of an exchange are of
  offers that do not overlap.
* `ExchangesAreMutual`: `Trades!Spec => ExchangeIsMutual`, the action property.
* `PlayersAgree`: the two invariants of the run, side by side.

`PersistenceProofs`, for all finite sets of players and items, every size of a packet and
every number of failures and crashes, from `PersistenceAssumption`:

* `StoreIsSound`: `Spec => []StoreInv`, and `SavesNothingByHalves`: `Spec => SavesAreWhole`.
  First every list of statements a save issues is shown to be `Planned`: inside one
  transaction each place of the group is emptied and then filled, and COMMIT is last. Then
  each statement, and each failure of one, is a `SaveStep` that touches nothing but its
  group (`Aside`), ends as it should when it commits (`Outcome`) and keeps `Written`: the
  working tables differ from the rows only where statements of the running save have been,
  and what was inserted is what memory holds. The rest of `IInv` is `Shape` (of the save
  under way), `Listed` (everybody is saved once, the map last) and `Safe`: unless there
  was a crash, a save that was given up or a bad load (`damaged`), an item is kept in one place
  (`Alone`), depots nobody has opened stay as they are (`Depots`), and once the
  server stops, house and market are saved when no save of theirs is to come (`HouseSaved`,
  `MarketSaved`).

`TownProofs`, from `TownAssumption` and `WorldAssumption` (each component asks for its part of
them only):

* `BedsAgree`: `Spec => []BedsInv`, for all players and halves. `BedsIInv` says it of the map
  in the database as well, so that it survives a restart, and exempts who lay down twice
  before he was kicked (`hasty`).
* `TalkIsConsistent`: `Spec => []TalkInv`. For NPCs: a window has both of its sides or none
  (`BothSides`), callbacks are counted by the windows (`Held`), and whom an NPC believes to
  be seen by lies between who has it in sight and who is near, but for the `unsure`, and
  decides whether it rests (`Watched`). For channels: whoever is in
  one is online (`GuildsHeard`, `PartiesHeard`), a private one is `Sound` and its owner has no
  other (`PrivatesHeard`), and a guild's list of members is right (`Listed`). That there is a
  number left for a new channel needs a count: no more channels than owners.
* `FlightIsSafe`: `Spec => []FlightInv`. There is no history in it; what is proved is that
  `getDistanceStep` keeps its promise for any offset, target distance and set of open fields,
  by the signs of the offset and by how its two coordinates compare.
* `TimesAreKept`: `Spec => []DecayInv`, for all kinds, times and numbers of entries.
  `ItemSound(i, left, held, bucket)` is the statement in the middle of a visit of
  `checkDecay`: `left` entries have been taken out and not been looked at, and `held`
  references are still to be given up. The part that matters is `OnTime`: the difference
  between the visits an item has seen, counted to the next one, and the time it has lost is
  one of two values as long as a round or more is left, and one of two others in its last
  round, so the errors of the buckets do not add up. That visits follow each other is an
  induction over their number, made with `WellFoundedInduction`. Trying to prove an earlier
  invariant showed that it was wrong: an item may linger (section 4), and the two bounds were
  true of the times of the run only.
* `WorldIsKept`: `WorldSpec => []WorldInv`. For spawns: places, references, the monster's
  pointer and the entries fit together (`Fitting`), and an empty block is looked after
  (`LookedAfter`); counting is needed for a spawn that is full of wanderers. For raids:
  somebody makes the checks, if raids are loaded, and the running raid go on (`GoesOn`), and
  unless a reload was late all events are reached by `stopEvent` and belong to the raid that runs (`InTime`).

TLC checked each inductive invariant on a small instance before it was proved. The proofs
have one lemma per operation, with one step per conjunct that the operation can disturb,
and a step theorem with one case per action of `Next`. What they need of lists --
the elements of an `Append`, a `Tail`, a concatenation, that nothing is in a list
twice, the least number of a set -- is in `ListFacts`, proved from `SequenceTheorems` and about the operators of
`Lists`. The modules that have theorems, and those they use, declare no RECURSIVE operator.

## 6. What is only model-checked, and what is not modelled

What stays with TLC:

* Liveness under fairness and every use of ENABLED (`WorkEnds`, `EventsEnd`, `SilentClientsGo`,
  `ServerGoesOn`, `ReplacementEnds`, `QueriesEnd`, `NoWaitForEver`, `ChainServes`, `WorldGoesOn`):
  the provers have no rules for them.
* `ItemsInv` and `OffersAreAsShown`: weights are sums over boxes in boxes, by recursion;
  `CreaturesInv` and `RemovedStayRemoved`: a task is a fold over the spectators; `HarmInv`:
  conditions are folds over lists, the rounds of a poison a recursion and shares a sum. The
  instances of `Items`, `Creatures`, `Conditions` and `Combat` are therefore all there is for
  them; each bound is given in section 3 with the case it was chosen for.

The theorems hold within the bounds that appear in guards, for every value of them.

Abstractions that matter: time passes nondeterministically (timers expire at any
moment), except in `WaitingList` and `Ban`, whose clock is not set back. Queries, packets, messages and paths have no content.
Capacity and weight in `Trade` are a nondeterministic failure of the exchange; `Items` has
them. In `Items` depots, browsed fields, hangables, stairs and scripts that forbid a move
are left out, there are no crystal coins, and the order in a container is open where the
code goes by it. Event
scripts may refuse where the code asks them, except the party's `onLeave`, whose answer
is ignored when a player is removed; the shipped scripts do not refuse. `GameLogin` fixes `allowClones = false` and
`replaceKickOnLogin = true` as in `config.lua.dist`. In `PathFinding` what threads
do to a set that is changed under them is the end of the process or nothing.
In `Creatures` sight is being at the same place, whether a path was found is open, and the
references of the set of `checkFollow` are `PathFinding`'s; friends of monsters, guardians, duelists,
invisibility and vetoes of scripts are left out, and a player's chase mode is on. In
`Persistence` a character's flag `save = 0` is not set, and only tables that hold items
have rows. In `Flight` a path of the A* search is one step in any direction, and time, which
decides when a monster walks, is open. In `Decay` there is one item, as items do not touch
each other. In `Conditions` a condition has one amount, time is counted in checks, and
suppressions are left out; in `Combat` a blow is a number, mana shields, immunities and ghosts
are blows that do not come, regeneration heals at every check, there is no protection zone,
and whether a player dies in the arena is open.
In `Npcs`, `Channels` and `Beds` distances are not computed: who sees an NPC and
who may lie down is open. Statistics are not compiled (`STATS_ENABLED` is not defined).

Not modelled, with reasons, are the components marked so in `PROJECT.json`: pure data
(encryption, encoding, configuration), large sequential behaviour without interaction
across tasks (formulas and areas of combat), content (scripts, maps), bindings of the Lua interface
(one wrapper per method), and what is left to the plan.

## 7. Plan

Order: first what every other part relies on (threads and queues), then what carries
state across tasks, then components on the dispatcher.

1. Dispatcher with its promise and proofs -- done.
2. Scheduler and script timers; asynchronous queries; path finding -- done.
3. Connection with its promise; output pool; game login; waiting list -- done.
4. Trade; party -- done.
5. Service ports and throttling; transactions, saves and crashes with the market;
   creatures with targets, summons and reference counts; item moves through the cylinders
   (stacks, weights, open containers, money) -- done.
6. Spawns and raids; NPCs; channels and guilds; beds; decay; the steps of monsters;
   conditions; harm and death -- done.
   Left: spells and the rest of combat, item use, doors and rent of houses, the market's pages, the whole
   life of the process from loader to join as a composition.
7. Proofs: `Dispatcher` and its refinement of `TaskQueue`, `Connection` and its refinement
   of `ConnectionLife`, `GameLogin`, `Persistence`, `DatabaseTasks`, `PathFinding`,
   `OutputPool`, `WaitingList`, `Scheduler` with `LuaTimers`, `Services`, `Ban`, `Party`, `Trade`, `Beds`,
   `Npcs`, `Channels`, `Flight`, `Decay`, `Spawns`, `Raids` -- done.
   Left to TLC for the reasons of section 6: `Items`, `Creatures`,
   `Conditions`, `Combat`, and all liveness. The references of `Creatures` would come next,
   with the fold over the spectators replaced by a relation between before and after.
