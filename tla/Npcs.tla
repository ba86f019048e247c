-------------------------------- MODULE Npcs --------------------------------
(***************************************************************************)
(* The windows in which players trade with NPCs and the players an NPC has *)
(* in sight (npc.cpp, player.cpp).  A window is noted on both sides, in    *)
(* Player::shopOwner and Npc::shopPlayerSet, as raw pointers, and holds    *)
(* callbacks in the registry of Lua.  It is closed by the client, by       *)
(* scripts, by the next window, by a logout, with the NPC and by a reload. *)
(* A player who loses the client stays in the world and may get one again. *)
(*                                                                         *)
(* What scripts do when a window closes does not open or close another;    *)
(* scripts only use NPCs and players that are there.                       *)
(***************************************************************************)
EXTENDS Naturals, FiniteSets

CONSTANTS Players, Npcs, NoNpc

VARIABLES
  world,         \* players and NPCs that are in it
  shopOwner,     \* of each player
  shopPlayerSet, \* of each NPC
  callbacks,     \* of each NPC: windows whose callbacks are in the registry
  clients,       \* the players that have one (Player::client)
  near,          \* of each NPC: the players whose moves it is told of
  inSight,       \* of each NPC: those of them whose screen it would be on
  spectators,    \* of each NPC: the players it believes to see it
  isIdle,
  unsure,        \* history, of each NPC: the players that were near when it was
                 \* placed or moved, or moved without a client, and have not
                 \* moved with one since
  reloaded       \* history: the NPCs that nobody appeared to or moved or left
                 \* near since they were loaded again

vars == <<world, shopOwner, shopPlayerSet, callbacks, clients, near, inSight, spectators,
          isIdle, unsure, reloaded>>

TypeOK ==
  /\ world \subseteq Players \cup Npcs
  /\ shopOwner \in [Players -> Npcs \cup {NoNpc}]
  /\ shopPlayerSet \in [Npcs -> SUBSET Players]
  /\ callbacks \in [Npcs -> Nat]
  /\ clients \subseteq Players
  /\ near \in [Npcs -> SUBSET Players]
  /\ inSight \in [Npcs -> SUBSET Players]
  /\ spectators \in [Npcs -> SUBSET Players]
  /\ isIdle \in [Npcs -> BOOLEAN]
  /\ unsure \in [Npcs -> SUBSET Players]
  /\ reloaded \subseteq Npcs

Init ==
  /\ world = {}
  /\ shopOwner = [p \in Players |-> NoNpc]
  /\ shopPlayerSet = [n \in Npcs |-> {}]
  /\ callbacks = [n \in Npcs |-> 0]
  /\ clients = {}
  /\ near = [n \in Npcs |-> {}] /\ inSight = near /\ spectators = near
  /\ isIdle = [n \in Npcs |-> TRUE]
  /\ unsure = near /\ reloaded = {}

shop == <<shopOwner, shopPlayerSet, callbacks>>
sight == <<clients, near, inSight, spectators, isIdle, unsure, reloaded>>

(* Variants of the operators, each with one slip a change of this code     *)
(* could make; the runs must notice them.                                  *)
KeepsPrevious(p) == {}
OnlyNear(n) == shopPlayerSet[n] \cap near[n]
NearAfter(p, ns) == {n \in Npcs : n \in ns}

-----------------------------------------------------------------------------
(* Windows. *)

(* Player::closeShopWindow with Npc::onPlayerEndTrade of every player in    *)
(* `ps`, and then the window p opens with n, if n is an NPC.                *)
Released(n, ps) == Cardinality({q \in ps : shopOwner[q] = n})

Windows(ps, p, n) ==
  /\ shopOwner' = [q \in Players |-> IF q = p /\ n \in Npcs THEN n
                                     ELSE IF q \in ps THEN NoNpc ELSE shopOwner[q]]
  /\ shopPlayerSet' =
       [m \in Npcs |-> (shopPlayerSet[m] \ {q \in ps : shopOwner[q] = m})
                       \cup {q \in {p} : m = n}]
  /\ callbacks' =
       [m \in Npcs |-> (callbacks[m] - Released(m, ps)) + (IF m = n THEN 1 ELSE 0)]

Closed(ps) == \E q \in Players : Windows(ps, q, NoNpc)

(* openShopWindow closes the player's other window first. *)
Previous(p) == {p}

OpenShopWindow(p, n) ==
  /\ p \in world /\ n \in world
  /\ Windows(Previous(p), p, n)
  /\ UNCHANGED <<world, sight>>

(* Game::playerCloseShop, and closeShopWindow of scripts, which closes the  *)
(* window with that NPC only.                                               *)
CloseShopWindow(p) ==
  /\ p \in world /\ shopOwner[p] # NoNpc
  /\ Closed({p})
  /\ UNCHANGED <<world, sight>>

(* closeAllShopWindows. *)
Customers(n) == shopPlayerSet[n]

-----------------------------------------------------------------------------
(* Sight. *)

(* p is now near the NPCs in `ns` and would have those in `seen` on screen. *)
With(sets, p, ns) == [n \in Npcs |-> IF n \in ns THEN sets[n] \cup {p} ELSE sets[n] \ {p}]

Placed(p, ns, seen) ==
  /\ near' = With(near, p, ns)
  /\ inSight' = With(inSight, p, seen)

(* Who is told: the NPCs near the old and the new position.                 *)
Told(p, ns) == {n \in Npcs : n \in ns \/ p \in near[n]}

(* Player::canSee: nobody sees anything without a client.                   *)
CanSee(p, ns) == {n \in ns : p \in clients}

(* Those who are told believe `seen` to be seen by p; updateIdleStatus.     *)
(* They are wrong if p has no client and will get one where it is.          *)
Believed(p, told, seen, blind) ==
  LET now == [n \in Npcs |-> IF n \in told THEN With(spectators, p, seen)[n]
                             ELSE spectators[n]]
  IN /\ spectators' = now
     /\ isIdle' = [n \in Npcs |-> IF n \in told THEN now[n] = {} ELSE isIdle[n]]
     /\ unsure' = [n \in Npcs |-> IF n \in told THEN With(unsure, p, blind)[n]
                                  ELSE unsure[n]]
     /\ reloaded' = reloaded \ told

(* onCreatureAppear does not ask whether the player can see the NPC.        *)
Appear(p, ns, seen) ==
  /\ p \notin world /\ world' = world \cup {p} /\ clients' = clients \cup {p}
  /\ Placed(p, ns, seen) /\ Believed(p, ns, ns, {})
  /\ UNCHANGED shop

(* Player::onRemoveCreature closes the window. *)
RemovePlayer(p) ==
  /\ p \in world /\ world' = world \ {p} /\ clients' = clients \ {p}
  /\ Closed({p})
  /\ Placed(p, {}, {}) /\ Believed(p, Told(p, {}), {}, {})

(* onCreatureMove. *)
MovePlayer(p, ns, seen) ==
  /\ p \in world
  /\ Placed(p, ns, seen)
  /\ Believed(p, Told(p, ns), CanSee(p, seen), seen \ CanSee(p, seen))
  /\ UNCHANGED <<world, shop, clients>>

(* ProtocolGame::release and ProtocolGame::connect tell no NPC. *)
LoseClient(p) ==
  /\ p \in world \cap clients /\ clients' = clients \ {p}
  /\ UNCHANGED <<world, shop, near, inSight, spectators, isIdle, unsure, reloaded>>

Reconnect(p) ==
  /\ p \in world \ clients /\ clients' = clients \cup {p}
  /\ UNCHANGED <<world, shop, near, inSight, spectators, isIdle, unsure, reloaded>>

(* An NPC is placed or moves: it does not look who is there. *)
Arrive(n, ps, seeing) ==
  /\ ps \subseteq world /\ seeing \subseteq ps
  /\ world' = world \cup {n}
  /\ near' = [near EXCEPT ![n] = ps] /\ inSight' = [inSight EXCEPT ![n] = seeing]
  /\ unsure' = [unsure EXCEPT ![n] = @ \cup ps \cup near[n]]
  /\ UNCHANGED <<shop, clients, spectators, isIdle, reloaded>>

(* onRemoveCreature of the NPC.  Its memory may be another's later. *)
RemoveNpc(n) ==
  /\ n \in world /\ world' = world \ {n}
  /\ Closed(Customers(n))
  /\ near' = [near EXCEPT ![n] = {}] /\ inSight' = [inSight EXCEPT ![n] = {}]
  /\ spectators' = [spectators EXCEPT ![n] = {}]
  /\ isIdle' = [isIdle EXCEPT ![n] = TRUE]
  /\ unsure' = [unsure EXCEPT ![n] = {}] /\ reloaded' = reloaded \ {n}
  /\ UNCHANGED clients

(* Npcs::reload: the windows of all are closed before the first NPC is      *)
(* loaded again.  It is idle then and keeps its spectators.                 *)
Reload ==
  /\ Closed(UNION {Customers(n) : n \in Npcs})
  /\ isIdle' = [n \in Npcs |-> TRUE]
  /\ reloaded' = reloaded \cup {n \in Npcs : spectators[n] # {}}
  /\ UNCHANGED <<world, clients, near, inSight, spectators, unsure>>

Next ==
  \/ \E p \in Players :
       \/ \E n \in Npcs : OpenShopWindow(p, n)
       \/ \E ns \in SUBSET (world \cap Npcs) : \E seen \in SUBSET ns :
            Appear(p, ns, seen) \/ MovePlayer(p, ns, seen)
       \/ CloseShopWindow(p) \/ RemovePlayer(p) \/ LoseClient(p) \/ Reconnect(p)
  \/ \E n \in Npcs :
       \/ \E ps \in SUBSET Players : \E seeing \in SUBSET ps : Arrive(n, ps, seeing)
       \/ RemoveNpc(n)
  \/ Reload

Spec == Init /\ [][Next]_vars

-----------------------------------------------------------------------------
(* Properties. *)

(* Player::shopOwner and Npc::shopPlayerSet are raw pointers to each other: *)
(* they agree, both sides are in the world, and each window holds its       *)
(* callbacks once.  An NPC knows the players who have it in sight, and no   *)
(* player that is not even near any more, but for those who moved without   *)
(* a client, or were near when it moved, and have not moved since.  It      *)
(* rests exactly if it knows nobody, from the first news after a reload.    *)
NpcsInv ==
  /\ TypeOK
  /\ \A p \in Players, n \in Npcs :
       /\ shopOwner[p] = n <=> p \in shopPlayerSet[n]
       /\ shopOwner[p] = n => {p, n} \subseteq world
  /\ \A n \in Npcs :
       /\ callbacks[n] = Cardinality(shopPlayerSet[n])
       /\ inSight[n] \ unsure[n] \subseteq spectators[n]
       /\ spectators[n] \ unsure[n] \subseteq near[n]
       /\ n \notin reloaded => (isIdle[n] <=> spectators[n] = {})
=============================================================================
