------------------------------- MODULE MCTown -------------------------------
(***************************************************************************)
(* What goes on in a town, in one run: shops of NPCs, chat channels, beds, *)
(* monsters that keep away, items that decay, the conditions of a creature *)
(* and what harms and kills one.  As in MCOnline the components share no   *)
(* variable, and a behaviour is one of the component that is busy.         *)
(*                                                                         *)
(* Two beds; one guild has a default rank and one has none.  A torch burns *)
(* down to embers, which go out; the ring that is worn wears out and keeps *)
(* its time when taken off; remains become bones, which would vanish but   *)
(* have no time to do so, like those of Koshei in items.xml.  One haste    *)
(* has no end; invisibility is given by a spell and by an item.  A player  *)
(* and a wild monster deal damage; one poison bites once, one is stronger. *)
(***************************************************************************)
EXTENDS Integers, FiniteSets

CONSTANTS
  Players,
  Buyers, Npcs,    NoNpc,                                 \* Npcs
  Premium, Guilds, Ranked, Addresses, Numbers, NoGuild, NoParty, NoChannel, \* Channels
  Owners, Halves, Partner, Nobody, NoBed,                 \* Beds
  TargetDistance, Reach,                                  \* Flight
  Kinds, DecayTime, DecayTo, StopTime, Durations, MaxEntries, Vanish, NoDecay, \* Decay
  Gifts, PzTicks, MaxStep, MaxDelay, MaxList, MaxEvents,  \* Conditions
  Dealers, Hunters, NoDealer, MaxHealth, MaxHit, Experience, Poisons, TickInterval,
  RegenTicks, RegenGain, Width, MaxTotal, MaxTasks        \* Combat

ASSUME TownAssumption ==
  /\ IsFiniteSet(Players) /\ IsFiniteSet(Buyers)
  /\ NoNpc \notin Npcs /\ Buyers \cap Npcs = {} /\ Owners \subseteq Players
  /\ Premium \subseteq Players /\ Ranked \subseteq Guilds
  /\ NoGuild \notin Guilds /\ NoParty \notin Addresses
  /\ IsFiniteSet(Numbers)
  /\ Numbers = 1..Cardinality(Numbers) /\ Cardinality(Numbers) >= Cardinality(Players)
  /\ Partner \in [Halves -> Halves]
  /\ \A h \in Halves : Partner[h] # h /\ Partner[Partner[h]] = h
  /\ Nobody \notin Players /\ NoBed \notin Halves
  /\ TargetDistance \in Nat /\ Reach \in Nat
  /\ Kinds # {} /\ DecayTime \in [Kinds -> Nat]
  /\ DecayTo \in [Kinds -> Kinds \cup {Vanish, NoDecay}]
  /\ StopTime \subseteq Kinds /\ \A k \in StopTime : DecayTime[k] = 0
  /\ Durations \subseteq Nat /\ MaxEntries \in Nat /\ MaxEntries >= 2
  /\ {Vanish, NoDecay} \cap Kinds = {} /\ Vanish # NoDecay
  /\ {PzTicks, MaxStep, MaxDelay, MaxList, MaxEvents} \subseteq Nat
  /\ Hunters \subseteq Dealers /\ NoDealer \notin Dealers
  /\ {RegenGain, MaxTotal, MaxTasks} \subseteq Nat
  /\ {MaxHealth, MaxHit, Experience, TickInterval, RegenTicks, Width} \subseteq Nat \ {0}

VARIABLES
  world, shopOwner, shopPlayerSet, callbacks, clients, near, inSight, spectators, isIdle,
  unsure, reloaded,
  chatting, guild, party, membersOnline, guildUsers, partyUsers, privates, orphans,
  awake, owner, sleeper, bedSleepersMap, bedItem, asked, kicks, saved, hasty,
  offset, listWalkDir, hasFollowPath, stepDuration, fleeing,
  item, lastBucket,
  body, walkDelay, stored, present,
  kind, health, tasks, damageMap, lastHit, here, list, standing, paid,
  busy  \* the component whose behaviour this is

Shops == INSTANCE Npcs WITH Players <- Buyers
Chat == INSTANCE Channels WITH online <- chatting
Sleep == INSTANCE Beds WITH online <- awake
Steps == INSTANCE Flight
Time == INSTANCE Decay
States == INSTANCE Conditions WITH inWorld <- present
Blows == INSTANCE Combat WITH inWorld <- standing

shopVars == <<world, shopOwner, shopPlayerSet, callbacks, clients, near, inSight, spectators,
              isIdle, unsure, reloaded>>
chatVars == <<chatting, guild, party, membersOnline, guildUsers, partyUsers, privates,
              orphans>>
bedVars == <<awake, owner, sleeper, bedSleepersMap, bedItem, asked, kicks, saved, hasty>>
flightVars == <<offset, listWalkDir, hasFollowPath, stepDuration, fleeing>>
decayVars == <<item, lastBucket>>
conditionVars == <<body, walkDelay, stored, present>>
combatVars == <<kind, health, tasks, damageMap, lastHit, here, list, standing, paid>>
vars == <<shopVars, chatVars, bedVars, flightVars, decayVars, conditionVars, combatVars, busy>>

Init ==
  /\ Shops!Init /\ Chat!Init /\ Sleep!Init /\ Steps!Init /\ Time!Init
  /\ States!Init /\ Blows!Init
  /\ busy \in {"shops", "chat", "beds", "flight", "decay", "conditions", "combat"}
  /\ busy # "combat" => kind = "player"

Next ==
  \/ /\ busy = "shops" /\ Shops!Next
     /\ UNCHANGED <<chatVars, bedVars, flightVars, decayVars, conditionVars, combatVars, busy>>
  \/ /\ busy = "chat" /\ Chat!Next
     /\ UNCHANGED <<shopVars, bedVars, flightVars, decayVars, conditionVars, combatVars, busy>>
  \/ /\ busy = "beds" /\ Sleep!Next
     /\ UNCHANGED <<shopVars, chatVars, flightVars, decayVars, conditionVars, combatVars, busy>>
  \/ /\ busy = "flight" /\ Steps!Next
     /\ UNCHANGED <<shopVars, chatVars, bedVars, decayVars, conditionVars, combatVars, busy>>
  \/ /\ busy = "decay" /\ Time!Next
     /\ UNCHANGED <<shopVars, chatVars, bedVars, flightVars, conditionVars, combatVars, busy>>
  \/ /\ busy = "conditions" /\ States!Next
     /\ UNCHANGED <<shopVars, chatVars, bedVars, flightVars, decayVars, combatVars, busy>>
  \/ /\ busy = "combat" /\ Blows!Next
     /\ UNCHANGED <<shopVars, chatVars, bedVars, flightVars, decayVars, conditionVars, busy>>

Spec == Init /\ [][Next]_vars

-----------------------------------------------------------------------------
(* The properties of the components, as their modules state them: windows   *)
(* of NPCs and whom they see, and who listens to a channel; who sleeps      *)
(* where; the steps of who keeps away; the lists of decaying items; what    *)
(* conditions leave behind, who dies and who is paid for it.  While another *)
(* component is busy their state rests.                                     *)
TalkInv == (busy = "shops" => Shops!NpcsInv) /\ (busy = "chat" => Chat!ChannelsInv)
BedsInv == busy = "beds" => Sleep!BedsInv
FlightInv == busy = "flight" => Steps!FlightInv
DecayInv == busy = "decay" => Time!DecayInv
HarmInv == (busy = "conditions" => States!ConditionsInv) /\ (busy = "combat" => Blows!CombatInv)

Channel12 == 1..2
FourHalves == 1..4
Pairs == [h \in FourHalves |-> IF h % 2 = 0 THEN h - 1 ELSE h + 1]
ItemKinds == {"torch", "embers", "worn", "rested", "remains", "bones"}
BurnTimes ==
  [torch |-> 16, embers |-> 8, worn |-> 16, rested |-> 0, remains |-> 8, bones |-> 0]
Becomes ==
  [torch |-> "embers", embers |-> "vanish", worn |-> "vanish", rested |-> "never",
   remains |-> "bones", bones |-> "vanish"]

Gift(type, id, amount, ticks) == [type |-> type, id |-> id, amount |-> amount, ticks |-> ticks]
GivenConditions ==
  {Gift("haste", "combat", 2, 2), Gift("haste", "combat", 3, -1),
   Gift("paralyze", "combat", -1, 1),
   Gift("attributes", "combat", 1, 2), Gift("attributes", "combat", 2, 1),
   Gift("invisible", "combat", 0, 1), Gift("invisible", "slot", 0, -1)}
Poison(amount, start, first, delayed, force) ==
  [amount |-> amount, start |-> start, first |-> first, delayed |-> delayed, force |-> force]
TwoPoisons == {Poison(1, 1, 1, FALSE, FALSE), Poison(3, 2, 0, TRUE, TRUE)}

(* The rounds of a poison sum up to what was drawn, for more poisons than   *)
(* those of the run.                                                        *)
ASSUME PoisonAssumption ==
  \A amount \in 1..60, start \in 1..9 :
    Blows!SumOf(Blows!GenerateDamageList(amount, start)) = Blows!Whole(amount, start)
=============================================================================
