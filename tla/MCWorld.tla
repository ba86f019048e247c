------------------------------ MODULE MCWorld --------------------------------
(***************************************************************************)
(* The chains of scheduler events that keep the world populated, in one    *)
(* run: the spawns, which bring a block's monster back, and the raids.      *)
(* They share no variable, and each behaviour is one of the chain that goes *)
(* on in it.                                                                *)
(***************************************************************************)
EXTENDS Naturals, FiniteSets

CONSTANTS
  Blocks, Delay, RateSpawn, Monsters, MaxLosses, MaxRefusals,  \* Spawns
  Names, Repeats, Length, NoRaid, MaxReloads                   \* Raids

ASSUME WorldAssumption ==
  /\ Blocks = 1..Cardinality(Blocks) /\ IsFiniteSet(Blocks)
  /\ Delay \in [Blocks -> Nat \ {0}] /\ RateSpawn \in Nat
  /\ Monsters \subseteq Nat /\ IsFiniteSet(Monsters)
  /\ MaxLosses \in Nat /\ MaxRefusals \in Nat
  /\ Repeats \subseteq Names /\ Length \in [Names -> Nat] /\ MaxReloads \in Nat
  /\ NoRaid \notin Names \X (0..MaxReloads)

VARIABLES
  where, refs, spawn, spawnedMap, rest, check, started, losses, refusals, missed,
  load, loaded, raidList, deleted, running, next, pending, alive, late,
  chain  \* the chain whose behaviour this is

Respawn == INSTANCE Spawns WITH failures <- refusals, MaxFailures <- MaxRefusals
Raiding == INSTANCE Raids

spawnVars == <<where, refs, spawn, spawnedMap, rest, check, started, losses,
               refusals, missed>>
raidVars == <<load, loaded, raidList, deleted, running, next, pending, alive, late>>
worldVars == <<spawnVars, raidVars, chain>>

WorldInit ==
  /\ Respawn!Init /\ Raiding!Init
  /\ chain \in {"spawns", "raids"}

WorldNext ==
  \/ /\ chain = "spawns" /\ Respawn!Next
     /\ UNCHANGED <<raidVars, chain>>
  \/ /\ chain = "raids" /\ Raiding!Next
     /\ UNCHANGED <<spawnVars, chain>>

WorldSpec ==
  /\ WorldInit /\ [][WorldNext]_worldVars
  /\ \/ chain = "spawns" /\ Respawn!Fairness
     \/ chain = "raids" /\ Raiding!Fairness

-----------------------------------------------------------------------------
(* The properties of the two chains, as their modules state them: the       *)
(* blocks of a spawn, and the events of raids.                              *)
WorldInv == Respawn!SpawnsInv /\ Raiding!RaidsInv
WorldGoesOn ==
  /\ chain = "spawns" => Respawn!BlocksRefill
  /\ chain = "raids" => Raiding!RaidsGoOn

TwoBlocks == 1..2
Delays == [b \in TwoBlocks |-> b]
SixMonsters == 1..6
Lengths == [n \in Names |-> 2]
=============================================================================
