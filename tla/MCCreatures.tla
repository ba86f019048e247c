----------------------------- MODULE MCCreatures -----------------------------
(* Creatures for TLC.  Monsters, players and places are interchangeable. *)
EXTENDS Creatures, TLC

Symmetry ==
  Permutations(Players) \cup Permutations(Monsters) \cup Permutations(Places)
=============================================================================
