---------------------------- MODULE MCConfigStore ----------------------------
(* Instances of the settings of several sessions for TLC.                   *)
EXTENDS ConfigStore, TLC

Symmetry == Permutations(Sessions) \union Permutations(Models) \union Permutations(Keys)
=============================================================================
