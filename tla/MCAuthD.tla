-------------------------------- MODULE MCAuthD --------------------------------
(* Instances of golim-authd for TLC.                                       *)
EXTENDS AuthD, TLC

CONSTANTS root, u1, c1, c2

ConnSymmetry == Permutations(Conns)
=============================================================================
