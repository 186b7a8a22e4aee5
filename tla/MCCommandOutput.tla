--------------------------- MODULE MCCommandOutput ---------------------------
(* Instances of a command and its output for TLC.                          *)
EXTENDS CommandOutput
=============================================================================
