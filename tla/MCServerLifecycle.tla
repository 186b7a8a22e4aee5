--------------------------- MODULE MCServerLifecycle ---------------------------
(* Instances of the tool server's life cycle for TLC.                      *)
EXTENDS ServerLifecycle

CONSTANTS a, b
=============================================================================
