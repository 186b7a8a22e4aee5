---------------------------- MODULE MCConfigWizard ----------------------------
(* Instances of the provider setup for TLC.                                 *)
EXTENDS ConfigWizard
=============================================================================
