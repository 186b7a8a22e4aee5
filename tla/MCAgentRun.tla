------------------------------ MODULE MCAgentRun ------------------------------
(* Instances of AgentRun for TLC; the bounds are in the configurations.    *)
EXTENDS AgentRun
=============================================================================
