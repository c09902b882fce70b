----------------------------- MODULE MCAgentLog -----------------------------
(***************************************************************************)
(* AgentLog on small instances.  No symmetry is declared, for the runs     *)
(* check a liveness property as well.                                      *)
(***************************************************************************)
EXTENDS AgentLog
=============================================================================
