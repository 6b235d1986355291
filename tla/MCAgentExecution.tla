-------------------------- MODULE MCAgentExecution --------------------------
(***************************************************************************)
(* AgentExecution for TLC: two calls for one task, one after the other or  *)
(* one at a time, and one workflow run.                                    *)
(***************************************************************************)
EXTENDS AgentExecution, TLC
=============================================================================
