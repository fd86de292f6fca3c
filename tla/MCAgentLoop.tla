---------------------------- MODULE MCAgentLoop ----------------------------
(***************************************************************************)
(* The instances of AgentLoop that TLC checks: two messages are enough for *)
(* one to be claimed while the other is owed a driver, so no bound beyond  *)
(* the ones of the cfg is needed.                                          *)
(***************************************************************************)
EXTENDS AgentLoop
=============================================================================
