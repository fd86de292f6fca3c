--------------------------- MODULE MCAgentLifecycle ---------------------------
(***************************************************************************)
(* Small instances of AgentLifecycle for TLC.                              *)
(***************************************************************************)
EXTENDS AgentLifecycle, TLC

\* Attempts are interchangeable; used only where no liveness is checked.
AttemptSymmetry == Permutations(Attempts)
=============================================================================
