--------------------------- MODULE MCCrashRecovery ---------------------------
(***************************************************************************)
(* Small instances of CrashRecovery for TLC.                               *)
(***************************************************************************)
EXTENDS CrashRecovery

TwoCalls == 1..2
=============================================================================
