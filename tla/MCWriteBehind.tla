---------------------------- MODULE MCWriteBehind ----------------------------
(***************************************************************************)
(* Small instances of WriteBehind for TLC.                                 *)
(***************************************************************************)
EXTENDS WriteBehind
=============================================================================
