---------------------------- MODULE MCToolCalls ----------------------------
(***************************************************************************)
(* Small batches of tool calls for TLC.                                    *)
(***************************************************************************)
EXTENDS ToolCalls
=============================================================================
