------------------------------- MODULE MCJobs -------------------------------
(***************************************************************************)
(* Small instances of Jobs for TLC: all waits are for the same job.  Waits *)
(* are interchangeable, so they begin in a fixed order; no fairness is on  *)
(* their beginning.                                                        *)
(***************************************************************************)
EXTENDS Jobs

MCInit == Init /\ target = [w \in Waits |-> CHOOSE j \in Jobs : TRUE]

First == CHOOSE w \in Waits : TRUE
InOrder == wait[First] = "off" => \A w \in Waits \ {First} : wait'[w] = "off"

MCNext == Next /\ InOrder
MCSpec == MCInit /\ [][MCNext]_vars /\ Fairness
=============================================================================
