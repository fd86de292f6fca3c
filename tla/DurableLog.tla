----------------------------- MODULE DurableLog ------------------------------
(***************************************************************************)
(* What session persistence promises the rest of the program: events are   *)
(* produced without waiting, a growing prefix of them is stored, and a     *)
(* flush that resolves stands for everything produced before it was        *)
(* called.  WriteBehind is shown to implement this specification, and      *)
(* CrashRecovery relies on nothing else.                                   *)
(***************************************************************************)
EXTENDS Naturals

CONSTANT Flushes        \* calls of flush()

VARIABLES
    produced,           \* number of events produced
    stored,             \* number of events stored: a prefix of them
    call,               \* where each flush is
    target              \* what had been produced when it was called

vars == <<produced, stored, call, target>>

Init ==
    /\ produced \in Nat /\ stored = 0
    /\ call = [f \in Flushes |-> "idle"]
    /\ target = [f \in Flushes |-> 0]

Produce ==
    /\ produced' = produced + 1
    /\ UNCHANGED <<stored, call, target>>

Store ==
    /\ stored' \in stored..produced
    /\ UNCHANGED <<produced, call, target>>

CallFlush(f) ==
    /\ call[f] = "idle"
    /\ call' = [call EXCEPT ![f] = "pending"]
    /\ target' = [target EXCEPT ![f] = produced]
    /\ UNCHANGED <<produced, stored>>

\* Concurrent callers share one barrier, so several may be answered at once.
Answer(F, how) ==
    /\ \A f \in F : call[f] = "pending"
    /\ call' = [f \in Flushes |-> IF f \in F THEN how ELSE call[f]]
    /\ UNCHANGED <<produced, stored, target>>

Resolve(F) == /\ \A f \in F : target[f] <= stored
              /\ Answer(F, "resolved")

Reject(F) == Answer(F, "rejected")

Next ==
    \/ Produce \/ Store
    \/ \E f \in Flushes : CallFlush(f)
    \/ \E F \in SUBSET Flushes : Resolve(F) \/ Reject(F)

Spec == Init /\ [][Next]_vars
=============================================================================
