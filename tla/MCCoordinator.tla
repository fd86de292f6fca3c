---------------------------- MODULE MCCoordinator ----------------------------
(***************************************************************************)
(* Small instances of Coordinator: the log is empty, or it was torn in the *)
(* middle of a turn.                                                       *)
(***************************************************************************)
EXTENDS Coordinator, TLC

MCInit == Init /\ torn = (log # <<>>)
MCSpec == MCInit /\ [][Next]_vars

\* Lifecycles are interchangeable, and so are calls.
MCSymmetry == Permutations(Lifecycles) \cup Permutations(Calls)

\* What a call awaited, what it was shown and whether it was aborted means nothing once it
\* has gone on.
MCView ==
    <<logVars, holder, lifeVars, retirement, state, entry, chain, running, reloads, kind, call,
      {c \in aborted : call[c] \notin {"done", "rejected"}},
      [c \in Calls |-> IF call[c] \in {"join", "drain"} THEN on[c] ELSE Nobody],
      [c \in Calls |-> IF call[c] \in {"check", "queued"} THEN source[c] ELSE Nobody]>>
=============================================================================
