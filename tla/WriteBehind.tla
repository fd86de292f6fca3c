----------------------------- MODULE WriteBehind -----------------------------
(***************************************************************************)
(* The write path of one live session: the controller that batches its     *)
(* events (SessionWriteBehind) and the coordinator's flush() in front of   *)
(* it.  Producers never wait; a fixed window, a barrier or an overrun      *)
(* starts a write of everything pending; a failed batch is put back and    *)
(* automatic writes pause.                                                 *)
(*                                                                         *)
(* An event is its sequence number, counted from 1.  The actions are the   *)
(* callbacks: producers and callers of flush() may run between any two of  *)
(* them, but a timer and the backend only when no continuation is queued   *)
(* (Quiet).  A write settles in two callbacks: its outcome is recorded,    *)
(* and only later does the controller forget it.                           *)
(***************************************************************************)
EXTENDS Naturals, Sequences

CONSTANTS
    Callers,            \* flushes by other packages
    Retirement,         \* the flush of the session's disposal
    MaxEvents           \* bound on the events produced

Flushes == Callers \cup {Retirement}

ASSUME WriteBehindAssumption ==
    /\ Retirement \notin Callers
    /\ MaxEvents \in Nat \ {0}

VARIABLES
    init,               \* live.init: "pending", "ready" or "failed"
    seed,               \* events initialization stores that are queued as well
    produced,           \* events produced
    closed,             \* the session is disposed and produces no more
    pending,            \* events queued
    batch,              \* events of the latest write
    durable,            \* events stored; its length is the coordinator's cursor
    write,              \* the latest write: "off" once the controller forgot it
    background,         \* nobody awaits it
    timer,              \* the batching window is open
    expired,            \* deadlineExpired
    paused,             \* automaticPaused
    automatic,          \* continueAutomatic() is queued
    drain,              \* where drainBarrier() is; "none" without a barrier
    call,               \* where each flush() is
    target              \* what had been produced when it was called

queueVars == <<pending, batch, write, background, timer, expired>>
vars == <<init, seed, produced, closed, queueVars, durable, paused, automatic, drain, call, target>>

TypeOK ==
    /\ init \in {"pending", "ready", "failed"} /\ seed \in {0, 1}
    /\ produced \in 0..MaxEvents
    /\ pending \in Seq(Nat) /\ batch \in Seq(Nat) /\ durable \in Seq(Nat)
    /\ write \in {"off", "writing", "written", "failed"}
    /\ drain \in {"none", "overlap", "writing", "failed"}
    /\ closed \in BOOLEAN /\ background \in BOOLEAN /\ timer \in BOOLEAN
    /\ expired \in BOOLEAN /\ paused \in BOOLEAN /\ automatic \in BOOLEAN
    /\ call \in [Flushes -> {"idle", "init", "joined", "resolved", "rejected"}]
    /\ target \in [Flushes -> Nat]

\* Initialization reads the session's events.  Begun by the first event that is queued
\* and not by the session's creation, it reads that event too.
Init ==
    /\ init = "pending" /\ seed \in {0, 1}
    /\ produced = seed /\ pending = [n \in 1..seed |-> n] /\ timer = (seed = 1)
    /\ closed = FALSE /\ batch = <<>> /\ durable = <<>>
    /\ write = "off" /\ background = FALSE /\ expired = FALSE /\ paused = FALSE /\ automatic = FALSE
    /\ drain = "none"
    /\ call = [f \in Flushes |-> "idle"] /\ target = [f \in Flushes |-> 0]

-----------------------------------------------------------------------------

\* No continuation of the controller waits in the microtask queue.
Quiet == /\ write \in {"off", "writing"} /\ ~automatic
         /\ drain # "none" => write = "writing"

Barrier == drain # "none"

\* The seed is stored, or refused, before the first batch.
InitSettles ==
    /\ init = "pending"
    /\ \/ init' = "ready" /\ durable' = [n \in 1..seed |-> n]
       \/ init' = "failed" /\ UNCHANGED durable
    /\ UNCHANGED <<seed, produced, closed, queueVars, paused, automatic, drain, call, target>>

\* enqueue()
Enqueue ==
    /\ ~closed /\ produced < MaxEvents
    /\ produced' = produced + 1
    /\ pending' = Append(pending, produced + 1)
    /\ IF ~Barrier /\ paused
       THEN paused' = FALSE /\ expired' = FALSE /\ timer' = TRUE
       ELSE /\ timer' = (timer \/ (~Barrier /\ pending = <<>>))
            /\ UNCHANGED <<paused, expired>>
    /\ UNCHANGED <<init, seed, closed, batch, durable, write, background, automatic, drain, call, target>>

\* startWrite(): everything pending becomes one batch.
StartWrite(detached) ==
    /\ batch' = pending /\ pending' = <<>>
    /\ timer' = FALSE /\ expired' = FALSE
    /\ write' = "writing" /\ background' = detached

\* Faulty: a window that passes during a write is forgotten.
DeadlineForgotten ==
    /\ timer /\ Quiet
    /\ \/ /\ write # "off"
          /\ timer' = FALSE
          /\ UNCHANGED <<pending, batch, write, background, expired>>
       \/ /\ write = "off"
          /\ StartWrite(TRUE)
    /\ UNCHANGED <<init, seed, produced, closed, durable, paused, automatic, drain, call, target>>

\* onDeadline()
Deadline ==
    /\ timer /\ Quiet
    /\ \/ /\ write # "off"
          /\ timer' = FALSE /\ expired' = TRUE
          /\ UNCHANGED <<pending, batch, write, background>>
       \/ /\ write = "off"
          /\ StartWrite(TRUE)
    /\ UNCHANGED <<init, seed, produced, closed, durable, paused, automatic, drain, call, target>>

\* The backend committed the batch, less the k events that initialization has stored;
\* the rest must continue the stored events.  The cursor moves at once.
Commit ==
    /\ write = "writing" /\ Quiet /\ init = "ready"
    /\ \E k \in 0..Len(batch) :
         /\ \A i \in 1..k : batch[i] <= Len(durable)
         /\ \A i \in (k + 1)..Len(batch) : batch[i] = Len(durable) + i - k
         /\ durable' = durable \o SubSeq(batch, k + 1, Len(batch))
    /\ write' = "written"
    /\ UNCHANGED <<init, seed, produced, closed, pending, batch, background, timer, expired,
                   paused, automatic, drain, call, target>>

\* Faulty: the batch returns to the tail of the queue.
RefuseBehind ==
    /\ write = "writing" /\ Quiet /\ init # "pending"
    /\ write' = "failed"
    /\ pending' = pending \o batch
    /\ timer' = FALSE /\ expired' = FALSE /\ paused' = TRUE
    /\ drain' = IF background THEN drain ELSE "failed"
    /\ UNCHANGED <<init, seed, produced, closed, batch, background, durable, automatic, call, target>>

\* The write is refused: the batch returns to the head of the queue.
Refuse ==
    /\ write = "writing" /\ Quiet /\ init # "pending"
    /\ write' = "failed"
    /\ pending' = batch \o pending
    /\ timer' = FALSE /\ expired' = FALSE /\ paused' = TRUE
    /\ drain' = IF background THEN drain ELSE "failed"
    /\ UNCHANGED <<init, seed, produced, closed, batch, background, durable, automatic, call, target>>

\* The controller forgets the write; a detached success looks for more to do.
Forget ==
    /\ write \in {"written", "failed"}
    /\ write' = "off"
    /\ automatic' = (automatic \/ (background /\ write = "written"))
    /\ UNCHANGED <<init, seed, produced, closed, pending, batch, background, durable, timer, expired,
                   paused, drain, call, target>>

\* continueAutomatic(): a window that passed during the write is made up for.
Continue ==
    /\ automatic /\ automatic' = FALSE
    /\ \/ /\ ~Barrier /\ pending # <<>> /\ expired
          /\ StartWrite(TRUE)
       \/ /\ Barrier \/ pending = <<>> \/ ~expired
          /\ UNCHANGED queueVars
    /\ UNCHANGED <<init, seed, produced, closed, durable, paused, drain, call, target>>

-----------------------------------------------------------------------------

\* The coordinator's flush(), up to its await of the initialization.
CallFlush(f) ==
    /\ call[f] = "idle"
    /\ call' = [call EXCEPT ![f] = "init"]
    /\ target' = [target EXCEPT ![f] = produced]
    /\ timer' = FALSE /\ expired' = FALSE
    /\ UNCHANGED <<init, seed, produced, pending, batch, durable, write, background, paused,
                   automatic, drain>>

Flush(f) == f \in Callers /\ CallFlush(f) /\ UNCHANGED closed

\* The session is disposed: admission ends and its last flush begins.
Retire == ~closed /\ closed' = TRUE /\ CallFlush(Retirement)

\* The initialization failed.
FlushFails(f) ==
    /\ call[f] = "init" /\ init = "failed"
    /\ call' = [call EXCEPT ![f] = "rejected"]
    /\ timer' = FALSE /\ expired' = FALSE
    /\ UNCHANGED <<init, seed, produced, closed, pending, batch, durable, write, background, paused,
                   automatic, drain, target>>

Joined == {f \in Flushes : call[f] = "joined"}

\* The barrier settles, and with it every flush that joined it.
Settle(F, how) ==
    /\ drain' = "none"
    /\ call' = [f \in Flushes |-> IF f \in F THEN how ELSE call[f]]

\* drainBarrier() looks at the queue: another write, or the end.  No window is open
\* behind a barrier.
DrainOrResolve(F) ==
    \/ /\ pending # <<>>
       /\ StartWrite(FALSE)
       /\ drain' = "writing"
       /\ call' = [f \in Flushes |-> IF f \in F THEN "joined" ELSE call[f]]
    \/ /\ pending = <<>>
       /\ Settle(F, "resolved")
       /\ UNCHANGED <<pending, batch, write, background>>
       /\ timer' = FALSE /\ expired' = FALSE

\* The controller's flush(): join the barrier or raise one.
JoinBarrier(f) ==
    /\ call[f] = "init" /\ init = "ready"
    /\ \/ /\ Barrier
          /\ call' = [call EXCEPT ![f] = "joined"]
          /\ UNCHANGED <<queueVars, paused, drain>>
       \/ /\ ~Barrier /\ write # "off"
          /\ timer' = FALSE /\ expired' = FALSE /\ paused' = FALSE
          /\ drain' = "overlap"
          /\ call' = [call EXCEPT ![f] = "joined"]
          /\ UNCHANGED <<pending, batch, write, background>>
       \/ /\ ~Barrier /\ write = "off"
          /\ paused' = FALSE
          /\ DrainOrResolve({f})
    /\ UNCHANGED <<init, seed, produced, closed, durable, automatic, target>>

\* Faulty: the barrier ends with its first write.
DrainOnce ==
    /\ drain \in {"overlap", "writing"} /\ write = "off"
    /\ paused' = IF drain = "overlap" THEN FALSE ELSE paused
    /\ \/ drain = "overlap" /\ DrainOrResolve(Joined)
       \/ drain = "writing" /\ Settle(Joined, "resolved") /\ UNCHANGED queueVars
    /\ UNCHANGED <<init, seed, produced, closed, durable, automatic, target>>

\* drainBarrier() resumes after the write it awaited: one that overlapped, however it
\* ended, or one of its own.
Drain ==
    /\ drain \in {"overlap", "writing"} /\ write = "off"
    /\ paused' = IF drain = "overlap" THEN FALSE ELSE paused
    /\ DrainOrResolve(Joined)
    /\ UNCHANGED <<init, seed, produced, closed, durable, automatic, target>>

\* Faulty: the barrier is dropped and nobody is told.
DrainFailsSilently ==
    /\ drain = "failed" /\ write = "off"
    /\ Settle({}, "rejected")
    /\ UNCHANGED <<init, seed, produced, closed, queueVars, durable, paused, automatic, target>>

\* A write of the barrier failed: the barrier rejects.
DrainFails ==
    /\ drain = "failed" /\ write = "off"
    /\ Settle(Joined, "rejected")
    /\ UNCHANGED <<init, seed, produced, closed, queueVars, durable, paused, automatic, target>>

-----------------------------------------------------------------------------

Producers == Enqueue \/ Retire \/ \E f \in Callers : Flush(f)

Continuations ==
    \/ InitSettles \/ Deadline \/ Commit \/ Refuse \/ Forget \/ Continue \/ Drain \/ DrainFails
    \/ \E f \in Flushes : FlushFails(f) \/ JoinBarrier(f)

Next == Producers \/ Continuations

Spec == Init /\ [][Next]_vars

\* Timers pass, the backend answers every request, and queued callbacks run.
LiveSpec == Spec /\ WF_vars(Continuations)

-----------------------------------------------------------------------------
(***************************************************************************)
(* Properties.                                                             *)
(***************************************************************************)

\* What is being written, then what waits.
InHand == IF write = "writing" THEN batch ELSE <<>>
Queue  == InHand \o pending

\* Nothing is lost, doubled or reordered: the stored events and the queued ones are each
\* a run of consecutive events, the latter ends with the last event produced, and the two
\* overlap at most in what initialization stored, whatever writes failed, overlapped a
\* barrier or were retried.
NothingLostOrReordered ==
    /\ \A n \in DOMAIN durable : durable[n] = n
    /\ \A i \in DOMAIN Queue : Queue[i] = produced - Len(Queue) + i
    /\ Len(durable) <= produced
    /\ Len(durable) + Len(Queue) \in produced..(produced + seed)

\* No event is forgotten: whenever events wait, a window, a running write whose window has
\* passed, a barrier or a flush about to raise one will take them, unless a failure paused
\* automatic writes.
NoStrandedEvents ==
    pending # <<>> /\ init # "failed" =>
        \/ timer \/ paused \/ Barrier
        \/ \E f \in Flushes : call[f] = "init"
        \/ expired /\ (write # "off" \/ automatic)

\* The controller keeps the promise of DurableLog: the stored prefix only grows, and no
\* flush, joined to whatever barrier, resolves before what it was called for is stored.
Promise == INSTANCE DurableLog WITH
    stored <- Len(durable),
    call   <- [f \in Flushes |-> IF call[f] \in {"init", "joined"} THEN "pending" ELSE call[f]]
ImplementsDurableLog == Promise!Spec

\* Every flush settles once producers pause, whatever failed and whatever it joined.
FlushEnds == \A f \in Flushes : call[f] = "init" ~> call[f] \in {"resolved", "rejected"}
=============================================================================
