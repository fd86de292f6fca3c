-------------------------------- MODULE Jobs --------------------------------
(***************************************************************************)
(* The registry of background jobs (LocalJobRegistry) and the notices its  *)
(* controller sends (tool-jobs): jobs started by agents or by nobody in    *)
(* particular, read, killed and awaited by their callers, settled by their *)
(* producers, and drained when their owner or the service goes away.       *)
(*                                                                         *)
(* Every method runs without interruption, so each is one action; wait()   *)
(* and the two teardowns await and are split there.  A producer's `done'   *)
(* promise resolves at one moment and its continuation records the outcome *)
(* at a later one.  Kinds, labels, texts and the generated ids are left    *)
(* out: a job is its record, and ids never repeat.                         *)
(***************************************************************************)
EXTENDS Naturals, FiniteSets

CONSTANTS
    Jobs,               \* records that may be registered
    Owners,             \* live agents that may own jobs, each an exact instance
    NoOwner,            \* owner of an unowned job
    Waits,              \* calls of wait()
    MaxActive           \* maxConcurrentJobsPerOwner

ASSUME JobsAssumption ==
    /\ NoOwner \notin Owners
    /\ MaxActive \in Nat \ {0}
    /\ IsFiniteSet(Jobs)

VARIABLES
    \* The records.
    status, owner, reported,
    store,              \* the records the registry holds
    \* Producers.
    producer,           \* how far the work of each job is
    outcome,            \* what its `done' promise resolves to
    \* wait().
    wait,               \* where each call is
    target,             \* the job it waits for
    saw,                \* it returned a terminal snapshot
    \* Teardown.
    scope,              \* scope of each owner: "live", "disposing" or "gone"
    cleanup,            \* its owner cleanup: "none", "attached", "draining" or "done"
    awaited,            \* the jobs that cleanup awaits
    service,            \* "open", "draining" or "closed"
    \* History.
    notice,             \* jobs whose completion was announced to the model
    asked               \* jobs somebody killed, or a teardown cancelled, while live

recordVars   == <<status, owner, reported, store>>
producerVars == <<producer, outcome>>
waitVars     == <<wait, target, saw>>
teardownVars == <<scope, cleanup, awaited, service>>
vars == <<recordVars, producerVars, waitVars, teardownVars, notice, asked>>

-----------------------------------------------------------------------------

Ended    == {"completed", "killed", "failed"}
Statuses == {"none", "running", "stopping"} \cup Ended

Terminal(j) == status[j] \in Ended
Live(j)     == status[j] \in {"running", "stopping"}

\* Faulty: an aborted wait goes on counting.
CountedAfterAbort(j) == {w \in Waits : target[w] = j /\ wait[w] \notin {"off", "returned"}}

\* waiters: calls that count, though a timeout may have taken their resolver.
Counted(j)  == {w \in Waits : target[w] = j /\ wait[w] \in {"waiting", "timedOut", "released"}}
Waiting(j)  == {w \in Waits : target[w] = j /\ wait[w] = "waiting"}

TypeOK ==
    /\ status \in [Jobs -> Statuses]
    /\ owner \in [Jobs -> Owners \cup {NoOwner}]
    /\ reported \in [Jobs -> BOOLEAN]
    /\ store \in SUBSET Jobs /\ notice \in SUBSET Jobs /\ asked \in SUBSET Jobs
    /\ producer \in [Jobs -> {"none", "working", "cancelled", "finished", "over"}]
    /\ outcome \in [Jobs -> Ended]
    /\ wait \in [Waits -> {"off", "waiting", "timedOut", "released", "returned", "rejected"}]
    /\ target \in [Waits -> Jobs]
    /\ saw \in [Waits -> BOOLEAN]
    /\ scope \in [Owners -> {"live", "disposing", "gone"}]
    /\ cleanup \in [Owners -> {"none", "attached", "draining", "done"}]
    /\ awaited \in [Owners -> SUBSET Jobs]
    /\ service \in {"open", "draining", "closed"}

Init ==
    /\ status = [j \in Jobs |-> "none"]
    /\ owner = [j \in Jobs |-> NoOwner]
    /\ reported = [j \in Jobs |-> FALSE]
    /\ store = {} /\ notice = {} /\ asked = {}
    /\ producer = [j \in Jobs |-> "none"]
    /\ outcome = [j \in Jobs |-> "failed"]
    /\ wait = [w \in Waits |-> "off"]
    /\ target \in [Waits -> Jobs]
    /\ saw = [w \in Waits |-> FALSE]
    /\ scope = [o \in Owners |-> "live"]
    /\ cleanup = [o \in Owners |-> "none"]
    /\ awaited = [o \in Owners |-> {}]
    /\ service = "open"

-----------------------------------------------------------------------------
(***************************************************************************)
(* Producers start, are read, killed and awaited.                          *)
(***************************************************************************)

\* activeTaskCount()
ActiveOf(o) == {j \in store : owner[j] = o /\ Live(j)}

\* ensureOwnerCleanup(): an owner is served while its cleanup is attached, or while its
\* scope still takes one; a scope that is being disposed takes none.
Serves(o) ==
    o \in {NoOwner} \cup {p \in Owners : \/ cleanup[p] = "attached"
                                       \/ (scope[p] = "live" /\ cleanup[p] = "none")}

\* Faulty: an owner's disposal does not know of its jobs.
AttachNothing(o) == UNCHANGED cleanup

AttachCleanup(o) ==
    cleanup' = IF o = NoOwner THEN cleanup ELSE [cleanup EXCEPT ![o] = "attached"]

\* start(); the controllers leave with the service, and without one nothing starts.
Start(j, o) ==
    /\ service = "open" /\ Serves(o)
    /\ AttachCleanup(o)
    /\ Cardinality(ActiveOf(o)) < MaxActive
    /\ status[j] = "none"
    /\ status' = [status EXCEPT ![j] = "running"]
    /\ owner' = [owner EXCEPT ![j] = o]
    /\ store' = store \cup {j}
    /\ producer' = [producer EXCEPT ![j] = "working"]
    /\ UNCHANGED <<reported, outcome, waitVars, scope, awaited, service, notice, asked>>

\* start() refused by the limit, or by a starter that throws, keeps the cleanup attached.
StartRefused(o) ==
    /\ service = "open" /\ Serves(o)
    /\ AttachCleanup(o)
    /\ UNCHANGED <<recordVars, producerVars, waitVars, scope, awaited, service, notice, asked>>

\* read(), and wait() on a job that has ended.
Read(j) ==
    /\ j \in store /\ Terminal(j)
    /\ reported' = [reported EXCEPT ![j] = TRUE]
    /\ UNCHANGED <<status, owner, store, producerVars, waitVars, teardownVars, notice, asked>>

\* The producers of S are cancelled and accept it.
Cancelled(S) ==
    producer' = [j \in Jobs |-> IF j \in S /\ producer[j] = "working" THEN "cancelled"
                                ELSE producer[j]]

\* kill(): a cancel that throws leaves the record as it is; on an ended job it reports.
Kill(j) ==
    /\ j \in store /\ Live(j)
    /\ Cancelled({j})
    /\ status' = [status EXCEPT ![j] = "stopping"]
    /\ reported' = [reported EXCEPT ![j] = TRUE]
    /\ asked' = asked \cup {j}
    /\ UNCHANGED <<owner, store, outcome, waitVars, teardownVars, notice>>

\* wait() on a live job, up to its await.
BeginWait(w) ==
    /\ wait[w] = "off"
    /\ target[w] \in store /\ Live(target[w])
    /\ wait' = [wait EXCEPT ![w] = "waiting"]
    /\ UNCHANGED <<recordVars, producerVars, target, saw, teardownVars, notice, asked>>

\* Its deadline passes: the resolver goes at once, the count with the continuation.
TimeOut(w) ==
    /\ wait[w] = "waiting"
    /\ wait' = [wait EXCEPT ![w] = "timedOut"]
    /\ UNCHANGED <<recordVars, producerVars, target, saw, teardownVars, notice, asked>>

\* Its caller aborts: resolver and count go at once.
AbortWait(w) ==
    /\ wait[w] = "waiting"
    /\ wait' = [wait EXCEPT ![w] = "rejected"]
    /\ UNCHANGED <<recordVars, producerVars, target, saw, teardownVars, notice, asked>>

\* Its continuation.
EndWait(w) ==
    /\ wait[w] \in {"timedOut", "released"}
    /\ wait' = [wait EXCEPT ![w] = "returned"]
    /\ saw' = [saw EXCEPT ![w] = Terminal(target[w])]
    /\ reported' = [reported EXCEPT ![target[w]] = @ \/ Terminal(target[w])]
    /\ UNCHANGED <<status, owner, store, producerVars, target, teardownVars, notice, asked>>

-----------------------------------------------------------------------------
(***************************************************************************)
(* Settlement.                                                             *)
(***************************************************************************)

\* A `done' promise resolves or rejects.
Finish(j, how) ==
    /\ producer[j] \in {"working", "cancelled"}
    /\ how = "killed" => producer[j] = "cancelled"
    /\ producer' = [producer EXCEPT ![j] = "finished"]
    /\ outcome' = [outcome EXCEPT ![j] = how]
    /\ UNCHANGED <<recordVars, waitVars, teardownVars, notice, asked>>

ReleaseWaits(S) ==
    wait' = [w \in Waits |-> IF target[w] \in S /\ wait[w] = "waiting" THEN "released"
                             ELSE wait[w]]

\* settle() as the continuation of `done'; the controller announces a completion that
\* has an owner and that nobody has reported or waits for.
Settle(j) ==
    /\ producer[j] = "finished"
    /\ producer' = [producer EXCEPT ![j] = "over"]
    /\ \/ /\ Terminal(j)
          /\ UNCHANGED <<status, reported, wait, notice>>
       \/ /\ ~Terminal(j)
          /\ status' = [status EXCEPT ![j] = outcome[j]]
          /\ reported' = [reported EXCEPT ![j] = @ \/ Counted(j) # {}]
          /\ ReleaseWaits({j})
          /\ notice' = IF service = "open" /\ ~reported'[j] /\ owner[j] # NoOwner
                       THEN notice \cup {j} ELSE notice
    /\ UNCHANGED <<owner, store, outcome, target, saw, teardownVars, asked>>

-----------------------------------------------------------------------------
(***************************************************************************)
(* Teardown.                                                               *)
(***************************************************************************)

\* Faulty: only a kill claims the report.
CancelUnreported(S) ==
    LET live == {j \in S : Live(j)}
    IN \E throwing \in SUBSET live :
         /\ status' = [j \in Jobs |-> IF j \in throwing THEN "failed"
                                      ELSE IF j \in live THEN "stopping" ELSE status[j]]
         /\ Cancelled(live \ throwing)
         /\ ReleaseWaits(throwing)
         /\ asked' = asked \cup live
         /\ UNCHANGED reported

\* Faulty: a cancel that throws leaves its record to the producer.
CancelTrusting(S) ==
    LET live == {j \in S : Live(j)}
    IN \E throwing \in SUBSET live :
         /\ status' = [j \in Jobs |-> IF j \in live THEN "stopping" ELSE status[j]]
         /\ reported' = [j \in Jobs |-> j \in live \/ reported[j]]
         /\ Cancelled(live \ throwing)
         /\ asked' = asked \cup live
         /\ UNCHANGED wait

\* cancelForTeardown(): every live job of S is reported and cancelled; those whose cancel
\* throws are forced to fail at once.
CancelForTeardown(S) ==
    LET live == {j \in S : Live(j)}
    IN \E throwing \in SUBSET live :
         /\ status' = [j \in Jobs |-> IF j \in throwing THEN "failed"
                                      ELSE IF j \in live THEN "stopping" ELSE status[j]]
         /\ reported' = [j \in Jobs |-> j \in live \/ reported[j]]
         /\ Cancelled(live \ throwing)
         /\ ReleaseWaits(throwing)
         /\ asked' = asked \cup live

\* The agent's lifecycle starts to unwind its scope.
DisposeOwner(o) ==
    /\ scope[o] = "live"
    /\ scope' = [scope EXCEPT ![o] = "disposing"]
    /\ UNCHANGED <<recordVars, producerVars, waitVars, cleanup, awaited, service, notice, asked>>

\* The owner cleanup runs: disposeOwned() up to its await.
DrainOwner(o) ==
    /\ scope[o] = "disposing" /\ cleanup[o] = "attached"
    /\ cleanup' = [cleanup EXCEPT ![o] = "draining"]
    /\ awaited' = [awaited EXCEPT ![o] = {j \in store : owner[j] = o}]
    /\ CancelForTeardown(awaited'[o])
    /\ UNCHANGED <<owner, store, outcome, target, saw, scope, service, notice>>

OwnerDrained(o) ==
    /\ cleanup[o] = "draining" /\ \A j \in awaited[o] : Terminal(j)
    /\ store' = store \ awaited[o]
    /\ cleanup' = [cleanup EXCEPT ![o] = "done"]
    /\ UNCHANGED <<status, owner, reported, producerVars, waitVars, scope, awaited, service,
                   notice, asked>>

\* The agent leaves its registry once the scope is unwound.
OwnerGone(o) ==
    /\ scope[o] = "disposing" /\ cleanup[o] \in {"none", "done"}
    /\ scope' = [scope EXCEPT ![o] = "gone"]
    /\ UNCHANGED <<recordVars, producerVars, waitVars, cleanup, awaited, service, notice, asked>>

\* disposeAll(), up to its await.
DrainService ==
    /\ service = "open"
    /\ service' = "draining"
    /\ CancelForTeardown(store)
    /\ UNCHANGED <<owner, store, outcome, target, saw, scope, cleanup, awaited, notice>>

\* The store is emptied, and the remaining owner cleanups find nothing to do.
ServiceDrained ==
    /\ service = "draining" /\ \A j \in store : Terminal(j)
    /\ service' = "closed"
    /\ store' = {}
    /\ cleanup' = [o \in Owners |-> IF cleanup[o] = "attached" THEN "done" ELSE cleanup[o]]
    /\ UNCHANGED <<status, owner, reported, producerVars, waitVars, scope, awaited, notice, asked>>

-----------------------------------------------------------------------------

Callers ==
    \/ \E j \in Jobs, o \in Owners \cup {NoOwner} : Start(j, o)
    \/ \E o \in Owners : StartRefused(o) \/ DisposeOwner(o)
    \/ \E j \in Jobs : Read(j) \/ Kill(j)
    \/ \E w \in Waits : BeginWait(w) \/ AbortWait(w)
    \/ \E j \in Jobs, how \in Ended : Finish(j, how)
    \/ DrainService

\* Continuations, timers and the steps of a teardown that has begun.
Continuations ==
    \/ \E j \in Jobs : Settle(j)
    \/ \E w \in Waits : TimeOut(w) \/ EndWait(w)
    \/ \E o \in Owners : DrainOwner(o) \/ OwnerDrained(o) \/ OwnerGone(o)
    \/ ServiceDrained

Next == Callers \/ Continuations

Spec == Init /\ [][Next]_vars

\* Continuations run, deadlines pass, a scope that is being disposed runs its cleanups,
\* and a producer whose cancel was accepted resolves `done' (its contract).
Fairness ==
    /\ \A j \in Jobs : WF_vars(Settle(j))
    /\ \A j \in Jobs : WF_vars(producer[j] = "cancelled" /\ \E how \in Ended : Finish(j, how))
    /\ \A w \in Waits : WF_vars(TimeOut(w)) /\ WF_vars(EndWait(w))
    /\ \A o \in Owners : WF_vars(DrainOwner(o)) /\ WF_vars(OwnerDrained(o)) /\ WF_vars(OwnerGone(o))
    /\ WF_vars(ServiceDrained)

LiveSpec == Spec /\ Fairness

-----------------------------------------------------------------------------
(***************************************************************************)
(* Properties.                                                             *)
(***************************************************************************)

\* No completion is lost: an owned job that ended was announced, or somebody had asked for
\* its end, or a wait that cannot be rejected any more returns or has returned it.  Nor is
\* one told twice: what is announced was not asked for, and no wait that was under way when
\* the job ended returns it as well.
CompletionIsToldOnce ==
    /\ \A j \in Jobs : Terminal(j) /\ owner[j] # NoOwner =>
          \/ j \in notice \cup asked
          \/ \E w \in Waits : target[w] = j /\ (wait[w] \in {"timedOut", "released"} \/ saw[w])
    /\ \A j \in notice : j \notin asked /\ \A w \in Waits : ~(target[w] = j /\ saw[w])

\* An owner that is gone, and a service that has closed, leave no live record behind, not
\* even one whose start raced the disposal.
TeardownLeavesNothing ==
    /\ \A o \in Owners : scope[o] = "gone" =>
          \A j \in Jobs : owner[j] = o => Terminal(j) /\ j \notin store
    /\ service = "closed" => \A j \in Jobs : ~Live(j)

\* Teardown is quiet: no completion is announced to an owner whose jobs are being drained,
\* nor by a service that is.
TeardownIsQuiet ==
    [][\A j \in notice' \ notice : service = "open" /\ cleanup[owner[j]] = "attached"]_vars

\* A disposal that began ends, of an owner or of the service, whatever producers do with
\* the cancel, unless one breaks the contract that an accepted cancel is followed by
\* settlement; and no wait outlives its deadline.
DisposalsAndWaitsEnd ==
    /\ \A o \in Owners : scope[o] = "disposing" ~> scope[o] = "gone"
    /\ service = "draining" ~> service = "closed"
    /\ \A w \in Waits : wait[w] = "waiting" ~> wait[w] \in {"returned", "rejected"}
=============================================================================
