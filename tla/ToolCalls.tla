----------------------------- MODULE ToolCalls ------------------------------
(***************************************************************************)
(* The tool calls of one assistant step (executeToolCalls): exclusive      *)
(* calls are barriers, parallel calls share a bounded rolling pool, and    *)
(* the log receives calls and results in the order the model gave them.    *)
(* The model follows one batch from its first call to the return or the    *)
(* rejection of executeToolCalls; AgentLoop sees it as the point "tools".  *)
(*                                                                         *)
(* A call is known by its place in the batch, so the identities providers  *)
(* give the calls of one message are taken to be distinct.  `pc' names the *)
(* point the scheduler is at: at an await the tools of the pool progress   *)
(* and anybody may abort the step, at the other points only the observers  *)
(* of the scheduler's own appends run.  Whether a call is parallel is      *)
(* asked of the registry, which plugins change at will: every question is  *)
(* answered nondeterministically, and the last answer remembered.          *)
(***************************************************************************)
EXTENDS SessionTrace, Sequences, FiniteSets

CONSTANTS
    NumCalls,           \* calls of the assistant message
    MaxParallel         \* config.maxParallelToolCalls

ASSUME ToolCallsAssumption ==
    /\ NumCalls \in Nat
    /\ Calls = 1..NumCalls
    /\ MaxParallel \in Nat \ {0}

VARIABLES
    pc,                 \* where the scheduler is
    signal,             \* the step's signal is aborted
    base,               \* calls consumed by earlier groups (`next')
    mode,               \* mode of the current group
    started,            \* calls recorded so far
    stopped,            \* the group's own `aborted'
    failed,             \* schedulerFailure is set
    inFlight,           \* keys of the map of dispatched calls
    stage,              \* how far each call is in the tool pipeline
    slot,               \* its settled dispatch: what commitReady() owes it
    outcome,            \* the result it carries
    answered,           \* the calls answered, in log order
    trace,              \* the session log
    \* History.
    startedAs,          \* the mode each call was started under
    invoked             \* calls whose body ran

poolVars  == <<inFlight, stage, slot, outcome, invoked>>
groupVars == <<base, mode, started, stopped, startedAs>>
vars == <<pc, signal, groupVars, failed, poolVars, answered, trace>>

-----------------------------------------------------------------------------

Modes  == {"parallel", "exclusive"}
Stages == {"idle", "preparing", "wrapper", "body", "settled"}
Slots  == {"empty", "post", "final"}

\* "aborted": the body ran and its call was cancelled; "before": cancelled before the
\* body ran; "skipped": recorded for a call that was never started.
Outcomes == {"none", "ok", "error", "aborted", "before", "skipped"}

\* Await points: tools progress meanwhile.
AwaitPoints == {"classify", "preparing", "launched", "finalizing", "committed",
                "racing", "draining"}
Points == AwaitPoints \cup {"fill", "committing", "skipping", "answering",
                            "returned", "thrown"}
Over == pc \in {"returned", "thrown"}

TypeOK ==
    /\ pc \in Points
    /\ signal \in BOOLEAN /\ stopped \in BOOLEAN /\ failed \in BOOLEAN
    /\ base \in 0..NumCalls /\ started \in 0..NumCalls
    /\ mode \in Modes
    /\ inFlight \in SUBSET Calls /\ invoked \in SUBSET Calls
    /\ stage \in [Calls -> Stages]
    /\ slot \in [Calls -> Slots]
    /\ outcome \in [Calls -> Outcomes]
    /\ answered \in Seq(Calls)
    /\ startedAs \in [Calls -> Modes]
    /\ trace \in Trace

\* The batch begins in an open step whose assistant message holds the calls.
TurnOf == 1
StepOf == 1
OpenStepTrace == [FreshTrace EXCEPT !.openTurn = TurnOf, !.openStep = StepOf]

Init ==
    /\ pc = "classify" /\ signal \in BOOLEAN
    /\ base = 0 /\ mode = "parallel" /\ started = 0
    /\ stopped = FALSE /\ failed = FALSE
    /\ inFlight = {} /\ invoked = {}
    /\ stage = [c \in Calls |-> "idle"]
    /\ slot = [c \in Calls |-> "empty"]
    /\ outcome = [c \in Calls |-> "none"]
    /\ startedAs = [c \in Calls |-> "parallel"]
    /\ answered = <<>>
    /\ trace = OpenStepTrace

-----------------------------------------------------------------------------
(***************************************************************************)
(* Pieces.                                                                 *)
(***************************************************************************)

committed == Len(answered)
\* Faulty: a group runs on past an exclusive call.
GroupEndAtBatchEnd == NumCalls

GroupEnd  == IF mode = "parallel" THEN NumCalls ELSE base + 1

\* Faulty: the call itself is not recorded.
RecordNoCall(c) == UNCHANGED trace

RecordCall(c) ==
    trace' = Appended(trace, ToolEvent("tool/call", TurnOf, StepOf, c, FALSE))

RecordResult(c) ==
    /\ trace' = Appended(trace, ToolEvent("tool/result", TurnOf, StepOf, c, FALSE))
    /\ answered' = Append(answered, c)

\* The catch clause of runGroup(): no new dispatch, wait for those under way.
Drain == /\ failed' = TRUE /\ pc' = "draining"

-----------------------------------------------------------------------------
(***************************************************************************)
(* The tool pipeline of one call (the registry's staged scheduler).        *)
(***************************************************************************)

Settle(c, kind, result) ==
    /\ slot' = [slot EXCEPT ![c] = kind]
    /\ outcome' = [outcome EXCEPT ![c] = result]
    /\ stage' = [stage EXCEPT ![c] = "settled"]

\* An around-dispatch wrapper calls the body, which first looks at the signal.
BodyStarts(c) ==
    /\ stage[c] = "wrapper" /\ ~signal
    /\ stage' = [stage EXCEPT ![c] = "body"]
    /\ invoked' = invoked \cup {c}
    /\ UNCHANGED <<failed, inFlight, slot, outcome>>

\* Faulty: every cancelled call is said not to have run.
DispatchSettlesBefore(c) ==
    /\ stage[c] \in {"wrapper", "body"}
    /\ \/ ~signal /\ Settle(c, "post", "ok")
       \/ signal /\ Settle(c, "post", "before")
       \/ \E kind \in {"post", "final"} : Settle(c, kind, "error")
    /\ UNCHANGED <<failed, inFlight, invoked>>

\* The dispatch settles: the body returned or threw, the wrapper answered in its
\* place, or the call was cancelled.  A cancelled call keeps no success.
DispatchSettles(c) ==
    /\ stage[c] \in {"wrapper", "body"}
    /\ \/ ~signal /\ Settle(c, "post", "ok")
       \/ signal /\ Settle(c, "post", IF c \in invoked THEN "aborted" ELSE "before")
       \/ \E kind \in {"post", "final"} : Settle(c, kind, "error")
    /\ UNCHANGED <<failed, inFlight, invoked>>

\* The pipeline itself fails.
DispatchFails(c) ==
    /\ stage[c] \in {"wrapper", "body"}
    /\ stage' = [stage EXCEPT ![c] = "settled"]
    /\ failed' = TRUE
    /\ UNCHANGED <<inFlight, slot, outcome, invoked>>

ToolStep ==
    /\ pc \in AwaitPoints
    /\ \E c \in inFlight : BodyStarts(c) \/ DispatchSettles(c) \/ DispatchFails(c)
    /\ UNCHANGED <<pc, signal, groupVars, answered, trace>>

\* Somebody cancels the activity: at an await, or from an append's observer.
Abort ==
    /\ ~signal /\ pc \in AwaitPoints \cup {"committing"}
    /\ signal' = TRUE
    /\ UNCHANGED <<pc, groupVars, failed, poolVars, answered, trace>>

-----------------------------------------------------------------------------
(***************************************************************************)
(* The scheduler.                                                          *)
(***************************************************************************)

\* executeToolCalls(): the next group, by the live mode of its first call.
Classify ==
    /\ pc = "classify"
    /\ \/ /\ base = NumCalls
          /\ pc' = "returned"
          /\ UNCHANGED <<mode, stopped>>
       \/ /\ base < NumCalls
          /\ mode' \in Modes
          /\ stopped' = signal
          /\ pc' = "fill"
    /\ UNCHANGED <<signal, base, started, startedAs, failed, poolVars, answered, trace>>

\* fillPool() may start one more call of the group.
MayStart == /\ ~stopped
            /\ started < GroupEnd
            /\ Cardinality(inFlight) < MaxParallel

\* fillPool(): the mode of a later call is read again before it starts.
StartCall ==
    /\ pc = "fill" /\ MayStart
    /\ \/ /\ started' = started + 1
          /\ startedAs' = [startedAs EXCEPT ![started + 1] = mode]
          /\ stage' = [stage EXCEPT ![started + 1] = "preparing"]
          /\ RecordCall(started + 1)
          /\ pc' = "preparing"
          /\ UNCHANGED failed
       \/ /\ Drain              \* the append is vetoed
          /\ UNCHANGED <<started, startedAs, stage, trace>>
    /\ UNCHANGED <<signal, base, mode, stopped, inFlight, slot, outcome, invoked, answered>>

\* fillPool() returns: nothing more may start, or the next call became exclusive.
LeavePool ==
    /\ pc = "fill"
    /\ ~MayStart \/ (mode = "parallel" /\ started > base)
    /\ \/ /\ inFlight # {}
          /\ pc' = "racing" /\ UNCHANGED base
       \/ /\ inFlight = {} /\ stopped
          /\ pc' = "skipping" /\ UNCHANGED base
       \/ /\ inFlight = {} /\ ~stopped
          /\ IF committed = started THEN pc' = "classify" ELSE pc' = "thrown"
          /\ base' = started
    /\ UNCHANGED <<signal, mode, started, stopped, startedAs, failed, poolVars, answered, trace>>

\* prepare() settles.  A failure recorded meanwhile leaves the call without a result.
Prepared ==
    /\ pc = "preparing"
    /\ \/ /\ failed
          /\ Drain
          /\ stage' = [stage EXCEPT ![started] = "settled"]
          /\ UNCHANGED <<inFlight, slot, outcome>>
       \/ /\ ~failed
          /\ pc' = "launched"
          /\ \/ /\ ~signal
                /\ inFlight' = inFlight \cup {started}
                /\ stage' = [stage EXCEPT ![started] = "wrapper"]
                /\ UNCHANGED <<slot, outcome>>
             \/ /\ \E kind \in {"post", "final"} :
                      \/ Settle(started, kind, "error")
                      \/ signal /\ Settle(started, kind, "before")
                /\ UNCHANGED inFlight
          /\ UNCHANGED failed
    /\ UNCHANGED <<signal, groupVars, invoked, answered, trace>>

\* startCall() has returned: commit what is ready, unless a dispatch failed.
Launched ==
    /\ pc = "launched"
    /\ \/ failed /\ Drain
       \/ ~failed /\ pc' = "committing" /\ UNCHANGED failed
    /\ UNCHANGED <<signal, groupVars, poolVars, answered, trace>>

\* commitReady(): settled calls are answered in model order, as far as they go.
Ready == /\ committed < GroupEnd
         /\ slot[committed + 1] # "empty"

CommitNext ==
    /\ pc = "committing" /\ Ready
    /\ \/ /\ slot[committed + 1] = "post"
          /\ pc' = "finalizing"
          /\ UNCHANGED <<failed, answered, trace>>
       \/ /\ slot[committed + 1] = "final"
          /\ RecordResult(committed + 1)
          /\ UNCHANGED <<pc, failed>>
       \/ /\ slot[committed + 1] = "final"
          /\ Drain              \* the append is vetoed
          /\ UNCHANGED <<answered, trace>>
    /\ UNCHANGED <<signal, groupVars, poolVars>>

\* finalize() settles: post-execute listeners may turn a success into a failure or
\* recover from one, but not once the call is cancelled.
Finalize ==
    LET c == committed + 1
        cancelled == IF c \in invoked THEN "aborted" ELSE "before"
    IN /\ pc = "finalizing"
       /\ \/ /\ \E result \in {outcome[c], "ok", "error"} :
                   outcome' = [outcome EXCEPT ![c] = IF signal /\ result = "ok"
                                                     THEN cancelled ELSE result]
             /\ RecordResult(c)
             /\ pc' = "committing"
             /\ UNCHANGED failed
          \/ /\ Drain
             /\ UNCHANGED <<outcome, answered, trace>>
       /\ UNCHANGED <<signal, groupVars, inFlight, stage, slot, invoked>>

CommitStops ==
    /\ pc = "committing" /\ ~Ready
    /\ pc' = "committed"
    /\ UNCHANGED <<signal, groupVars, failed, poolVars, answered, trace>>

\* commitReady() has returned: notice a failure, then an abort, then fill the pool.
Refill ==
    /\ pc = "committed"
    /\ \/ /\ failed
          /\ Drain
          /\ UNCHANGED stopped
       \/ /\ ~failed
          /\ stopped' = (stopped \/ signal)
          /\ pc' = "fill"
          /\ UNCHANGED failed
    /\ UNCHANGED <<signal, base, mode, started, startedAs, poolVars, answered, trace>>

\* Faulty: the winner of the race stays in the pool.
RaceKeepsWinner ==
    /\ pc = "racing"
    /\ \E c \in inFlight : stage[c] = "settled"
    /\ \/ failed /\ Drain
       \/ ~failed /\ pc' = "committing" /\ UNCHANGED failed
    /\ UNCHANGED <<signal, groupVars, poolVars, answered, trace>>

\* The race over the pool has a winner.
Race ==
    /\ pc = "racing"
    /\ \E c \in inFlight : stage[c] = "settled" /\ inFlight' = inFlight \ {c}
    /\ \/ failed /\ Drain
       \/ ~failed /\ pc' = "committing" /\ UNCHANGED failed
    /\ UNCHANGED <<signal, groupVars, stage, slot, outcome, invoked, answered, trace>>

\* Faulty: the failure is rethrown while dispatches run.
DrainedAtOnce ==
    /\ pc = "draining"
    /\ pc' = "thrown"
    /\ UNCHANGED <<signal, groupVars, failed, poolVars, answered, trace>>

\* Promise.allSettled over the pool, then the failure is rethrown.
Drained ==
    /\ pc = "draining"
    /\ \A c \in inFlight : stage[c] = "settled"
    /\ pc' = "thrown"
    /\ UNCHANGED <<signal, groupVars, failed, poolVars, answered, trace>>

\* Every call an abort left unstarted is recorded and answered at once.
Skip ==
    /\ pc = "skipping"
    /\ \/ /\ started = NumCalls
          /\ pc' = "returned"
          /\ UNCHANGED <<started, trace>>
       \/ /\ started < NumCalls
          /\ started' = started + 1
          /\ RecordCall(started + 1)
          /\ pc' = "answering"
       \/ /\ pc' = "thrown"
          /\ UNCHANGED <<started, trace>>
    /\ UNCHANGED <<signal, base, mode, stopped, startedAs, failed, poolVars, answered>>

AnswerSkipped ==
    /\ pc = "answering"
    /\ \/ /\ outcome' = [outcome EXCEPT ![started] = "skipped"]
          /\ RecordResult(started)
          /\ pc' = "skipping"
       \/ /\ pc' = "thrown"
          /\ UNCHANGED <<outcome, answered, trace>>
    /\ UNCHANGED <<signal, groupVars, failed, inFlight, stage, slot, invoked>>

-----------------------------------------------------------------------------

SchedulerStep ==
    \/ Classify \/ StartCall \/ LeavePool \/ Prepared \/ Launched \/ CommitNext
    \/ Finalize \/ CommitStops \/ Refill \/ Race \/ Drained \/ Skip \/ AnswerSkipped

Next == SchedulerStep \/ ToolStep \/ Abort

Spec == Init /\ [][Next]_vars

\* Gates, hooks and tools settle, and the event loop resumes what awaited them.
LiveSpec == Spec /\ WF_vars(SchedulerStep) /\ WF_vars(ToolStep)

-----------------------------------------------------------------------------
(***************************************************************************)
(* Properties.                                                             *)
(***************************************************************************)

\* A call whose dispatch has begun and not settled.
Running(c) == stage[c] \in {"wrapper", "body"}

\* An exclusive call is a barrier: from its start to its answer no other call runs,
\* although the modes of the calls change while the pool is at work.
ExclusiveIsABarrier ==
    \A c \in 1..started :
        startedAs[c] = "exclusive" /\ committed < c /\ stage[c] # "idle" =>
            /\ started = c \/ stopped
            /\ \A d \in Calls \ {c} : ~Running(d)

\* Results are logged in model order, whatever order the calls settle in, and skipped calls
\* come after every call that was started.  executeToolCalls() settles only when nothing it
\* dispatched still runs, and if it returns, aborted or not, every call of the message has
\* its result.  If it failed, the calls it never started are left unanswered rather than
\* answered with made-up results.
BatchIsSettled ==
    /\ \A k \in DOMAIN answered : answered[k] = k
    /\ Over => \A c \in Calls : ~Running(c)
    /\ pc = "returned" => committed = NumCalls
    /\ failed => \A c \in Calls : outcome[c] # "skipped"

\* The log tells the truth about cancelled calls: one said to be aborted before its
\* dispatch did not run, one said to be aborted did.
CancellationIsTruthful ==
    \A c \in Calls : /\ outcome[c] \in {"before", "skipped"} => c \notin invoked
                     /\ outcome[c] = "aborted" => c \in invoked

\* Each of the batch's appends is one the session grammar accepts in the open step.
SessionGrammar == INSTANCE SessionLog
ObeysSessionGrammar == [][SessionGrammar!Next]_trace

\* The batch ends.
BatchEnds == <>Over
=============================================================================
