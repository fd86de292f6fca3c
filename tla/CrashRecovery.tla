---------------------------- MODULE CrashRecovery ----------------------------
(***************************************************************************)
(* Crashes and repair.  One agent works turn after turn on one session; a  *)
(* checkpoint policy flushes the session before every model request and    *)
(* before every tool body; the process may die at any moment and any       *)
(* prefix of the log that holds what was flushed may survive.  The next    *)
(* process loads that prefix, closes its interrupted turn, and goes on.    *)
(*                                                                         *)
(* Of storage the module takes what DurableLog promises: a flush is over   *)
(* once what the log held when it was called is stored, or it is refused.  *)
(* The driver and the tool pipeline are those of AgentLoop and ToolCalls,  *)
(* reduced to the appends and the effects on the world outside.            *)
(***************************************************************************)
EXTENDS SessionTrace, Sequences, SequencesExt, FiniteSets

CONSTANTS
    MaxTurns, MaxSteps,     \* bounds on the turns of the log and the steps of a turn
    MaxCrashes              \* bound on the crashes

\* Calls are numbered in the order in which the model makes them.
ASSUME CrashRecoveryAssumption ==
    /\ Calls = 1..Cardinality(Calls) /\ Cardinality(Calls) \in Nat
    /\ {MaxTurns, MaxSteps} \subseteq Nat \ {0} /\ MaxCrashes \in Nat

VARIABLES
    log,                \* the session's events
    stored,             \* how many of them storage has acknowledged
    at,                 \* where the driver is; "down" and "repairing" without one
    aborted,            \* the turn is cancelled
    tool,               \* where each call of the running step is
    target,             \* what each pending flush waits for; Driver is the driver's
    made,               \* calls the model made so far
    seen,               \* the log the model saw last
    ran,                \* calls whose body ran
    crashes             \* crashes so far

vars == <<log, stored, at, aborted, tool, target, made, seen, ran, crashes>>
world == <<made, seen, ran, crashes>>

Driver == 0

Init ==
    /\ log = <<>> /\ stored = 0 /\ at = "idle" /\ aborted = FALSE
    /\ tool = [c \in Calls |-> "none"] /\ target = [w \in Calls \cup {Driver} |-> 0]
    /\ made = 0 /\ seen = <<>> /\ ran = {} /\ crashes = 0

\* What the session's companion makes of a log, event by event.
TracesOf(events) ==
    LET trace[n \in 0..Len(events)] ==
            IF n = 0 THEN FreshTrace ELSE Appended(trace[n - 1], events[n])
    IN trace

TraceOf(events) == TracesOf(events)[Len(events)]

Turn == TraceOf(log).openTurn
Step == TraceOf(log).openStep

Message(C) == [Boundary("assistant/message", Turn, Step) EXCEPT !.calls = C]

Flushed(w) == target[w] <= stored

-----------------------------------------------------------------------------
(***************************************************************************)
(* A turn.                                                                 *)
(***************************************************************************)

\* An append, after which the driver awaits a flush.
AppendAndFlush(event, place) ==
    /\ log' = Append(log, event)
    /\ at' = place
    /\ target' = [target EXCEPT ![Driver] = Len(log')]

OpenTurn ==
    /\ at = "idle" /\ TraceOf(log).nextTurn <= MaxTurns
    /\ AppendAndFlush(Boundary("turn/start", TraceOf(log).nextTurn, None), "pre-step")
    /\ aborted' = FALSE
    /\ UNCHANGED <<stored, tool, world>>

\* The pre-step checkpoint: what the previous step left is stored.
EnterStep ==
    /\ at = "pre-step" /\ Flushed(Driver) /\ ~aborted
    /\ AppendAndFlush(Boundary("step/start", Turn, TraceOf(log).nextStep), "request")
    /\ UNCHANGED <<stored, aborted, tool, world>>

\* The checkpoint of llm/stream: the model sees only what is stored.
SendRequest ==
    /\ at = "request" /\ Flushed(Driver)
    /\ at' = "streaming" /\ seen' = log
    /\ UNCHANGED <<log, stored, aborted, tool, target, made, ran, crashes>>

\* A failed stream is requested again, through the same checkpoint.
RetryRequest ==
    /\ at = "streaming" /\ ~aborted
    /\ at' = "request" /\ target' = [target EXCEPT ![Driver] = Len(log)]
    /\ UNCHANGED <<log, stored, aborted, tool, world>>

\* The answer, with k calls.
Answer(k) ==
    /\ at = "streaming"
    /\ k > 0 => ~aborted
    /\ made + k \in {0} \cup Calls
    /\ made' = made + k
    /\ LET C == (made + 1)..(made + k) IN
         \/ /\ k > 0
            /\ log' = Append(log, Message(C))
            /\ tool' = [c \in Calls |-> IF c \in C THEN "called" ELSE "none"]
            /\ at' = "tools"
         \/ \* no calls, or calls cut off by the token ceiling
            /\ log' = log \o <<Message(C), Boundary("step/end", Turn, Step)>>
            /\ at' = "step ended"
            /\ UNCHANGED tool
    /\ UNCHANGED <<stored, aborted, target, seen, ran, crashes>>

\* A refused flush or a failed stream ends the step without an answer.
FailStep ==
    /\ at \in {"request", "streaming"}
    /\ log' = Append(log, Boundary("step/end", Turn, Step))
    /\ at' = "step ended"
    /\ UNCHANGED <<stored, aborted, tool, target, world>>

\* Another step, from its pre-step checkpoint on.
NextStep ==
    /\ at = "step ended" /\ ~aborted /\ TraceOf(log).nextStep <= MaxSteps
    /\ at' = "pre-step" /\ target' = [target EXCEPT ![Driver] = Len(log)]
    /\ UNCHANGED <<log, stored, aborted, tool, world>>

\* The turn ends after a step, or at a pre-step that is refused, aborted or rejected.
EndTurn ==
    /\ at \in {"pre-step", "step ended"}
    /\ log' = Append(log, Boundary("turn/end", Turn, None))
    /\ at' = "idle"
    /\ UNCHANGED <<stored, aborted, tool, target, world>>

Cancel ==
    /\ at \notin {"idle", "down", "repairing"} /\ ~aborted
    /\ aborted' = TRUE
    /\ UNCHANGED <<log, stored, at, tool, target, world>>

-----------------------------------------------------------------------------
(***************************************************************************)
(* The calls of a step.                                                    *)
(***************************************************************************)

InStage(stages) == {c \in Calls : tool[c] \in stages}
Before(c) == 1..(c - 1)

\* Calls as the model made them.
InOrder(C) ==
    [i \in 1..Cardinality(C) |-> CHOOSE c \in C : Cardinality({d \in C : d <= c}) = i]

\* The call is recorded, its predecessors having been prepared.
RecordCall(c) ==
    /\ at = "tools" /\ ~aborted
    /\ tool[c] = "called" /\ InStage({"called", "recorded"}) \cap Before(c) = {}
    /\ log' = Append(log, ToolEvent("tool/call", Turn, Step, c, FALSE))
    /\ tool' = [tool EXCEPT ![c] = "recorded"]
    /\ UNCHANGED <<stored, at, aborted, target, world>>

\* It is prepared, and dispatched to the checkpoint of tools/execute or turned away.
Dispatch(c) ==
    /\ at = "tools" /\ tool[c] = "recorded"
    /\ \/ /\ tool' = [tool EXCEPT ![c] = "flushing"]
          /\ target' = [target EXCEPT ![c] = Len(log)]
       \/ /\ tool' = [tool EXCEPT ![c] = "settled"]
          /\ UNCHANGED target
    /\ UNCHANGED <<log, stored, at, aborted, world>>

\* Faulty: the body does not wait for the checkpoint.
RunBodyAtOnce(c) ==
    /\ at = "tools" /\ tool[c] = "flushing" /\ ~aborted
    /\ tool' = [tool EXCEPT ![c] = "running"]
    /\ ran' = ran \cup {c}
    /\ UNCHANGED <<log, stored, at, aborted, target, made, seen, crashes>>

\* The checkpoint passed and nobody cancelled meanwhile: the body runs.
RunBody(c) ==
    /\ at = "tools" /\ tool[c] = "flushing" /\ Flushed(c) /\ ~aborted
    /\ tool' = [tool EXCEPT ![c] = "running"]
    /\ ran' = ran \cup {c}
    /\ UNCHANGED <<log, stored, at, aborted, target, made, seen, crashes>>

\* The body settles; or the checkpoint is refused, or passes after a cancellation.
SettleCall(c) ==
    /\ at = "tools" /\ tool[c] \in {"running", "flushing"}
    /\ tool' = [tool EXCEPT ![c] = "settled"]
    /\ UNCHANGED <<log, stored, at, aborted, target, world>>

Result(c, notStarted) == ToolEvent("tool/result", Turn, Step, c, notStarted)

\* Results are logged in model order.
AnswerCall(c) ==
    /\ at = "tools" /\ tool[c] = "settled" /\ Before(c) \subseteq InStage({"none", "answered"})
    /\ log' = Append(log, Result(c, FALSE))
    /\ tool' = [tool EXCEPT ![c] = "answered"]
    /\ UNCHANGED <<stored, at, aborted, target, world>>

\* After a cancellation, what was never recorded is recorded and answered at once.
SkipCalls ==
    /\ at = "tools" /\ aborted
    /\ InStage({"recorded", "flushing", "running", "settled"}) = {} /\ InStage({"called"}) # {}
    /\ LET skipped == InOrder(InStage({"called"}))
           Pair(c) == <<ToolEvent("tool/call", Turn, Step, c, FALSE), Result(c, FALSE)>>
       IN log' = log \o [i \in 1..(2 * Len(skipped)) |->
                            Pair(skipped[(i + 1) \div 2])[IF i % 2 = 1 THEN 1 ELSE 2]]
    /\ tool' = [c \in Calls |-> IF tool[c] = "called" THEN "answered" ELSE tool[c]]
    /\ UNCHANGED <<stored, at, aborted, target, world>>

\* The batch is answered, or its scheduler failed and every running call has settled.
LeaveTools ==
    /\ at = "tools" /\ InStage({"flushing", "running"}) = {}
    /\ log' = Append(log, Boundary("step/end", Turn, Step))
    /\ tool' = [c \in Calls |-> "none"]
    /\ at' = "step ended"
    /\ UNCHANGED <<stored, aborted, target, world>>

-----------------------------------------------------------------------------
(***************************************************************************)
(* Storage, the crash and the repair.                                      *)
(***************************************************************************)

Store ==
    /\ at # "down" /\ stored < Len(log)
    /\ stored' \in (stored + 1)..Len(log)
    /\ UNCHANGED <<log, at, aborted, tool, target, world>>

\* The process dies.  What was acknowledged survives, and any prefix of the rest may.
Crash ==
    /\ crashes < MaxCrashes /\ crashes' = crashes + 1
    /\ \E n \in stored..Len(log) : log' = SubSeq(log, 1, n)
    /\ at' = "down" /\ aborted' = FALSE
    /\ tool' = [c \in Calls |-> "none"] /\ target' = [w \in DOMAIN target |-> 0]
    /\ UNCHANGED <<stored, made, seen, ran>>

Closed == [turn |-> None, step |-> None, pending |-> {}, recorded |-> {}]

\* Faulty: only a recorded call is pending.
UponNoMessage(open, C) == open

\* The calls of a message are pending, ...
UponMessage(open, C) == [open EXCEPT !.pending = @ \cup C]

\* Faulty: the record of a call goes unnoticed.
UponNoRecord(open, C) == open

\* ... may be recorded, ...
UponRecord(open, C) == [open EXCEPT !.recorded = @ \cup (C \cap open.pending)]

\* Faulty: the first answer settles the whole batch.
UponFirstResult(open, C) == [open EXCEPT !.pending = {}]

\* ... and are answered.
UponResult(open, C) == [open EXCEPT !.pending = @ \ C]

\* interruptedTurnClosers() reads the log for what is open at its end.
Scan(open, event) ==
    CASE event.type = "turn/start" -> [Closed EXCEPT !.turn = event.turn]
      [] event.type = "turn/end"   -> Closed
      [] event.type = "step/start" -> [open EXCEPT !.step = event.step]
      [] event.type = "step/end"   -> [Closed EXCEPT !.turn = open.turn]
      [] event.type = "assistant/message" -> UponMessage(open, event.calls)
      [] event.type = "tool/call"         -> UponRecord(open, event.calls)
      [] event.type = "tool/result"       -> UponResult(open, event.calls)
      [] OTHER -> open

OpensOf(events) ==
    LET open[n \in 0..Len(events)] ==
            IF n = 0 THEN Closed ELSE Scan(open[n - 1], events[n])
    IN open

OpenAtEnd(events) == OpensOf(events)[Len(events)]

\* Faulty: an open step is left open.
ClosersOfTurn(events) ==
    LET open == OpenAtEnd(events) IN
    IF open.turn = None THEN <<>> ELSE <<Boundary("turn/end", open.turn, None)>>

\* The events that close an interrupted turn: a result for every pending call, the
\* outcome of a recorded one being unknown, then the step and the turn.
Closers(events) ==
    LET open == OpenAtEnd(events)
        ResultOf(c) == ToolEvent("tool/result", open.turn, open.step, c, c \notin open.recorded)
        calls == InOrder(open.pending)
        results == [i \in DOMAIN calls |-> ResultOf(calls[i])]
        stepEnd == IF open.step = None THEN <<>> ELSE <<Boundary("step/end", open.turn, open.step)>>
    IN IF open.turn = None THEN <<>>
       ELSE results \o stepEnd \o <<Boundary("turn/end", open.turn, None)>>

\* A cold session is loaded: its closers are appended before anything uses it.
Repair ==
    /\ at = "down" /\ Closers(log) # <<>>
    /\ log' = log \o Closers(log)
    /\ at' = "repairing"
    /\ UNCHANGED <<stored, aborted, tool, target, world>>

\* The repair is committed, and the session loaded again.
CommitRepair ==
    /\ at = "repairing"
    /\ stored' = Len(log) /\ at' = "down"
    /\ UNCHANGED <<log, aborted, tool, target, world>>

\* A balanced log is published.
Resume ==
    /\ at = "down" /\ Closers(log) = <<>>
    /\ at' = "idle"
    /\ UNCHANGED <<log, stored, aborted, tool, target, world>>

-----------------------------------------------------------------------------

ToolStep == \E c \in Calls :
    RecordCall(c) \/ Dispatch(c) \/ RunBody(c) \/ SettleCall(c) \/ AnswerCall(c)

DriverStep ==
    \/ OpenTurn \/ EnterStep \/ SendRequest \/ RetryRequest \/ (\E k \in 0..2 : Answer(k))
    \/ FailStep \/ NextStep \/ EndTurn \/ Cancel \/ ToolStep \/ SkipCalls \/ LeaveTools

Recovery == Repair \/ CommitRepair \/ Resume

Next == DriverStep \/ Store \/ Crash \/ Recovery

Spec == Init /\ [][Next]_vars

-----------------------------------------------------------------------------
(***************************************************************************)
(* Properties.                                                             *)
(***************************************************************************)

Places == {"idle", "pre-step", "request", "streaming", "tools", "step ended", "down", "repairing"}
Stages == {"none", "called", "recorded", "flushing", "running", "settled", "answered"}

TypeOK ==
    /\ log \in Seq(Event) /\ seen \in Seq(Event)
    /\ stored \in 0..Len(log)
    /\ at \in Places /\ aborted \in BOOLEAN
    /\ tool \in [Calls -> Stages]
    /\ target \in [Calls \cup {Driver} -> Nat]
    /\ made \in {0} \cup Calls /\ ran \subseteq Calls /\ crashes \in 0..MaxCrashes

Events(type, c) == {i \in DOMAIN log : log[i].type = type /\ c \in log[i].calls}

\* Whatever survives and however often it was repaired, every log the program holds is one
\* the session grammar accepts, so that it can be loaded again, and one whose turns are
\* closed when the next turn starts.
LogStaysGrammatical ==
    /\ TraceOf(log) # Broken
    /\ at = "idle" => Turn = None

\* What left the process is never forgotten: no crash takes back or rewrites an event that a
\* request was derived from (the checkpoint of llm/stream), nor the record of a call whose
\* body ran (that of tools/execute), so the model cannot be led to make it again unawares.
EffectsAreOnRecord ==
    /\ IsPrefix(seen, log)
    /\ \A c \in ran : Events("tool/call", c) # {}

\* Repair tells the model that a call never started, and may be retried, only of calls
\* whose body never ran, in this process or in any before it.
NotStartedIsTrue == \A i \in DOMAIN log : log[i].notStarted => log[i].calls \cap ran = {}

\* A repair that is itself interrupted is taken up where it stopped: closing what is left
\* gives the log that one undisturbed repair would have given.
RepairIsRestartable ==
    at = "down" =>
        LET closers == Closers(log) IN
        \A k \in 0..Len(closers) :
            Closers(log \o SubSeq(closers, 1, k)) = SubSeq(closers, k + 1, Len(closers))

\* A repair answers every call of the step it closes, so that no provider is ever sent a
\* call without a result.
RepairAnswersEveryCall == [][
    at = "down" /\ at' = "repairing" =>
        \A i \in DOMAIN log :
            log[i].type = "assistant/message"
            /\ (\A j \in (i + 1)..Len(log) : log[j].type # "step/end")
            => \A c \in log[i].calls : Events("tool/result", c)' # {}]_vars
=============================================================================
