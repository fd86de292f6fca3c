----------------------------- MODULE SessionLog -----------------------------
(***************************************************************************)
(* What every writer of a session log promises: a log that the invariant   *)
(* companion of the session package accepts event by event.  The agent     *)
(* loop, the tool-call scheduler and crash repair are each shown to        *)
(* implement this specification.                                           *)
(***************************************************************************)
EXTENDS SessionTrace

VARIABLE trace          \* the summary of the log written so far

Init == trace = FreshTrace

\* One accepted append.
AppendEvent(event) == /\ Accepts(trace, event)
                      /\ trace' = Advance(trace, event)

StartTurn == AppendEvent(Boundary("turn/start", trace.nextTurn, None))
EndTurn   == AppendEvent(Boundary("turn/end", trace.openTurn, None))
StartStep == AppendEvent(Boundary("step/start", trace.openTurn, trace.nextStep))
EndStep   == AppendEvent(Boundary("step/end", trace.openTurn, trace.openStep))

\* A call is recorded, and answered, inside the open step; only the repair of a
\* crashed log answers a call that was never recorded.
RecordCall(call) ==
    AppendEvent(ToolEvent("tool/call", trace.openTurn, trace.openStep, call, FALSE))

AnswerCall(call, notStarted) ==
    AppendEvent(ToolEvent("tool/result", trace.openTurn, trace.openStep, call, notStarted))

Next ==
    \/ StartTurn \/ EndTurn \/ StartStep \/ EndStep
    \/ \E call \in Calls : RecordCall(call)
    \/ \E call \in Calls, notStarted \in BOOLEAN : AnswerCall(call, notStarted)

Spec == Init /\ [][Next]_trace
=============================================================================
