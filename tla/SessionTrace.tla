---------------------------- MODULE SessionTrace ----------------------------
(***************************************************************************)
(* The relational grammar of a session's event log, as the session package *)
(* itself states it: `validateEvent' says whether an event may follow the  *)
(* log written so far, `applyTransition' how the running summary of that   *)
(* log (a SessionTrace) moves on.  This module holds only operators; the   *)
(* specification of a whole log is SessionLog, and every component that    *)
(* appends events folds them into such a trace.                            *)
(*                                                                         *)
(* An event is abstracted to what the grammar reads: its type, the turn,   *)
(* step and call it names, and whether it is the synthetic "not started"   *)
(* result of crash repair.  Sequence numbers are the positions of a log    *)
(* and never repeat; texts, usage and surface metadata are left out.       *)
(***************************************************************************)
EXTENDS Naturals

CONSTANT Calls          \* identities of tool calls

\* `null' of the source: no turn, or no step, is open.  Numbers start at 1.
None == 0

\* The event types the grammar knows; every other type is unconstrained.
EventTypes == {"turn/start", "turn/end", "step/start", "step/end",
               "assistant/message", "tool/call", "tool/result",
               "user/message", "request/header"}

Event == [type : EventTypes, turn : Nat, step : Nat,
          calls : SUBSET Calls, notStarted : BOOLEAN]

Trace == [openTurn : Nat, openStep : Nat, nextTurn : Nat, nextStep : Nat,
          pendingCalls : SUBSET Calls]

FreshTrace == [openTurn |-> None, openStep |-> None, nextTurn |-> 1,
               nextStep |-> 1, pendingCalls |-> {}]

Boundary(type, turn, step) ==
    [type |-> type, turn |-> turn, step |-> step,
     calls |-> {}, notStarted |-> FALSE]

ToolEvent(type, turn, step, call, notStarted) ==
    [type |-> type, turn |-> turn, step |-> step,
     calls |-> {call}, notStarted |-> notStarted]

-----------------------------------------------------------------------------

\* requireOpenStep: the event names the turn and the step that are open.
InOpenStep(trace, event) == /\ trace.openTurn = event.turn
                            /\ trace.openStep = event.step
                            /\ None \notin {event.turn, event.step}

\* A result closes a call recorded in this step, unless repair synthesised it
\* for a call that never started.
AnswersCall(trace, event) == event.notStarted \/ event.calls \subseteq trace.pendingCalls

\* validateEvent: the events that may follow a log summarised by `trace'.
Accepts(trace, event) ==
    \/ /\ event.type = "turn/start"
       /\ trace.openTurn = None
       /\ event.turn = trace.nextTurn
    \/ /\ event.type = "turn/end"
       /\ trace.openTurn = event.turn
       /\ event.turn # None
       /\ trace.openStep = None
    \/ /\ event.type = "step/start"
       /\ trace.openTurn = event.turn
       /\ event.turn # None
       /\ trace.openStep = None
       /\ event.step = trace.nextStep
    \/ /\ event.type \in {"step/end", "assistant/message", "tool/call"}
       /\ InOpenStep(trace, event)
    \/ /\ event.type = "tool/result"
       /\ InOpenStep(trace, event)
       /\ AnswersCall(trace, event)
    \/ /\ event.type = "request/header"
       /\ trace.openTurn # None
    \/ event.type = "user/message"

\* applyTransition: the summary of the log after `event'.
Advance(trace, event) ==
    CASE event.type = "turn/start"  -> [trace EXCEPT !.openTurn = event.turn,
                                                     !.nextStep = 1]
      [] event.type = "turn/end"    -> [trace EXCEPT !.openTurn = None,
                                                     !.nextTurn = @ + 1]
      [] event.type = "step/start"  -> [trace EXCEPT !.openStep = event.step]
      [] event.type = "step/end"    -> [trace EXCEPT !.openStep = None,
                                                     !.nextStep = @ + 1,
                                                     !.pendingCalls = {}]
      [] event.type = "tool/call"   -> [trace EXCEPT !.pendingCalls = @ \cup event.calls]
      [] event.type = "tool/result" -> [trace EXCEPT !.pendingCalls = @ \ event.calls]
      [] OTHER                      -> trace

\* The trace of a log the companion refuses: no accepted log has it, for the
\* next turn is never numbered 0.
Broken == [FreshTrace EXCEPT !.nextTurn = 0]

\* The log of `trace' after an append that nobody vetoes.
Appended(trace, event) ==
    IF Accepts(trace, event) THEN Advance(trace, event) ELSE Broken
=============================================================================
