-------------------------- MODULE AgentLoop_proofs --------------------------
(***************************************************************************)
(* What TLAPS proves of AgentLoop, for every set of messages and every     *)
(* bound: its type invariant; that whatever plugins do, the session log    *)
(* the driver writes obeys the grammar of the session package; that no     *)
(* wake is stale or stranded; that every follow-up has a turn of its       *)
(* own; that the outcome of a turn is truthful and whenIdle() means rest.  *)
(***************************************************************************)
EXTENDS AgentLoop, TLAPS

-----------------------------------------------------------------------------
(***************************************************************************)
(* Lemmas about the log.                                                   *)
(***************************************************************************)

\* Closing a turn or a step leaves a trace well formed.
LEMMA TraceFields ==
    ASSUME NEW t \in Trace, NEW j \in Nat, NEW k \in Nat
    PROVE  /\ [t EXCEPT !.openTurn = j, !.nextTurn = k] \in Trace
           /\ [t EXCEPT !.openStep = j, !.nextStep = k, !.pendingCalls = {}] \in Trace
<1>1. [t EXCEPT !.openTurn = j, !.nextTurn = k] \in Trace BY DEF Trace
<1>2. [t EXCEPT !.openStep = j, !.nextStep = k, !.pendingCalls = {}] \in Trace BY DEF Trace
<1> QED BY <1>1, <1>2

\* Appending a boundary event to a log yields a log, accepted or broken.
LEMMA BoundaryKeepsTrace ==
    \A t \in Trace, type \in EventTypes, n, s \in Nat :
        Appended(t, Boundary(type, n, s)) \in Trace
<1> SUFFICES ASSUME NEW t \in Trace, NEW type \in EventTypes, NEW n \in Nat, NEW s \in Nat
             PROVE  Appended(t, Boundary(type, n, s)) \in Trace
  OBVIOUS
<1> DEFINE event == Boundary(type, n, s)
<1>0. None \in Nat BY DEF None
<1>1. event.type = type /\ event.turn = n /\ event.step = s /\ event.calls = {}
  BY DEF Boundary
<1>2. Broken \in Trace
  BY DEF Broken, FreshTrace, Trace, None
<1>3. Advance(t, event) \in Trace
  <2> HIDE DEF event
  <2>1. CASE type \in {"turn/start", "step/start"} BY <1>1, <2>1 DEF Advance, Trace
  <2>2. CASE type = "turn/end"
    <3>1. t.nextTurn + 1 \in Nat BY DEF Trace
    <3>2. Advance(t, event) = [t EXCEPT !.openTurn = None, !.nextTurn = t.nextTurn + 1]
      BY <1>1, <2>2 DEF Advance
    <3>3. [t EXCEPT !.openTurn = None, !.nextTurn = t.nextTurn + 1] \in Trace
      BY <1>0, <3>1, TraceFields
    <3> QED BY <3>2, <3>3
  <2>5. CASE type = "step/end"
    <3>1. t.nextStep + 1 \in Nat BY DEF Trace
    <3>2. Advance(t, event) = [t EXCEPT !.openStep = None, !.nextStep = t.nextStep + 1,
                                        !.pendingCalls = {}]
      <4>1. event.type = "step/end"
        BY <1>1, <2>5
      <4>2. QED
        BY <4>1 DEF Advance
    <3>3. [t EXCEPT !.openStep = None, !.nextStep = t.nextStep + 1,
                     !.pendingCalls = {}] \in Trace
      BY <1>0, <3>1, TraceFields
    <3> QED BY <3>2, <3>3
  <2>3. CASE type \in {"tool/call", "tool/result"} BY <1>1, <2>3 DEF Advance, Trace
  <2>4. CASE type \in {"assistant/message", "user/message", "request/header"}
    BY <1>1, <2>4 DEF Advance, Trace
  <2> QED BY <2>1, <2>2, <2>3, <2>4, <2>5 DEF EventTypes
<1> QED BY <1>2, <1>3 DEF Appended

LEMMA BoundaryTypes == {"turn/start", "turn/end", "step/start", "step/end",
                        "assistant/message"} \subseteq EventTypes
  BY DEF EventTypes

-----------------------------------------------------------------------------
(***************************************************************************)
(* The type invariant, action by action.                                   *)
(***************************************************************************)

LEMMA CancelTypes ==
    ASSUME TypeOK, NEW cause \in Causes, NEW keepInbox \in BOOLEAN,
           Cancel(cause, keepInbox)
    PROVE  /\ abort' \in Causes \cup {NoAbort} /\ unheard' \in BOOLEAN
           /\ nextTurn' \in Seq(Messages) /\ nextStep' \in SUBSET Messages
           /\ fate' \in [Messages -> {"new", "pending", "claimed", "logged", "gone"}]
           /\ wake' \in [Messages -> {"none", "owed", "late"}]
           /\ home' \in [Messages -> Nat]
<1> USE DEF TypeOK, ValueTypes, FlagTypes, inboxVars
<1>1. abort' \in Causes \cup {NoAbort} /\ unheard' \in BOOLEAN
  BY DEF Cancel, AbortActivity, PastLastLook, OpensStep
<1>2. CASE ~keepInbox
  <2>1. ClearInbox BY <1>2 DEF Cancel
  <2> QED BY <1>1, <2>1 DEF ClearInbox, Settle
<1>3. CASE keepInbox
  <2>1. UNCHANGED <<nextTurn, nextStep, fate, home>> BY <1>3 DEF Cancel
  <2>2. wake' = wake \/ wake' = [m \in Messages |-> "none"] BY <1>3 DEF Cancel, Park
  <2> QED BY <1>1, <2>1, <2>2
<1> QED BY <1>2, <1>3

LEMMA EnvironmentTypes == TypeOK /\ Environment => TypeOK'
<1> SUFFICES ASSUME TypeOK, Environment PROVE TypeOK'
  OBVIOUS
<1> USE DEF TypeOK, ValueTypes, FlagTypes, phaseVars, frameVars, inboxVars,
            windowVars, idleVars
<1>1. ASSUME NEW m \in Messages, NEW list \in {"next-turn", "next-step"}, Send(m, list)
      PROVE  TypeOK'
  <2>1. ValueTypes' BY <1>1 DEF Send, Insert
  <2>2. FlagTypes' BY <1>1 DEF Send, Insert
  <2> QED BY <2>1, <2>2
<1>2. ASSUME NEW m \in Messages, NEW list \in {"next-turn", "next-step"}, Stage(m, list)
      PROVE  TypeOK'
  <2>1. ValueTypes' BY <1>2 DEF Stage, Insert
  <2>2. FlagTypes' BY <1>2 DEF Stage, Insert
  <2> QED BY <2>1, <2>2
<1>3. ASSUME NEW m \in Messages, RemovePending(m) PROVE TypeOK'
  <2>1. nextTurn' \in Seq(Messages)
    <3>1. ASSUME NEW i \in DOMAIN nextTurn, nextTurn' = RemoveAt(nextTurn, i)
          PROVE  nextTurn' \in Seq(Messages)
      <4>1. i \in 1..Len(nextTurn) BY <3>1
      <4>2. SubSeq(nextTurn, 1, i-1) \in Seq(Messages) BY <4>1
      <4>3. SubSeq(nextTurn, i+1, Len(nextTurn)) \in Seq(Messages) BY <4>1
      <4>4. SubSeq(nextTurn, 1, i-1) \o SubSeq(nextTurn, i+1, Len(nextTurn)) \in Seq(Messages)
        BY <4>2, <4>3
      <4> QED BY <3>1, <4>4 DEF RemoveAt
    <3> QED BY <1>3, <3>1 DEF RemovePending
  <2>2. ValueTypes' BY <1>3, <2>1 DEF RemovePending, Settle
  <2>3. FlagTypes' BY <1>3 DEF RemovePending, Settle
  <2> QED BY <2>2, <2>3
<1>4. ASSUME NEW m \in Messages, NEW n \in Messages, ReplacePending(m, n) PROVE TypeOK'
  <2>1. nextTurn' \in Seq(Messages)
    <3>1. ASSUME NEW i \in DOMAIN nextTurn PROVE ReplaceAt(nextTurn, i, n) \in Seq(Messages)
      BY <3>1 DEF ReplaceAt
    <3> QED BY <1>4, <3>1 DEF ReplacePending
  <2>2. /\ nextStep' \in SUBSET Messages
        /\ fate' \in [Messages -> {"new", "pending", "claimed", "logged", "gone"}]
        /\ wake' \in [Messages -> {"none", "owed", "late"}]
    BY <1>4 DEF ReplacePending
  <2>3. UNCHANGED <<phaseVars, frameVars, windowVars, idleVars, disposing, trace, home>>
    BY <1>4 DEF ReplacePending
  <2>4. ValueTypes' BY <2>1, <2>2, <2>3
  <2>5. FlagTypes' BY <2>3
  <2> QED BY <2>4, <2>5
<1>5. ASSUME NEW keepInbox \in BOOLEAN, CancelByUser(keepInbox) PROVE TypeOK'
  <2>1. ValueTypes'
    <3>1. Cancel("user", keepInbox) /\ "user" \in Causes BY <1>5 DEF CancelByUser, Causes
    <3>2. UNCHANGED <<phase, turn, step, frameVars, windowVars, idleVars, trace, disposing>>
      BY <1>5 DEF CancelByUser, Cancel
    <3> QED BY <3>1, <3>2, CancelTypes
  <2>2. FlagTypes'
    <3>1. unheard' \in BOOLEAN BY <1>5, CancelTypes DEF CancelByUser, Causes
    <3> QED BY <1>5, <3>1 DEF CancelByUser, Cancel, ClearInbox
  <2> QED BY <2>1, <2>2
<1>6. CASE Dispose
  <2>1. ValueTypes'
    <3>1. Cancel("disposed", FALSE) /\ "disposed" \in Causes BY <1>6 DEF Dispose, Causes
    <3>2. UNCHANGED <<phase, turn, step, frameVars, windowVars, idleVars, trace>>
      BY <1>6 DEF Dispose, Cancel
    <3>3. disposing' \in {"no", "active", "over"} BY <1>6 DEF Dispose
    <3> QED BY <3>1, <3>2, <3>3, CancelTypes
  <2>2. FlagTypes'
    <3>1. unheard' \in BOOLEAN BY <1>6, CancelTypes DEF Dispose, Causes
    <3> QED BY <1>6, <3>1 DEF Dispose, Cancel, ClearInbox
  <2> QED BY <2>1, <2>2
<1>7. CASE RunMaintenance
  <2>1. ValueTypes' BY <1>7 DEF RunMaintenance, NewActivity
  <2>2. FlagTypes' BY <1>7 DEF RunMaintenance, NewActivity
  <2> QED BY <2>1, <2>2
<1>8. CASE CallWhenIdle
  <2>1. ValueTypes' BY <1>8 DEF CallWhenIdle
  <2>2. FlagTypes' BY <1>8 DEF CallWhenIdle
  <2> QED BY <2>1, <2>2
<1> QED BY <1>1, <1>2, <1>3, <1>4, <1>5, <1>6, <1>7, <1>8 DEF Environment
\* The pieces of the driver: an append of the driver's own, the end of a turn, a
\* failure and a claim.
LEMMA LogTypes ==
    ASSUME TypeOK, NEW type \in EventTypes, NEW n \in Nat, NEW s \in Nat,
           Log(Boundary(type, n, s))
    PROVE  trace' \in Trace
BY BoundaryKeepsTrace DEF Log, TypeOK, ValueTypes

LEMMA CloseTurnTypes ==
    ASSUME TypeOK, NEW reason \in TurnEndReasons, NEW how \in {"normal", "stop", "throw"},
           CloseTurn(reason, how)
    PROVE  /\ turnEnds' \in TurnEndReasons /\ exit' \in {"normal", "stop", "throw"}
           /\ pc' = "turnClosed" /\ trace' \in Trace
<1>1. turn \in Nat /\ None \in Nat BY DEF TypeOK, ValueTypes, None
<1>2. trace' \in Trace BY <1>1, LogTypes, BoundaryTypes DEF CloseTurn
<1> QED BY <1>2 DEF CloseTurn

LEMMA FailTypes ==
    ASSUME TypeOK, Fail
    PROVE  /\ turnEnds' \in TurnEndReasons /\ exit' \in {"normal", "stop", "throw"}
           /\ pc' \in {"turnClosed", "failed"} /\ trace' \in Trace
<1>1. CASE CloseTurn("aborted", "throw") BY <1>1, CloseTurnTypes DEF TurnEndReasons
<1>2. CASE /\ turnEnds' = "error" /\ exit' = "throw" /\ pc' = "failed"
           /\ UNCHANGED trace
  BY <1>2 DEF TypeOK, ValueTypes, TurnEndReasons
<1> QED BY <1>1, <1>2 DEF Fail

LEMMA ClaimTypes ==
    ASSUME TypeOK, NEW boundary \in {"next-turn", "next-step"}, Claim(boundary)
    PROVE  /\ batch' \in SUBSET Messages
           /\ nextTurn' \in Seq(Messages) /\ nextStep' \in SUBSET Messages
           /\ fate' \in [Messages -> {"new", "pending", "claimed", "logged", "gone"}]
           /\ wake' \in [Messages -> {"none", "owed", "late"}]
           /\ home' \in [Messages -> Nat]
           /\ target' \in {"next-turn", "next-step"} /\ pc' = "preStep"
<1> DEFINE ordinary == IF boundary = "next-turn" /\ nextTurn # <<>>
                       THEN {Head(nextTurn)} ELSE {}
<1> USE DEF TypeOK, ValueTypes
<1>1. ordinary \in SUBSET Messages OBVIOUS
<1>2. nextTurn' \in Seq(Messages)
  <2>1. CASE nextTurn = <<>>
    <3>1. ordinary = {} BY <2>1
    <3> QED BY <3>1 DEF Claim
  <2>2. CASE nextTurn # <<>> BY <2>2 DEF Claim
  <2> QED BY <2>1, <2>2
<1>3. batch' \in SUBSET Messages BY <1>1 DEF Claim
<1> QED BY <1>2, <1>3 DEF Claim, Settle

\* A wake that finds the agent idle reserves a driver; any other changes the latch.
LEMMA WakeDriverTypes ==
    ASSUME TypeOK, NEW wakeAfterAbort \in BOOLEAN, WakeDriver(wakeAfterAbort)
    PROVE  /\ phase' \in {"idle", "maintenance", "running"}
           /\ turn' = turn /\ step' \in Nat
           /\ abort' \in Causes \cup {NoAbort}
           /\ pc' \in Points
           /\ waiter' \in {"off", "current", "old", "done"}
           /\ wakeRequested' \in BOOLEAN /\ unheard' \in BOOLEAN
           /\ activityOpen' \in BOOLEAN
<1> USE DEF TypeOK, ValueTypes, FlagTypes
<1>1. CASE StartDriver BY <1>1 DEF StartDriver, FreshController, NewActivity, Points
<1>2. CASE LatchWake(wakeAfterAbort) BY <1>2 DEF LatchWake, idleVars
<1> QED BY <1>1, <1>2 DEF WakeDriver

LEMMA DriverTypes == TypeOK /\ Driver => TypeOK'
<1> SUFFICES ASSUME TypeOK, Driver PROVE TypeOK'
  OBVIOUS
<1> USE DEF TypeOK, ValueTypes, FlagTypes, phaseVars, frameVars, inboxVars,
            windowVars, idleVars
<1>0. None \in Nat /\ turn + 1 \in Nat /\ step + 1 \in Nat BY DEF None
<1>1. CASE OpenTurn
  <2>1. ValueTypes'
    BY <1>1, <1>0, LogTypes, BoundaryTypes DEF OpenTurn, LeaveTurns, DropFrame, Park, Points,
       AppendPoints, AwaitPoints, TurnEndReasons
  <2>2. FlagTypes'
    BY <1>1, <1>0, LogTypes, BoundaryTypes DEF OpenTurn, LeaveTurns, DropFrame, Park, Points,
       AppendPoints, AwaitPoints, TurnEndReasons
  <2> QED BY <2>1, <2>2
<1>2. CASE ClaimFirst
  <2>1. ValueTypes'
    BY <1>2, FailTypes, ClaimTypes DEF ClaimFirst, Points, AppendPoints, AwaitPoints
  <2>2. FlagTypes'
    BY <1>2, FailTypes, ClaimTypes DEF ClaimFirst, Points, AppendPoints, AwaitPoints
  <2> QED BY <2>1, <2>2
<1>3. CASE PreStep
  <2>1. ValueTypes'
    BY <1>3, FailTypes DEF PreStep, PreStepThrows, PreStepRejects, PreStepEnters, Settle,
       Points, AppendPoints, AwaitPoints
  <2>2. FlagTypes'
    BY <1>3 DEF PreStep, PreStepThrows, PreStepRejects, PreStepEnters
  <2> QED BY <2>1, <2>2
<1>13. CASE UseDecision
  <2>1. CASE EndWithoutStep
    <3>1. \E reason \in TurnEndReasons, how \in {"normal", "stop", "throw"} :
             CloseTurn(reason, how)
      BY <2>1 DEF EndWithoutStep, TurnEndReasons
    <3>2. ValueTypes'
      BY <1>13, <2>1, <3>1, CloseTurnTypes DEF UseDecision, EndWithoutStep, Points, AppendPoints
    <3>3. FlagTypes' BY <1>13 DEF UseDecision
    <3> QED BY <3>2, <3>3
  <2>2. CASE AbandonStep
    <3>1. ValueTypes'
      BY <1>13, <2>2, FailTypes DEF UseDecision, AbandonStep, Settle, Points, AppendPoints
    <3>2. FlagTypes' BY <1>13 DEF UseDecision
    <3> QED BY <3>1, <3>2
  <2>3. CASE StartStep
    <3>1. ValueTypes'
      BY <1>13, <2>3, <1>0, LogTypes, BoundaryTypes DEF UseDecision, StartStep, Points,
         AppendPoints
    <3>2. FlagTypes' BY <1>13 DEF UseDecision
    <3> QED BY <3>1, <3>2
  <2> QED BY <1>13, <2>1, <2>2, <2>3 DEF UseDecision
<1>4. CASE EnterStep
  <2>1. ValueTypes'
    BY <1>4, <1>0, LogTypes, BoundaryTypes DEF EnterStep, Points, AppendPoints, AwaitPoints
  <2>2. FlagTypes'
    BY <1>4, <1>0, LogTypes, BoundaryTypes DEF EnterStep, Points, AppendPoints, AwaitPoints
  <2> QED BY <2>1, <2>2
<1>5. CASE Generate
  <2>1. ValueTypes'
    BY <1>5, <1>0, LogTypes, BoundaryTypes DEF Generate, StepThrows, StepReturns,
       StepCallsTools, Outcome, Points, AppendPoints, AwaitPoints, TurnEndReasons
  <2>2. FlagTypes'
    BY <1>5, <1>0, LogTypes, BoundaryTypes DEF Generate, StepThrows, StepReturns,
       StepCallsTools, Outcome, Points, AppendPoints, AwaitPoints, TurnEndReasons
  <2> QED BY <2>1, <2>2
<1>6. CASE RunTools
  <2>1. ValueTypes'
    BY <1>6, <1>0, LogTypes, BoundaryTypes DEF RunTools, StepThrows, Outcome, Points,
       AppendPoints, TurnEndReasons
  <2>2. FlagTypes'
    BY <1>6, <1>0, LogTypes, BoundaryTypes DEF RunTools, StepThrows, Outcome, Points,
       AppendPoints, TurnEndReasons
  <2> QED BY <2>1, <2>2
<1>7. CASE EndStep
  <2>1. ValueTypes' BY <1>7, <1>0, LogTypes, BoundaryTypes DEF EndStep, Points, AppendPoints
  <2>2. FlagTypes' BY <1>7, <1>0, LogTypes, BoundaryTypes DEF EndStep, Points, AppendPoints
  <2> QED BY <2>1, <2>2
<1>8. CASE AfterStep
  <2>1. ValueTypes'
    BY <1>8, FailTypes, ClaimTypes DEF AfterStep, Points, AppendPoints, AwaitPoints
  <2>2. FlagTypes' BY <1>8, FailTypes, ClaimTypes DEF AfterStep, Points, AppendPoints, AwaitPoints
  <2> QED BY <2>1, <2>2
<1>9. CASE Stop
  <2>1. ValueTypes'
    <3>1. /\ pc' \in Points /\ exit' \in {"normal", "stop", "throw"}
          /\ turnEnds' \in TurnEndReasons /\ trace' \in Trace
      BY <1>9, FailTypes, CloseTurnTypes, ClaimTypes
         DEF Stop, Points, AppendPoints, AwaitPoints
    <3>2. /\ batch' \in SUBSET Messages /\ target' \in {"next-turn", "next-step"}
          /\ nextTurn' \in Seq(Messages) /\ nextStep' \in SUBSET Messages
          /\ fate' \in [Messages -> {"new", "pending", "claimed", "logged", "gone"}]
          /\ wake' \in [Messages -> {"none", "owed", "late"}]
          /\ home' \in [Messages -> Nat]
      BY <1>9, ClaimTypes DEF Stop
    <3> QED BY <1>9, <3>1, <3>2 DEF Stop
  <2>2. FlagTypes'
    BY <1>9, FailTypes, CloseTurnTypes, ClaimTypes DEF Stop, Points, AppendPoints, AwaitPoints
  <2> QED BY <2>1, <2>2
<1>10. CASE CloseFailedTurn
  <2>1. ValueTypes'
    BY <1>10, CloseTurnTypes DEF CloseFailedTurn, Points, AppendPoints, TurnEndReasons
  <2>2. FlagTypes'
    BY <1>10, CloseTurnTypes DEF CloseFailedTurn, Points, AppendPoints, TurnEndReasons
  <2> QED BY <2>1, <2>2
<1>11. CASE LeaveTurn
  <2>1. ValueTypes'
    BY <1>11 DEF LeaveTurn, LeaveTurns, FreshController, DropFrame, Park, Points, AwaitPoints,
       TurnEndReasons
  <2>2. FlagTypes'
    BY <1>11 DEF LeaveTurn, LeaveTurns, FreshController, DropFrame, Park, Points, AwaitPoints,
       TurnEndReasons
  <2> QED BY <2>1, <2>2
<1>12. CASE Retire
  <2>1. ValueTypes' BY <1>12 DEF Retire, FreshController, Points
  <2>2. FlagTypes' BY <1>12 DEF Retire, FreshController, Points
  <2> QED BY <2>1, <2>2
<1> QED BY <1>1, <1>2, <1>3, <1>4, <1>5, <1>6, <1>7, <1>8, <1>9, <1>10, <1>11, <1>12,
           <1>13
        DEF Driver

LEMMA SchedulerTypes == TypeOK /\ Scheduler => TypeOK'
<1> SUFFICES ASSUME TypeOK, Scheduler PROVE TypeOK'
  OBVIOUS
<1> USE DEF TypeOK, ValueTypes, FlagTypes, phaseVars, frameVars, inboxVars,
            windowVars, idleVars
<1>1. CASE Driver BY <1>1, DriverTypes
<1>2. CASE Wake
  <2>1. ValueTypes' BY <1>2, WakeDriverTypes DEF Wake, Promise, NotSending
  <2>2. FlagTypes' BY <1>2, WakeDriverTypes DEF Wake, Promise, NotSending
  <2> QED BY <2>1, <2>2
<1>3. CASE ReplayWake
  <2>1. ValueTypes'
    <3>1. CASE WakeDriver(FALSE) BY <1>3, <3>1, WakeDriverTypes DEF ReplayWake
    <3>2. CASE UNCHANGED <<phaseVars, pc, waiter>> BY <1>3, <3>2 DEF ReplayWake
    <3> QED BY <1>3, <3>1, <3>2 DEF ReplayWake
  <2>2. FlagTypes' BY <1>3, WakeDriverTypes DEF ReplayWake
  <2> QED BY <2>1, <2>2
<1>4. CASE FinishMaintenance
  <2>1. ValueTypes'
    BY <1>4 DEF FinishMaintenance, StartDriver, FreshController, NewActivity, Points
  <2>2. FlagTypes'
    BY <1>4 DEF FinishMaintenance, StartDriver, FreshController, NewActivity, Points
  <2> QED BY <2>1, <2>2
<1>5. CASE WaiterAwakes
  <2>1. ValueTypes' BY <1>5 DEF WaiterAwakes
  <2>2. FlagTypes' BY <1>5 DEF WaiterAwakes
  <2> QED BY <2>1, <2>2
<1> QED BY <1>1, <1>2, <1>3, <1>4, <1>5 DEF Scheduler

\* Type correctness: every variable keeps its type in every reachable state of the
\* agent loop, for every set of messages and every step bound.
THEOREM TypeCorrect == Spec => []TypeOK
<1>1. Init => TypeOK
  <2> SUFFICES ASSUME Init PROVE TypeOK
    OBVIOUS
  <2>1. ValueTypes
    BY DEF Init, ValueTypes, Points, TurnEndReasons, FreshTrace, Trace, None
  <2>2. FlagTypes BY DEF Init, FlagTypes
  <2> QED BY <2>1, <2>2 DEF TypeOK
<1>2. TypeOK /\ [Next]_vars => TypeOK'
  <2> SUFFICES ASSUME TypeOK, [Next]_vars PROVE TypeOK'
    OBVIOUS
  <2>1. CASE Next BY <2>1, EnvironmentTypes, SchedulerTypes DEF Next
  <2>2. CASE UNCHANGED vars
    <3> USE DEF vars, phaseVars, frameVars, inboxVars, windowVars, idleVars, TypeOK
    <3>1. ValueTypes' BY <2>2 DEF ValueTypes
    <3>2. FlagTypes' BY <2>2 DEF FlagTypes
    <3> QED BY <3>1, <3>2
  <2> QED BY <2>1, <2>2
<1> QED BY <1>1, <1>2, PTL DEF Spec

-----------------------------------------------------------------------------
(***************************************************************************)
(* The log grammar.  DriverMatchesLog is the inductive invariant: where    *)
(* the driver stands, each of its appends is one the grammar accepts.      *)
(***************************************************************************)

\* The abstract log appends exactly the events the loop's own grammar accepts.
LEMMA SameGrammar ==
    ASSUME NEW type \in EventTypes, NEW n, NEW s
    PROVE  SessionGrammar!AppendEvent(SessionGrammar!Boundary(type, n, s)) <=>
             /\ Accepts(trace, Boundary(type, n, s))
             /\ trace' = Advance(trace, Boundary(type, n, s))
<1> DEFINE event == Boundary(type, n, s)
<1>1. SessionGrammar!Boundary(type, n, s) = event
  BY DEF SessionGrammar!Boundary, Boundary
<1> HIDE DEF event
<1>2. SessionGrammar!Accepts(trace, event) <=> Accepts(trace, event)
  BY DEF SessionGrammar!Accepts, Accepts, SessionGrammar!InOpenStep, InOpenStep,
         SessionGrammar!AnswersCall, AnswersCall, SessionGrammar!None, None
<1>3. SessionGrammar!Advance(trace, event) = Advance(trace, event)
  BY DEF SessionGrammar!Advance, Advance, SessionGrammar!None, None
<1>4. SessionGrammar!AppendEvent(event) <=>
        Accepts(trace, event) /\ trace' = Advance(trace, event)
  BY <1>2, <1>3 DEF SessionGrammar!AppendEvent
<1> QED BY <1>1, <1>4 DEF event

\* Opening a turn.
LEMMA TurnStarts ==
    ASSUME TypeOK, DriverMatchesLog, ~InTurn, ~InStep,
           Log(Boundary("turn/start", turn + 1, None))
    PROVE  /\ SessionGrammar!StartTurn
           /\ trace' = [trace EXCEPT !.openTurn = turn + 1, !.nextStep = 1]
<1> USE DEF TypeOK, ValueTypes, DriverMatchesLog, FrameMatchesPhase, TraceMatchesPhase, None
<1> DEFINE event == Boundary("turn/start", turn + 1, None)
<1>1. event.type = "turn/start" /\ event.turn = turn + 1 /\ event.step = None BY DEF Boundary
<1>2. Accepts(trace, event) BY <1>1 DEF Accepts, InOpenStep
<1>3. trace' = Advance(trace, event) BY <1>2 DEF Log, Appended
<1>4. SessionGrammar!StartTurn
  <2>1. "turn/start" \in EventTypes BY BoundaryTypes
  <2>2. SessionGrammar!AppendEvent(SessionGrammar!Boundary("turn/start", turn + 1, None))
    BY <1>2, <1>3, <2>1, SameGrammar
  <2> QED BY <2>2 DEF SessionGrammar!StartTurn, SessionGrammar!None
<1> HIDE DEF event
<1>5. trace' = [trace EXCEPT !.openTurn = turn + 1, !.nextStep = 1]
  BY <1>1, <1>3 DEF Advance
<1> QED BY <1>4, <1>5

\* Closing one.
LEMMA TurnEnds ==
    ASSUME TypeOK, DriverMatchesLog, InTurn, ~InStep,
           Log(Boundary("turn/end", turn, None))
    PROVE  /\ SessionGrammar!EndTurn
           /\ trace' = [trace EXCEPT !.openTurn = None, !.nextTurn = trace.nextTurn + 1]
<1> USE DEF TypeOK, ValueTypes, DriverMatchesLog, FrameMatchesPhase, TraceMatchesPhase, None
<1> DEFINE event == Boundary("turn/end", turn, None)
<1>1. event.type = "turn/end" /\ event.turn = turn /\ event.step = None BY DEF Boundary
<1>2. Accepts(trace, event) BY <1>1 DEF Accepts, InOpenStep
<1>3. trace' = Advance(trace, event) BY <1>2 DEF Log, Appended
<1>4. SessionGrammar!EndTurn
  <2>1. "turn/end" \in EventTypes BY BoundaryTypes
  <2>2. SessionGrammar!AppendEvent(SessionGrammar!Boundary("turn/end", turn, None))
    BY <1>2, <1>3, <2>1, SameGrammar
  <2> QED BY <2>2 DEF SessionGrammar!EndTurn, SessionGrammar!None
<1> HIDE DEF event
<1>5. trace' = [trace EXCEPT !.openTurn = None, !.nextTurn = trace.nextTurn + 1]
  BY <1>1, <1>3 DEF Advance
<1> QED BY <1>4, <1>5

\* Opening a step of it.
LEMMA StepStarts ==
    ASSUME TypeOK, DriverMatchesLog, InTurn, ~InStep,
           Log(Boundary("step/start", turn, step + 1))
    PROVE  /\ SessionGrammar!StartStep
           /\ trace' = [trace EXCEPT !.openStep = step + 1]
<1> USE DEF TypeOK, ValueTypes, DriverMatchesLog, FrameMatchesPhase, TraceMatchesPhase, None
<1> DEFINE event == Boundary("step/start", turn, step + 1)
<1>1. event.type = "step/start" /\ event.turn = turn /\ event.step = step + 1 BY DEF Boundary
<1>2. Accepts(trace, event) BY <1>1 DEF Accepts, InOpenStep
<1>3. trace' = Advance(trace, event) BY <1>2 DEF Log, Appended
<1>4. SessionGrammar!StartStep
  <2>1. "step/start" \in EventTypes BY BoundaryTypes
  <2>2. SessionGrammar!AppendEvent(SessionGrammar!Boundary("step/start", turn, step + 1))
    BY <1>2, <1>3, <2>1, SameGrammar
  <2> QED BY <2>2 DEF SessionGrammar!StartStep, SessionGrammar!None
<1> HIDE DEF event
<1>5. trace' = [trace EXCEPT !.openStep = step + 1]
  BY <1>1, <1>3 DEF Advance
<1> QED BY <1>4, <1>5

\* Closing that.
LEMMA StepEnds ==
    ASSUME TypeOK, DriverMatchesLog, InTurn, InStep,
           Log(Boundary("step/end", turn, step))
    PROVE  /\ SessionGrammar!EndStep
           /\ trace' = [trace EXCEPT !.openStep = None, !.nextStep = trace.nextStep + 1, !.pendingCalls = {}]
<1> USE DEF TypeOK, ValueTypes, DriverMatchesLog, FrameMatchesPhase, TraceMatchesPhase, None
<1> DEFINE event == Boundary("step/end", turn, step)
<1>1. event.type = "step/end" /\ event.turn = turn /\ event.step = step BY DEF Boundary
<1>2. Accepts(trace, event) BY <1>1 DEF Accepts, InOpenStep
<1>3. trace' = Advance(trace, event) BY <1>2 DEF Log, Appended
<1>4. SessionGrammar!EndStep
  <2>1. "step/end" \in EventTypes BY BoundaryTypes
  <2>2. SessionGrammar!AppendEvent(SessionGrammar!Boundary("step/end", turn, step))
    BY <1>2, <1>3, <2>1, SameGrammar
  <2> QED BY <2>2 DEF SessionGrammar!EndStep, SessionGrammar!None
<1> HIDE DEF event
<1>5. trace' = [trace EXCEPT !.openStep = None, !.nextStep = trace.nextStep + 1, !.pendingCalls = {}]
  BY <1>1, <1>3 DEF Advance
<1> QED BY <1>4, <1>5

\* Appending an answer leaves the log where it is.
LEMMA MessageLogged ==
    ASSUME TypeOK, DriverMatchesLog, InTurn, InStep,
           Log(Boundary("assistant/message", turn, step))
    PROVE  trace' = trace
<1> USE DEF TypeOK, ValueTypes, DriverMatchesLog, FrameMatchesPhase, TraceMatchesPhase, None
<1> DEFINE event == Boundary("assistant/message", turn, step)
<1>1. event.type = "assistant/message" /\ event.turn = turn /\ event.step = step
  BY DEF Boundary
<1>2. Accepts(trace, event) BY <1>1 DEF Accepts, InOpenStep
<1>3. trace' = Advance(trace, event) BY <1>2 DEF Log, Appended
<1> HIDE DEF event
<1> QED BY <1>1, <1>3 DEF Advance

\* A step of the agent that keeps the log and the driver's position keeps the invariant.
LEMMA PositionKept ==
    ASSUME DriverMatchesLog, UNCHANGED <<turn, step, trace>>, InTurn' = InTurn,
           InStep' = InStep, (pc' \in {"reserved", "turnOpen"}) => step = 0,
           (pc' = "none") <=> (phase' # "running")
    PROVE  DriverMatchesLog' /\ [SessionGrammar!Next]_trace
BY DEF DriverMatchesLog, FrameMatchesPhase, TraceMatchesPhase

\* Ending a turn, or failing, from within a turn and outside of its steps.
LEMMA TurnEndKeepsMatch ==
    ASSUME TypeOK, DriverMatchesLog, InTurn, ~InStep, UNCHANGED <<phase, turn, step>>,
           NEW reason, NEW how, CloseTurn(reason, how)
    PROVE  DriverMatchesLog' /\ SessionGrammar!Next
<1>1. SessionGrammar!EndTurn /\
      trace' = [trace EXCEPT !.openTurn = None, !.nextTurn = trace.nextTurn + 1]
  BY TurnEnds DEF CloseTurn
<1>2. pc' = "turnClosed" BY DEF CloseTurn
<1>3. DriverMatchesLog'
  BY <1>1, <1>2 DEF DriverMatchesLog, FrameMatchesPhase, TraceMatchesPhase, InTurn, InStep,
                    TypeOK, ValueTypes, Trace, None
<1> QED BY <1>1, <1>3 DEF SessionGrammar!Next

LEMMA FailKeepsMatch ==
    ASSUME TypeOK, DriverMatchesLog, InTurn, ~InStep, UNCHANGED <<phase, turn, step>>, Fail
    PROVE  DriverMatchesLog' /\ [SessionGrammar!Next]_trace
<1>1. CASE CloseTurn("aborted", "throw") BY <1>1, TurnEndKeepsMatch
<1>2. CASE /\ turnEnds' = "error" /\ exit' = "throw" /\ pc' = "failed"
           /\ UNCHANGED trace
  BY <1>2, PositionKept DEF InTurn, InStep, DriverMatchesLog, FrameMatchesPhase
<1> QED BY <1>1, <1>2 DEF Fail

LEMMA StepEndKeepsMatch ==
    ASSUME TypeOK, DriverMatchesLog, InTurn, InStep, UNCHANGED <<phase, turn, step>>,
           Log(Boundary("step/end", turn, step)), pc' = "stepClosed"
    PROVE  DriverMatchesLog' /\ SessionGrammar!Next
<1>1. SessionGrammar!EndStep /\
      trace' = [trace EXCEPT !.openStep = None, !.nextStep = trace.nextStep + 1,
                             !.pendingCalls = {}]
  BY StepEnds
<1>2. DriverMatchesLog'
  BY <1>1 DEF DriverMatchesLog, FrameMatchesPhase, TraceMatchesPhase, InTurn, InStep,
              TypeOK, ValueTypes, Trace, None
<1> QED BY <1>1, <1>2 DEF SessionGrammar!Next

\* What does not move the driver: everything plugins may call, and every continuation
\* that is not the driver's own.
LEMMA OthersKeepMatch ==
    ASSUME TypeOK, DriverMatchesLog,
           Environment \/ Wake \/ ReplayWake \/ FinishMaintenance \/ WaiterAwakes
    PROVE  DriverMatchesLog' /\ [SessionGrammar!Next]_trace
<1> USE DEF phaseVars, frameVars, inboxVars, windowVars, idleVars, InTurn, InStep
<1> DEFINE Kept == UNCHANGED <<turn, step, trace>> /\ pc' = pc /\ phase' = phase
<1>1. Kept => DriverMatchesLog' /\ [SessionGrammar!Next]_trace
  BY PositionKept DEF DriverMatchesLog, FrameMatchesPhase
<1>2. ASSUME NEW m \in Messages, NEW list \in {"next-turn", "next-step"},
             Send(m, list) \/ Stage(m, list)
      PROVE  Kept
  BY <1>2 DEF Send, Stage
<1>3. ASSUME NEW m \in Messages, RemovePending(m) PROVE Kept
  BY <1>3 DEF RemovePending
<1>4. ASSUME NEW m \in Messages, NEW n \in Messages, ReplacePending(m, n) PROVE Kept
  BY <1>4 DEF ReplacePending
<1>5. ASSUME NEW keepInbox \in BOOLEAN, CancelByUser(keepInbox) PROVE Kept
  BY <1>5 DEF CancelByUser, Cancel
<1>6. CASE Dispose \/ CallWhenIdle \/ WaiterAwakes
  BY <1>1, <1>6 DEF Dispose, Cancel, CallWhenIdle, WaiterAwakes
<1>7. CASE RunMaintenance
  BY <1>7, PositionKept DEF RunMaintenance, DriverMatchesLog, FrameMatchesPhase
<1>8. ASSUME phase # "running", StartDriver, trace' = trace
      PROVE  DriverMatchesLog' /\ [SessionGrammar!Next]_trace
  <2>1. pc = "none" BY <1>8 DEF DriverMatchesLog, FrameMatchesPhase
  <2>2. pc' = "reserved" /\ step' = 0 /\ turn' = turn /\ phase' = "running"
    BY <1>8 DEF StartDriver
  <2>3. DriverMatchesLog'
    BY <1>8, <2>1, <2>2 DEF DriverMatchesLog, FrameMatchesPhase, TraceMatchesPhase
  <2> QED BY <1>8, <2>3
<1>9. ASSUME NEW wakeAfterAbort, WakeDriver(wakeAfterAbort), trace' = trace
      PROVE  DriverMatchesLog' /\ [SessionGrammar!Next]_trace
  <2>1. CASE phase = "idle" /\ StartDriver BY <1>8, <1>9, <2>1
  <2>2. CASE LatchWake(wakeAfterAbort) BY <1>1, <1>9, <2>2 DEF LatchWake
  <2> QED BY <1>9, <2>1, <2>2 DEF WakeDriver
<1>10. CASE Wake
  <2>1. WakeDriver(afterAbort) /\ trace' = trace BY <1>10 DEF Wake
  <2> QED BY <1>9, <2>1
<1>11. CASE ReplayWake
  <2>1. CASE WakeDriver(FALSE) BY <1>9, <1>11, <2>1 DEF ReplayWake
  <2>2. CASE UNCHANGED <<phaseVars, pc, waiter>> BY <1>1, <1>11, <2>2 DEF ReplayWake
  <2> QED BY <1>11, <2>1, <2>2 DEF ReplayWake
<1>12. CASE FinishMaintenance
  <2>1. phase = "maintenance" /\ trace' = trace BY <1>12 DEF FinishMaintenance
  <2>2. CASE StartDriver BY <1>8, <2>1, <2>2
  <2>3. CASE phase' = "idle" /\ UNCHANGED <<turn, step, pc, waiter>>
    BY <2>1, <2>3, PositionKept DEF DriverMatchesLog, FrameMatchesPhase
  <2> QED BY <1>12, <2>2, <2>3 DEF FinishMaintenance
<1> HIDE DEF Kept
<1> QED BY <1>1, <1>2, <1>3, <1>4, <1>5, <1>6, <1>7, <1>10, <1>11, <1>12 DEF Environment

\* What does: one step per point of the driver.
LEMMA DriverKeepsMatch ==
    ASSUME TypeOK, DriverMatchesLog, Driver
    PROVE  DriverMatchesLog' /\ [SessionGrammar!Next]_trace
<1> USE DEF phaseVars, InTurn, InStep
<1> DEFINE Goal == DriverMatchesLog' /\ [SessionGrammar!Next]_trace
<1>0. pc # "none" => phase = "running" BY DEF DriverMatchesLog, FrameMatchesPhase
<1>a. ASSUME NEW boundary, Claim(boundary), InTurn, ~InStep, UNCHANGED <<phase, turn, step, trace>>
      PROVE  Goal
  BY <1>a, <1>0, PositionKept DEF Claim
<1>1. CASE OpenTurn
  <2>1. CASE Log(Boundary("turn/start", turn + 1, None)) /\ turn' = turn + 1 /\ pc' = "turnOpen"
    <3>1. ~InTurn /\ ~InStep /\ step = 0 /\ UNCHANGED <<phase, step>>
      BY <1>1 DEF OpenTurn, DriverMatchesLog, FrameMatchesPhase
    <3>2. SessionGrammar!StartTurn /\
          trace' = [trace EXCEPT !.openTurn = turn + 1, !.nextStep = 1]
      BY <2>1, <3>1, TurnStarts
    <3>3. DriverMatchesLog'
      BY <1>0, <1>1, <2>1, <3>1, <3>2
         DEF OpenTurn, DriverMatchesLog, FrameMatchesPhase, TraceMatchesPhase,
             TypeOK, ValueTypes, Trace, None
    <3> QED BY <3>2, <3>3 DEF SessionGrammar!Next
  <2>2. CASE LeaveTurns("throw") /\ UNCHANGED <<turn, trace>>
    BY <1>0, <1>1, <2>2, PositionKept DEF OpenTurn, LeaveTurns
  <2> QED BY <1>1, <2>1, <2>2 DEF OpenTurn
<1>2. CASE ClaimFirst
  <2>1. InTurn /\ ~InStep /\ UNCHANGED <<phase, turn, step>> BY <1>2 DEF ClaimFirst
  <2>2. Fail \/ (Claim("next-turn") /\ trace' = trace) BY <1>2 DEF ClaimFirst
  <2> QED BY <1>a, <2>1, <2>2, FailKeepsMatch
<1>3. CASE PreStep
  <2>1. InTurn /\ ~InStep /\ UNCHANGED <<phase, turn, step>> BY <1>3 DEF PreStep
  <2>2. CASE PreStepThrows BY <2>1, <2>2, FailKeepsMatch DEF PreStepThrows
  <2>3. CASE pc' = "proposed" /\ trace' = trace
    BY <1>0, <1>3, <2>1, <2>3, PositionKept DEF PreStep
  <2> QED BY <1>3, <2>2, <2>3 DEF PreStep, PreStepRejects, PreStepEnters
<1>13. CASE UseDecision
  <2>1. InTurn /\ ~InStep /\ UNCHANGED <<phase, turn>> BY <1>13 DEF UseDecision
  <2>2. CASE AbandonStep BY <2>1, <2>2, FailKeepsMatch DEF AbandonStep
  <2>3. CASE EndWithoutStep
    <3>1. step' = step /\ \E reason, how : CloseTurn(reason, how)
      BY <2>3 DEF EndWithoutStep
    <3> QED BY <2>1, <3>1, TurnEndKeepsMatch
  <2>4. CASE StartStep
    <3>1. step' = step + 1 /\ pc' = "stepOpen" BY <2>4 DEF StartStep
    <3>2. SessionGrammar!StartStep /\ trace' = [trace EXCEPT !.openStep = step + 1]
      BY <2>1, <2>4, StepStarts DEF StartStep
    <3>3. DriverMatchesLog'
      BY <1>0, <2>1, <3>1, <3>2, <1>13
         DEF UseDecision, DriverMatchesLog, FrameMatchesPhase, TraceMatchesPhase,
             TypeOK, ValueTypes, Trace, None
    <3> QED BY <3>2, <3>3 DEF SessionGrammar!Next
  <2> QED BY <1>13, <2>2, <2>3, <2>4 DEF UseDecision
<1>4. CASE EnterStep
  <2>1. InTurn /\ InStep /\ UNCHANGED <<phase, turn, step>> BY <1>4 DEF EnterStep
  <2>2. CASE Log(Boundary("step/end", turn, step)) /\ pc' = "stepClosed"
    BY <2>1, <2>2, StepEndKeepsMatch
  <2>3. CASE pc' = "generating" /\ trace' = trace
    BY <1>0, <1>4, <2>1, <2>3, PositionKept DEF EnterStep
  <2> QED BY <1>4, <2>2, <2>3 DEF EnterStep
<1>5. CASE Generate
  <2>1. InTurn /\ InStep /\ UNCHANGED <<phase, turn, step>> BY <1>5 DEF Generate
  <2>2. CASE StepThrows BY <2>1, <2>2, StepEndKeepsMatch DEF StepThrows
  <2>3. CASE Log(Boundary("assistant/message", turn, step)) /\ pc' \in {"stepDone", "tools"}
    BY <1>0, <1>5, <2>1, <2>3, MessageLogged, PositionKept DEF Generate
  <2> QED BY <1>5, <2>2, <2>3 DEF Generate, StepReturns, StepCallsTools
<1>6. CASE RunTools
  <2>1. InTurn /\ InStep /\ UNCHANGED <<phase, turn, step>> BY <1>6 DEF RunTools
  <2>2. Log(Boundary("step/end", turn, step)) /\ pc' = "stepClosed"
    BY <1>6 DEF RunTools, StepThrows
  <2> QED BY <2>1, <2>2, StepEndKeepsMatch
<1>7. CASE EndStep
  <2>1. InTurn /\ InStep /\ UNCHANGED <<phase, turn, step>> BY <1>7 DEF EndStep
  <2> QED BY <1>7, <2>1, StepEndKeepsMatch DEF EndStep
<1>8. CASE AfterStep
  <2>1. InTurn /\ ~InStep /\ UNCHANGED <<phase, turn, step>> BY <1>8 DEF AfterStep
  <2>2. CASE Fail BY <2>1, <2>2, FailKeepsMatch
  <2>3. CASE pc' = "stopping" /\ trace' = trace
    BY <1>0, <1>8, <2>1, <2>3, PositionKept DEF AfterStep
  <2>4. CASE Claim("next-step") /\ trace' = trace BY <1>a, <2>1, <2>4
  <2> QED BY <1>8, <2>2, <2>3, <2>4 DEF AfterStep
<1>9. CASE Stop
  <2>1. InTurn /\ ~InStep /\ UNCHANGED <<phase, turn, step>> BY <1>9 DEF Stop
  <2>2. CASE Fail BY <2>1, <2>2, FailKeepsMatch
  <2>3. CASE CloseTurn(turnEnds, "normal") BY <2>1, <2>3, TurnEndKeepsMatch
  <2>4. CASE Claim("next-step") /\ trace' = trace BY <1>a, <2>1, <2>4
  <2> QED BY <1>9, <2>2, <2>3, <2>4 DEF Stop
<1>10. CASE CloseFailedTurn
  <2>1. InTurn /\ ~InStep /\ UNCHANGED <<phase, turn, step>> BY <1>10 DEF CloseFailedTurn
  <2> QED BY <1>10, <2>1, TurnEndKeepsMatch DEF CloseFailedTurn
<1>11. CASE LeaveTurn
  <2>1. pc = "turnClosed" /\ UNCHANGED <<phase, turn, trace>> BY <1>11 DEF LeaveTurn
  <2>2. CASE pc' = "reserved" /\ step' = 0
    BY <1>0, <2>1, <2>2 DEF DriverMatchesLog, FrameMatchesPhase, TraceMatchesPhase
  <2>3. CASE LeaveTurns(exit) /\ step' = step
    BY <1>0, <2>1, <2>3, PositionKept DEF LeaveTurns
  <2> QED BY <1>11, <2>2, <2>3 DEF LeaveTurn
<1>12. CASE Retire
  <2>1. UNCHANGED <<turn, trace>> /\ pc = "retiring" /\ pc' = "none" /\ phase' = "idle"
    BY <1>12 DEF Retire
  <2>2. DriverMatchesLog'
    BY <2>1 DEF DriverMatchesLog, FrameMatchesPhase, TraceMatchesPhase
  <2> QED BY <2>1, <2>2
<1> QED BY <1>1, <1>2, <1>3, <1>4, <1>5, <1>6, <1>7, <1>8, <1>9, <1>10, <1>11, <1>12,
           <1>13
        DEF Driver

LEMMA InitMatches == Init => DriverMatchesLog /\ SessionGrammar!Init
BY DEF Init, DriverMatchesLog, FrameMatchesPhase, TraceMatchesPhase, InTurn, InStep,
       FreshTrace, None, SessionGrammar!Init, SessionGrammar!FreshTrace, SessionGrammar!None

LEMMA StepMatches ==
    TypeOK /\ DriverMatchesLog /\ [Next]_vars
        => DriverMatchesLog' /\ [SessionGrammar!Next]_trace
<1> SUFFICES ASSUME TypeOK, DriverMatchesLog, [Next]_vars
             PROVE  DriverMatchesLog' /\ [SessionGrammar!Next]_trace
  OBVIOUS
<1>1. CASE Driver BY <1>1, DriverKeepsMatch
<1>2. CASE Environment \/ Wake \/ ReplayWake \/ FinishMaintenance \/ WaiterAwakes
  BY <1>2, OthersKeepMatch
<1>3. CASE UNCHANGED vars
  BY <1>3, PositionKept
     DEF vars, phaseVars, frameVars, InTurn, InStep, DriverMatchesLog, FrameMatchesPhase
<1> QED BY <1>1, <1>2, <1>3 DEF Next, Scheduler

\* The driver never loses its place: in every reachable state the phase object and the
\* log written so far name the same open turn and step, and number the next ones alike.
THEOREM DriverNeverLosesItsPlace == Spec => []DriverMatchesLog
<1>1. Init => DriverMatchesLog BY InitMatches
<1>2. TypeOK /\ DriverMatchesLog /\ [Next]_vars => DriverMatchesLog' BY StepMatches
<1> QED BY <1>1, <1>2, TypeCorrect, PTL DEF Spec

\* Refinement: whatever plugins send, cancel, veto or throw, the log the driver writes is
\* one the session's invariant companion accepts event by event.
THEOREM LogGrammar == Spec => ImplementsSessionLog
<1>1. Init => SessionGrammar!Init BY InitMatches
<1>2. TypeOK /\ DriverMatchesLog /\ [Next]_vars => [SessionGrammar!Next]_trace
  BY StepMatches
<1> QED BY <1>1, <1>2, TypeCorrect, DriverNeverLosesItsPlace, PTL
       DEF Spec, ImplementsSessionLog, SessionGrammar!Spec

-----------------------------------------------------------------------------
(***************************************************************************)
(* The wake latch.                                                         *)
(***************************************************************************)

\* A cancel either clears the latch or leaves behind it an abort no disposal asked for.
LEMMA CancelKeepsLatch ==
    ASSUME TypeOK, LatchOnlyBehindAbort, NEW cause \in Causes, NEW keepInbox \in BOOLEAN,
           Cancel(cause, keepInbox), cause = "disposed" => ~keepInbox
    PROVE  LatchOnlyBehindAbort'
<1> USE DEF LatchOnlyBehindAbort, Aborted, Cancel, Causes, NoAbort
<1>1. CASE ~keepInbox
  <2>1. ~wakeRequested' BY <1>1 DEF ClearInbox
  <2> QED BY <2>1
<1>2. CASE keepInbox
  <2>1. cause = "user" /\ phase' = phase /\ wakeRequested' = wakeRequested
    BY <1>2 DEF inboxVars
  <2>2. abort' = abort \/ abort' = "user" BY <2>1 DEF AbortActivity
  <2> QED BY <2>1, <2>2
<1> QED BY <1>1, <1>2

LEMMA WakeKeepsLatch ==
    ASSUME TypeOK, LatchOnlyBehindAbort, NEW wakeAfterAbort \in BOOLEAN,
           WakeDriver(wakeAfterAbort), wakeAfterAbort => phase = "idle" \/ Aborted
    PROVE  LatchOnlyBehindAbort'
<1> USE DEF LatchOnlyBehindAbort, Aborted, TypeOK, ValueTypes
<1>1. CASE StartDriver BY <1>1 DEF StartDriver
<1>2. CASE phase # "idle" /\ LatchWake(wakeAfterAbort) BY <1>2 DEF LatchWake, Latches
<1> QED BY <1>1, <1>2 DEF WakeDriver

\* What a send found when it began still holds when it wakes the driver: nobody resumes
\* in between.
SendStillAborted == afterAbort => ~NotSending /\ phase # "idle" /\ Aborted

LatchInv == LatchOnlyBehindAbort /\ SendStillAborted

LEMMA LatchStep == TypeOK /\ LatchInv /\ DriverMatchesLog /\ [Next]_vars => LatchInv'
<1> SUFFICES ASSUME TypeOK, LatchInv, DriverMatchesLog, [Next]_vars PROVE LatchInv'
  OBVIOUS
<1> USE DEF LatchInv, SendStillAborted, NotSending, Resumable, Reachable, phaseVars,
            windowVars, idleVars
<1>0. /\ wakeRequested \in BOOLEAN /\ afterAbort \in BOOLEAN
      /\ phase \in {"idle", "maintenance", "running"} /\ NoMessage \notin Messages
      /\ pc # "none" => phase = "running"
  BY AgentLoopAssumption DEF TypeOK, ValueTypes, FlagTypes, DriverMatchesLog, FrameMatchesPhase
<1>1. ASSUME UNCHANGED <<phase, abort, wakeRequested, sending, afterAbort>> PROVE LatchInv'
  BY <1>1 DEF LatchOnlyBehindAbort, Aborted
<1>2. ASSUME NEW m \in Messages, NEW list, Send(m, list) PROVE LatchInv'
  <2>1. LatchOnlyBehindAbort' BY <1>2 DEF Send, LatchOnlyBehindAbort, Aborted
  <2>2. SendStillAborted' BY <1>0, <1>2 DEF Send, Aborted
  <2> QED BY <2>1, <2>2
<1>3. ASSUME NEW m \in Messages, NEW list, Stage(m, list) PROVE LatchInv'
  BY <1>1, <1>3 DEF Stage
<1>4. ASSUME NEW m \in Messages, RemovePending(m) PROVE LatchInv'
  BY <1>1, <1>4 DEF RemovePending
<1>5. ASSUME NEW m \in Messages, NEW n \in Messages, ReplacePending(m, n) PROVE LatchInv'
  BY <1>1, <1>5 DEF ReplacePending
<1>6. ASSUME NEW cause \in Causes, NEW keepInbox \in BOOLEAN, Cancel(cause, keepInbox),
             cause = "disposed" => ~keepInbox
      PROVE  LatchInv'
  <2>1. LatchOnlyBehindAbort' BY <1>6, CancelKeepsLatch
  <2>2. UNCHANGED <<phase, sending, afterAbort>> BY <1>6 DEF Cancel
  <2>3. Aborted => Aborted' BY <1>6 DEF Cancel, AbortActivity, Aborted
  <2>4. SendStillAborted' BY <2>2, <2>3
  <2> QED BY <2>1, <2>4
<1>7. CASE Dispose BY <1>6, <1>7 DEF Dispose, Causes
<1>8. ASSUME NEW keepInbox \in BOOLEAN, CancelByUser(keepInbox) PROVE LatchInv'
  BY <1>6, <1>8 DEF CancelByUser, Causes
<1>9. CASE RunMaintenance
  BY <1>0, <1>9 DEF RunMaintenance, LatchOnlyBehindAbort, Aborted
<1>10. CASE CallWhenIdle \/ WaiterAwakes
  BY <1>1, <1>10 DEF CallWhenIdle, WaiterAwakes
<1>11. CASE FinishMaintenance
  <2>1. wakeRequested' = FALSE /\ afterAbort' = FALSE
    BY <1>0, <1>11 DEF FinishMaintenance, StartDriver
  <2> QED BY <2>1 DEF LatchOnlyBehindAbort
<1>12. CASE Wake
  <2>1. LatchOnlyBehindAbort' BY <1>0, <1>12, WakeKeepsLatch DEF Wake
  <2> QED BY <2>1, <1>12 DEF Wake
<1>13. CASE ReplayWake
  <2>1. CASE WakeDriver(FALSE)
    <3>1. LatchOnlyBehindAbort' BY <2>1, WakeKeepsLatch
    <3>2. afterAbort' = FALSE BY <1>0, <1>13 DEF ReplayWake
    <3> QED BY <3>1, <3>2
  <2>2. CASE UNCHANGED <<phaseVars, pc, waiter>>
    BY <1>1, <1>13, <2>2 DEF ReplayWake
  <2> QED BY <1>13, <2>1, <2>2 DEF ReplayWake
<1>14. CASE LeaveTurn
  <2>1. afterAbort' = FALSE /\ phase' = phase BY <1>0, <1>14 DEF LeaveTurn
  <2>2. \/ wakeRequested' = FALSE
        \/ UNCHANGED <<abort, wakeRequested>>
    BY <1>14 DEF LeaveTurn
  <2> QED BY <2>1, <2>2 DEF LatchOnlyBehindAbort, Aborted
<1>15. CASE Retire
  <2>1. wakeRequested' = FALSE /\ afterAbort' = FALSE BY <1>0, <1>15 DEF Retire
  <2> QED BY <2>1 DEF LatchOnlyBehindAbort
<1>16. CASE \/ OpenTurn \/ ClaimFirst \/ PreStep \/ UseDecision \/ EnterStep \/ Generate
            \/ RunTools \/ EndStep \/ AfterStep \/ Stop \/ CloseFailedTurn
  BY <1>1, <1>16 DEF OpenTurn, ClaimFirst, PreStep, UseDecision, EnterStep, Generate, RunTools,
                     EndStep, AfterStep, Stop, CloseFailedTurn
<1>17. CASE UNCHANGED vars BY <1>1, <1>17 DEF vars
<1> QED BY <1>2, <1>3, <1>4, <1>5, <1>7, <1>8, <1>9, <1>10, <1>11, <1>12, <1>13, <1>14,
           <1>15, <1>16, <1>17
        DEF Next, Environment, Scheduler, Driver

\* A wake is only ever latched behind maintenance or behind an activity somebody aborted
\* for another reason than disposal: no live driver leaves a stale latch behind.
THEOREM LatchIsNeverStale == Spec => []LatchOnlyBehindAbort
<1>1. Init => LatchInv
  BY DEF Init, LatchInv, SendStillAborted, LatchOnlyBehindAbort
<1>2. TypeOK /\ DriverMatchesLog /\ LatchInv /\ [Next]_vars => LatchInv' BY LatchStep
<1>3. LatchInv => LatchOnlyBehindAbort BY DEF LatchInv
<1> QED BY <1>1, <1>2, <1>3, TypeCorrect, DriverNeverLosesItsPlace, PTL DEF Spec

-----------------------------------------------------------------------------
(***************************************************************************)
(* One ordinary message per turn.                                          *)
(***************************************************************************)

\* Messages are claimed for the current turn or for an earlier one, and never before the
\* first claim of a turn for that turn.
HomesAreBehind ==
    \A m \in Messages : home[m] <= turn /\ (pc = "turnOpen" => home[m] < turn)

HomeInv == HomesAreBehind /\ OneOrdinaryMessagePerTurn

\* A claim at a step boundary leaves the next-turn list alone.
LEMMA StepClaimsNoHome ==
    ASSUME TypeOK, Claim("next-step")
    PROVE  home' = home /\ pc' = "preStep"
BY DEF Claim, TypeOK, ValueTypes

\* The claim that opens a turn takes one message, and none had that turn before.
LEMMA ClaimFirstKeepsHomes ==
    ASSUME TypeOK, HomeInv, ClaimFirst
    PROVE  HomeInv'
<1> USE DEF HomeInv, HomesAreBehind, OneOrdinaryMessagePerTurn, TypeOK, ValueTypes
<1>1. pc = "turnOpen" /\ turn' = turn /\ pc' # "turnOpen"
  BY DEF ClaimFirst, phaseVars, Fail, CloseTurn, Claim
<1>2. CASE home' = home
  BY <1>1, <1>2
<1>3. CASE Claim("next-turn")
  <2>1. PICK ordinary \in SUBSET Messages :
           /\ \A m, n \in ordinary : m = n
           /\ home' = [m \in Messages |-> IF m \in ordinary THEN turn ELSE home[m]]
    <3>1. CASE nextTurn = <<>>
      BY <1>3, <3>1, Zenon DEF Claim
    <3>2. CASE nextTurn # <<>>
      <4>1. Head(nextTurn) \in Messages
        BY <3>2
      <4>2. home' = [m \in Messages |-> IF m \in {Head(nextTurn)} THEN turn ELSE home[m]]
        BY <1>3, <3>2 DEF Claim
      <4>3. {Head(nextTurn)} \in SUBSET Messages
        BY <4>1
      <4>4. QED
        BY <4>2, <4>3
    <3>3. QED
      BY <3>1, <3>2
  <2>2. HomesAreBehind'
    BY <1>1, <2>1
  <2>3. OneOrdinaryMessagePerTurn'
    BY <1>1, <2>1
  <2>4. QED
    BY <2>2, <2>3
<1>4. QED
  BY <1>2, <1>3 DEF ClaimFirst, inboxVars

LEMMA NextKeepsHomes == TypeOK /\ HomeInv /\ [Next]_vars => HomeInv'
<1> SUFFICES ASSUME TypeOK, HomeInv, [Next]_vars PROVE HomeInv'
  OBVIOUS
<1>1. ASSUME home' = home, turn' = turn, pc' = "turnOpen" => pc = "turnOpen"
      PROVE  HomeInv'
  BY <1>1 DEF HomeInv, HomesAreBehind, OneOrdinaryMessagePerTurn
<1> USE DEF phaseVars, frameVars, inboxVars, windowVars, idleVars
<1>2. CASE OpenTurn
  <2>1. home' = home /\ (turn' = turn + 1 \/ (turn' = turn /\ pc' # "turnOpen"))
    BY <1>2 DEF OpenTurn, LeaveTurns
  <2>2. QED
    BY <2>1 DEF HomeInv, HomesAreBehind, OneOrdinaryMessagePerTurn, TypeOK, ValueTypes
<1>3. CASE ClaimFirst
  BY <1>3, ClaimFirstKeepsHomes
<1>4. CASE AfterStep \/ Stop
  <2>1. turn' = turn /\ pc' # "turnOpen"
    BY <1>4 DEF AfterStep, Stop, Fail, CloseTurn, Claim
  <2>2. home' = home
    BY <1>4, StepClaimsNoHome DEF AfterStep, Stop
  <2>3. QED
    BY <1>1, <2>1, <2>2
<1>5. CASE \/ PreStep \/ UseDecision \/ EnterStep \/ Generate \/ RunTools \/ EndStep
           \/ CloseFailedTurn \/ LeaveTurn \/ Retire
  <2>1. home' = home /\ turn' = turn
    BY <1>5 DEF PreStep, UseDecision, EnterStep, Generate, RunTools, EndStep, CloseFailedTurn,
                LeaveTurn, Retire
  <2>2. pc' # "turnOpen"
    BY <1>5 DEF PreStep, PreStepThrows, PreStepRejects, PreStepEnters, Fail, CloseTurn,
                UseDecision, EndWithoutStep, AbandonStep, StartStep, EnterStep, Generate, StepThrows,
                StepReturns, StepCallsTools, RunTools, EndStep, CloseFailedTurn, LeaveTurn, LeaveTurns, Retire
  <2>3. QED
    BY <1>1, <2>1, <2>2
<1>6. CASE Wake \/ ReplayWake \/ FinishMaintenance \/ WaiterAwakes
  <2>1. home' = home /\ turn' = turn
    BY <1>6 DEF Wake, ReplayWake, FinishMaintenance, WaiterAwakes, WakeDriver, StartDriver,
                LatchWake
  <2>2. pc' = "turnOpen" => pc = "turnOpen"
    BY <1>6 DEF Wake, ReplayWake, FinishMaintenance, WaiterAwakes, WakeDriver, StartDriver,
                LatchWake
  <2>3. QED
    BY <1>1, <2>1, <2>2
<1>7. CASE Environment
  <2>1. UNCHANGED <<home, turn, pc>>
    BY <1>7 DEF Environment, Send, Stage, Insert, RemovePending, ReplacePending, CancelByUser,
                Cancel, ClearInbox, Dispose, RunMaintenance, CallWhenIdle
  <2>2. QED
    BY <1>1, <2>1
<1>8. CASE UNCHANGED vars
  BY <1>1, <1>8 DEF vars
<1>9. QED
  BY <1>2, <1>3, <1>4, <1>5, <1>6, <1>7, <1>8 DEF Next, Scheduler, Driver

\* A follow-up is the sole ordinary message of its own turn: whatever is steered, cancelled
\* or replayed, no turn claims two messages from the next-turn list.
THEOREM FollowUpsStandAlone == Spec => []OneOrdinaryMessagePerTurn
<1>1. Init => HomeInv
  BY DEF Init, HomeInv, HomesAreBehind, OneOrdinaryMessagePerTurn, None
<1>2. HomeInv => OneOrdinaryMessagePerTurn
  BY DEF HomeInv
<1>3. QED
  BY <1>1, <1>2, NextKeepsHomes, TypeCorrect, PTL DEF Spec

-----------------------------------------------------------------------------
(***************************************************************************)
(* No stranded wake.                                                       *)
(***************************************************************************)

\* What is pending is in the inbox, and only what is pending is owed a driver.
OwedIsPending ==
    \A m \in Messages : /\ fate[m] = "pending" => m \in Pending
                        /\ wake[m] = "owed" => m \in Pending

\* As long as a message is owed a driver, one is there that has not left its turns, or a
\* wake is latched that brings the next, or is about to be replayed; and no disposal has
\* reached the activity.
SomeoneIsOwed == \E m \in Messages : wake[m] = "owed"

DriverIsComing ==
    SomeoneIsOwed =>
        /\ phase = "running" /\ pc = "retiring" => wakeRequested
        /\ phase = "maintenance" => wakeRequested \/ tail
        /\ phase = "idle" => tail
        /\ phase # "idle" => abort # "disposed"

\* The controller goes with its activity.
IdleIsNotAborted == phase = "idle" => ~Aborted

OwedInv == OwedIsPending /\ DriverIsComing /\ IdleIsNotAborted

\* The members of a list after an insertion, a removal, a replacement and a claim.
LEMMA AppendedMembers ==
    ASSUME NEW q \in Seq(Messages), NEW m \in Messages
    PROVE  ToSet(q) \cup {m} \subseteq ToSet(Append(q, m))
<1> DEFINE longer == Append(q, m)
<1>1. \A j \in DOMAIN q : j \in DOMAIN longer /\ longer[j] = q[j]
  OBVIOUS
<1>2. Len(q) + 1 \in DOMAIN longer /\ longer[Len(q) + 1] = m
  OBVIOUS
<1>3. QED
  BY <1>1, <1>2 DEF ToSet

LEMMA RemovedMembers ==
    ASSUME NEW q \in Seq(Messages), NEW i \in DOMAIN q
    PROVE  ToSet(q) \ {q[i]} \subseteq ToSet(RemoveAt(q, i))
<1> SUFFICES ASSUME NEW j \in DOMAIN q, q[j] # q[i]
             PROVE  q[j] \in ToSet(RemoveAt(q, i))
  BY DEF ToSet
<1> DEFINE front == SubSeq(q, 1, i - 1)
           back  == SubSeq(q, i + 1, Len(q))
<1>1. front \in Seq(Messages) /\ Len(front) = i - 1 /\ \A k \in 1..(i - 1) : front[k] = q[k]
  OBVIOUS
<1>2. /\ back \in Seq(Messages) /\ Len(back) = Len(q) - i
      /\ \A k \in 1..(Len(q) - i) : back[k] = q[i + k]
  OBVIOUS
<1>3. RemoveAt(q, i) = front \o back
  BY DEF RemoveAt
<1> HIDE DEF front, back
<1>4. CASE j < i
  <2>1. j \in DOMAIN (front \o back) /\ (front \o back)[j] = q[j]
    BY <1>1, <1>2, <1>4
  <2>2. QED
    BY <1>3, <2>1 DEF ToSet
<1>5. CASE j > i
  <2> DEFINE k == j - 1 - Len(front)
  <2>1. j - 1 \in 1..(Len(front) + Len(back)) /\ ~(j - 1 <= Len(front))
    BY <1>1, <1>2, <1>5
  <2>2. (front \o back)[j - 1] = back[k] /\ j - 1 \in DOMAIN (front \o back)
    BY <1>1, <1>2, <2>1
  <2>3. back[k] = q[j]
    <3>1. k \in 1..(Len(q) - i) /\ i + k = j
      BY <1>1, <1>5
    <3>2. QED
      BY <1>2, <3>1
  <2>4. QED
    BY <1>3, <2>1, <2>2, <2>3 DEF ToSet
<1>6. QED
  BY <1>4, <1>5

LEMMA ReplacedMembers ==
    ASSUME NEW q \in Seq(Messages), NEW i \in DOMAIN q, NEW n \in Messages
    PROVE  (ToSet(q) \ {q[i]}) \cup {n} \subseteq ToSet(ReplaceAt(q, i, n))
BY DEF ToSet, ReplaceAt

LEMMA TailMembers ==
    ASSUME NEW q \in Seq(Messages), q # <<>>
    PROVE  ToSet(q) \ {Head(q)} \subseteq ToSet(Tail(q))
<1> SUFFICES ASSUME NEW j \in DOMAIN q, q[j] # Head(q)
             PROVE  q[j] \in ToSet(Tail(q))
  BY DEF ToSet
<1>1. j - 1 \in 1..Len(Tail(q)) /\ Tail(q)[j - 1] = q[j]
  OBVIOUS
<1>2. QED
  BY <1>1 DEF ToSet

\* What leaves the inbox is settled, and what is settled is owed nothing.
LEMMA ClaimKeepsPending ==
    ASSUME TypeOK, OwedIsPending, NEW boundary \in {"next-turn", "next-step"}, Claim(boundary)
    PROVE  OwedIsPending' /\ \A m \in Messages : wake'[m] = "owed" => wake[m] = "owed"
<1> USE DEF TypeOK, ValueTypes
<1>1. PICK S \in SUBSET Messages :
         /\ Settle(S, "claimed")
         /\ \A m \in Messages \ S : m \in Pending => m \in Pending'
  <2>1. CASE boundary = "next-turn" /\ nextTurn # <<>>
    <3>1. Settle(nextStep \cup {Head(nextTurn)}, "claimed") /\ nextTurn' = Tail(nextTurn)
      BY <2>1 DEF Claim
    <3>2. nextStep \cup {Head(nextTurn)} \in SUBSET Messages
      BY <2>1
    <3>3. \A m \in Messages \ (nextStep \cup {Head(nextTurn)}) :
             m \in Pending => m \in Pending'
      BY <2>1, <3>1, TailMembers DEF Pending
    <3>4. QED
      BY <3>1, <3>2, <3>3
  <2>2. CASE ~(boundary = "next-turn" /\ nextTurn # <<>>)
    <3>1. Settle(nextStep \cup {}, "claimed") /\ nextTurn' = nextTurn
      BY <2>2 DEF Claim
    <3>2. QED
      BY <3>1 DEF Pending
  <2>3. QED
    BY <2>1, <2>2
<1>2. QED
  BY <1>1 DEF OwedIsPending, Settle

\* An insertion, a cancelled message and a replaced one keep what is pending in the inbox.
LEMMA InboxKeepsPending ==
    ASSUME TypeOK, OwedIsPending, NEW m \in Messages, NEW n \in Messages,
           NEW list \in {"next-turn", "next-step"},
           \/ Insert(m, list) /\ wake' = wake
           \/ RemovePending(m)
           \/ ReplacePending(m, n)
    PROVE  OwedIsPending' /\ (SomeoneIsOwed' => SomeoneIsOwed)
<1> USE DEF OwedIsPending, SomeoneIsOwed, TypeOK, ValueTypes
<1>1. CASE Insert(m, list) /\ wake' = wake
  <2>1. Pending \cup {m} \subseteq Pending'
    BY <1>1, AppendedMembers DEF Insert, Pending
  <2>2. fate' = [fate EXCEPT ![m] = "pending"]
    BY <1>1 DEF Insert
  <2>3. QED
    BY <1>1, <2>1, <2>2
<1>2. CASE RemovePending(m)
  <2>1. Pending \ {m} \subseteq Pending'
    BY <1>2, RemovedMembers DEF RemovePending, Pending
  <2>2. Settle({m}, "gone")
    BY <1>2 DEF RemovePending
  <2>3. QED
    BY <2>1, <2>2 DEF Settle
<1>3. CASE ReplacePending(m, n)
  <2>1. (Pending \ {m}) \cup {n} \subseteq Pending'
    BY <1>3, ReplacedMembers DEF ReplacePending, Pending
  <2>2. /\ fate' = [fate EXCEPT ![m] = "gone", ![n] = "pending"]
        /\ wake' = [wake EXCEPT ![m] = "none", ![n] = wake[m]]
    BY <1>3 DEF ReplacePending
  <2>3. QED
    BY <2>1, <2>2
<1>4. QED
  BY <1>1, <1>2, <1>3

\* A cancel that clears the inbox leaves nobody owed; one that keeps it is no disposal.
LEMMA CancelKeepsOwed ==
    ASSUME TypeOK, OwedInv, NEW cause \in Causes, NEW keepInbox \in BOOLEAN,
           Cancel(cause, keepInbox), cause = "disposed" => ~keepInbox
    PROVE  OwedInv'
<1> USE DEF OwedInv, OwedIsPending, DriverIsComing, SomeoneIsOwed, IdleIsNotAborted, Aborted,
            TypeOK, ValueTypes
<1>1. UNCHANGED <<phase, pc, tail>> /\ AbortActivity(cause)
  BY DEF Cancel, frameVars, windowVars
<1>2. CASE ~keepInbox
  <2>1. Settle(Pending, "gone")
    BY <1>2 DEF Cancel, ClearInbox
  <2>2. \A m \in Messages : wake'[m] # "owed" /\ fate'[m] # "pending"
    BY <2>1 DEF Settle
  <2>3. QED
    BY <1>1, <2>2 DEF AbortActivity
<1>3. CASE keepInbox
  <2>1. UNCHANGED <<nextTurn, nextStep, fate, wakeRequested>>
    BY <1>3 DEF Cancel, inboxVars
  <2>2. \A m \in Messages : wake'[m] = "owed" => wake[m] = "owed"
    BY <1>3 DEF Cancel, Park
  <2>3. cause = "user" /\ Pending' = Pending
    BY <1>3, <2>1 DEF Causes, Pending
  <2>4. QED
    BY <1>1, <2>1, <2>2, <2>3 DEF AbortActivity
<1>4. QED
  BY <1>2, <1>3

\* Nothing a plugin calls takes away the driver that is on its way.
LEMMA EnvironmentKeepsOwed ==
    ASSUME TypeOK, OwedInv, Environment
    PROVE  OwedInv'
<1> USE DEF phaseVars, frameVars, inboxVars, windowVars, idleVars
<1>1. ASSUME OwedIsPending', SomeoneIsOwed' => SomeoneIsOwed,
             UNCHANGED <<phase, pc, abort, wakeRequested, tail>>
      PROVE  OwedInv'
  BY <1>1 DEF OwedInv, DriverIsComing, IdleIsNotAborted, Aborted
<1>2. ASSUME NEW m \in Messages, NEW list \in {"next-turn", "next-step"},
             Send(m, list) \/ Stage(m, list)
      PROVE  OwedInv'
  <2>1. wake' = wake /\ \E l \in {"next-turn", "next-step"} : Insert(m, l)
    BY <1>2 DEF Send, Stage
  <2>2. OwedIsPending' /\ (SomeoneIsOwed' => SomeoneIsOwed)
    BY <2>1, InboxKeepsPending DEF OwedInv
  <2>3. QED
    BY <1>1, <1>2, <2>2 DEF Send, Stage
<1>3. ASSUME NEW m \in Messages, NEW n \in Messages, RemovePending(m) \/ ReplacePending(m, n)
      PROVE  OwedInv'
  <2>1. OwedIsPending' /\ (SomeoneIsOwed' => SomeoneIsOwed)
    BY <1>3, InboxKeepsPending DEF OwedInv
  <2>2. QED
    BY <1>1, <1>3, <2>1 DEF RemovePending, ReplacePending
<1>4. ASSUME NEW keepInbox \in BOOLEAN, CancelByUser(keepInbox)
      PROVE  OwedInv'
  BY <1>4, CancelKeepsOwed DEF CancelByUser, Causes
<1>5. CASE Dispose
  BY <1>5, CancelKeepsOwed DEF Dispose, Causes
<1>6. CASE RunMaintenance
  BY <1>6 DEF RunMaintenance, OwedInv, OwedIsPending, DriverIsComing, SomeoneIsOwed,
              IdleIsNotAborted, Aborted, NoAbort, Pending
<1>7. CASE CallWhenIdle
  BY <1>1, <1>7 DEF CallWhenIdle, OwedInv, OwedIsPending, SomeoneIsOwed, Pending
<1>8. QED
  BY <1>2, <1>3, <1>4, <1>5, <1>6, <1>7 DEF Environment

\* The driver settles what it claims, and leaves its turns only with the inbox empty, with
\* everything parked, or with a wake latched, which it hands on.
LEMMA DriverKeepsOwed ==
    ASSUME TypeOK, DriverMatchesLog, OwedInv, Driver
    PROVE  OwedInv'
<1> USE DEF phaseVars, frameVars, inboxVars, windowVars, idleVars
<1>0. phase = "running" /\ pc # "none"
  BY DEF Driver, OpenTurn, ClaimFirst, PreStep, UseDecision, EnterStep, Generate, RunTools,
         EndStep, AfterStep, Stop, CloseFailedTurn, LeaveTurn, Retire, DriverMatchesLog,
         FrameMatchesPhase
<1>1. ASSUME OwedIsPending', SomeoneIsOwed' => SomeoneIsOwed, UNCHANGED <<phase, abort>>,
             pc' # "retiring"
      PROVE  OwedInv'
  BY <1>0, <1>1 DEF OwedInv, DriverIsComing, IdleIsNotAborted, Aborted
<1>2. ASSUME UNCHANGED <<nextTurn, nextStep>>,
             \A m \in Messages : /\ fate'[m] = "pending" => fate[m] = "pending"
                                 /\ wake'[m] = "owed" => wake[m] = "owed"
      PROVE  OwedIsPending' /\ (SomeoneIsOwed' => SomeoneIsOwed)
  BY <1>2 DEF OwedInv, OwedIsPending, SomeoneIsOwed, Pending
<1>3. ASSUME NEW boundary \in {"next-turn", "next-step"}, Claim(boundary),
             UNCHANGED <<phase, abort>>
      PROVE  OwedInv'
  <2>1. OwedIsPending' /\ (SomeoneIsOwed' => SomeoneIsOwed)
    BY <1>3, ClaimKeepsPending DEF OwedInv, SomeoneIsOwed
  <2>2. QED
    BY <1>1, <1>3, <2>1 DEF Claim
<1>4. ASSUME NEW how, LeaveTurns(how),
             UNCHANGED <<phase, abort, wakeRequested, nextTurn, nextStep, fate>>
      PROVE  OwedInv'
  BY <1>0, <1>4 DEF LeaveTurns, Park, OwedInv, OwedIsPending, DriverIsComing, SomeoneIsOwed,
                    IdleIsNotAborted, Aborted, Pending
<1>5. CASE OpenTurn
  <2>1. CASE LeaveTurns("throw")
    BY <1>4, <1>5, <2>1 DEF OpenTurn
  <2>2. CASE pc' = "turnOpen" /\ wake' = wake
    BY <1>1, <1>2, <1>5, <2>2 DEF OpenTurn
  <2>3. QED
    BY <1>5, <2>1, <2>2 DEF OpenTurn
<1>6. CASE ClaimFirst \/ AfterStep \/ Stop
  <2>1. CASE Claim("next-turn") \/ Claim("next-step")
    BY <1>3, <1>6, <2>1 DEF ClaimFirst, AfterStep, Stop
  <2>2. CASE ~(Claim("next-turn") \/ Claim("next-step"))
    <3>1. UNCHANGED <<phase, abort, nextTurn, nextStep, fate, wake>>
      BY <1>6, <2>2 DEF ClaimFirst, AfterStep, Stop
    <3>2. pc' # "retiring"
      BY <1>6, <2>2 DEF ClaimFirst, AfterStep, Stop, Fail, CloseTurn
    <3>3. QED
      BY <1>1, <1>2, <3>1, <3>2
  <2>3. QED
    BY <2>1, <2>2
<1>7. CASE PreStep
  <2>1. UNCHANGED <<phase, abort, nextTurn, nextStep>> /\ pc' # "retiring"
    BY <1>7 DEF PreStep, PreStepThrows, PreStepRejects, PreStepEnters, Fail, CloseTurn
  <2>2. \E S : Settle(S, "gone")
    BY <1>7 DEF PreStep, PreStepThrows, PreStepRejects, PreStepEnters
  <2>3. QED
    BY <1>1, <1>2, <2>1, <2>2 DEF Settle
<1>12. CASE UseDecision
  <2>1. UNCHANGED <<phase, abort, nextTurn, nextStep>> /\ pc' # "retiring"
    BY <1>12 DEF UseDecision, EndWithoutStep, AbandonStep, StartStep, Fail, CloseTurn
  <2>2. (\E S : Settle(S, "gone")) \/ UNCHANGED <<fate, wake>>
    BY <1>12 DEF UseDecision, EndWithoutStep, AbandonStep, StartStep
  <2>3. QED
    BY <1>1, <1>2, <2>1, <2>2 DEF Settle
<1>8. CASE EnterStep \/ Generate \/ RunTools \/ EndStep \/ CloseFailedTurn
  <2>1. UNCHANGED <<phase, abort, nextTurn, nextStep, wake>> /\ pc' # "retiring"
    BY <1>8 DEF EnterStep, Generate, StepThrows, StepReturns, StepCallsTools, RunTools, EndStep,
                CloseFailedTurn, CloseTurn
  <2>2. \A m \in Messages : fate'[m] = "pending" => fate[m] = "pending"
    BY <1>8 DEF EnterStep, Generate, RunTools, EndStep, CloseFailedTurn
  <2>3. QED
    BY <1>1, <1>2, <2>1, <2>2
<1>9. CASE LeaveTurn
  <2>1. CASE LeaveTurns(exit)
    <3>1. UNCHANGED <<phase, abort, wakeRequested, nextTurn, nextStep, fate>>
      BY <1>9, <2>1 DEF LeaveTurn, LeaveTurns
    <3>2. QED
      BY <1>4, <2>1, <3>1
  <2>2. CASE pc' = "reserved" /\ abort' = NoAbort /\ wake' = wake
    <3>1. OwedIsPending' /\ (SomeoneIsOwed' => SomeoneIsOwed)
      BY <1>2, <1>9, <2>2 DEF LeaveTurn
    <3>2. QED
      BY <1>0, <1>9, <2>2, <3>1
         DEF LeaveTurn, OwedInv, DriverIsComing, IdleIsNotAborted, Aborted, NoAbort
  <2>3. QED
    BY <1>9, <2>1, <2>2 DEF LeaveTurn, FreshController
<1>10. CASE Retire
  <2>1. OwedIsPending' /\ (SomeoneIsOwed' => SomeoneIsOwed)
    BY <1>2, <1>10 DEF Retire
  <2>2. pc = "retiring" /\ phase' = "idle" /\ abort' = NoAbort /\ tail' = wakeRequested
    BY <1>10 DEF Retire, FreshController
  <2>3. QED
    BY <1>0, <2>1, <2>2 DEF OwedInv, DriverIsComing, IdleIsNotAborted, Aborted
<1>11. QED
  BY <1>5, <1>6, <1>7, <1>8, <1>9, <1>10, <1>12 DEF Driver

\* A wake reserves a driver or, behind an activity no disposal has reached, is latched
\* where the activity would not take its message.
LEMMA WakeKeepsOwed ==
    ASSUME TypeOK, OwedInv, LatchInv, DriverMatchesLog, Wake
    PROVE  OwedInv'
<1> USE DEF TypeOK, ValueTypes, FlagTypes
<1>1. /\ sending \in Messages
      /\ wake' = [wake EXCEPT ![sending] = Promise(sending)]
      /\ UNCHANGED <<nextTurn, nextStep, fate, tail>>
      /\ WakeDriver(afterAbort)
  BY DEF Wake, NotSending, inboxVars
<1>2. fate[sending] # "pending" => Promise(sending) = "none"
  BY DEF Promise
<1>3. OwedIsPending'
  BY <1>1, <1>2 DEF OwedInv, OwedIsPending, Pending
<1>4. CASE StartDriver
  <2>1. phase' = "running" /\ pc' = "reserved" /\ abort' = NoAbort
    BY <1>4 DEF StartDriver, FreshController
  <2>2. QED
    BY <1>3, <2>1 DEF OwedInv, DriverIsComing, IdleIsNotAborted, NoAbort
<1>5. CASE phase # "idle" /\ LatchWake(afterAbort)
  <2>1. /\ UNCHANGED <<phase, abort, pc>>
        /\ wakeRequested' = (wakeRequested \/ Latches(afterAbort))
    BY <1>5 DEF LatchWake
  <2>2. Promise(sending) = "owed" =>
           /\ ~(Aborted /\ ~Latches(afterAbort))
           /\ pc = "retiring" => wakeRequested'
    BY <1>5 DEF Promise
  <2>3. Promise(sending) = "owed" =>
           /\ abort # "disposed"
           /\ phase = "maintenance" => Latches(afterAbort)
    BY <2>2 DEF Latches, Aborted, NoAbort
  <2>4. SomeoneIsOwed' => SomeoneIsOwed \/ Promise(sending) = "owed"
    BY <1>1 DEF SomeoneIsOwed
  <2>5. DriverIsComing'
    <3>1. CASE SomeoneIsOwed
      BY <1>1, <2>1, <3>1 DEF OwedInv, DriverIsComing
    <3>2. CASE Promise(sending) = "owed"
      BY <1>1, <1>5, <2>1, <2>2, <2>3, <3>2 DEF DriverIsComing
    <3>3. QED
      BY <2>4, <3>1, <3>2 DEF DriverIsComing
  <2>6. QED
    BY <1>3, <1>5, <2>1, <2>5 DEF OwedInv, IdleIsNotAborted, Aborted
<1>6. QED
  BY <1>1, <1>4, <1>5 DEF WakeDriver

\* A latched wake that is replayed brings a driver, is latched again behind maintenance, or
\* finds nothing to be owed.
LEMMA ReplayKeepsOwed ==
    ASSUME TypeOK, OwedInv, ReplayWake
    PROVE  OwedInv'
<1> USE DEF TypeOK, ValueTypes, FlagTypes
<1>1. UNCHANGED <<nextTurn, nextStep, fate, wake>>
  BY DEF ReplayWake, inboxVars
<1>2. OwedIsPending' /\ (SomeoneIsOwed' => SomeoneIsOwed)
  BY <1>1 DEF OwedInv, OwedIsPending, SomeoneIsOwed, Pending
<1>3. CASE StartDriver
  <2>1. phase' = "running" /\ pc' = "reserved" /\ abort' = NoAbort
    BY <1>3 DEF StartDriver, FreshController
  <2>2. QED
    BY <1>2, <2>1 DEF OwedInv, DriverIsComing, IdleIsNotAborted, NoAbort
<1>4. CASE phase # "idle" /\ LatchWake(FALSE)
  BY <1>2, <1>4 DEF LatchWake, Latches, OwedInv, DriverIsComing, IdleIsNotAborted, Aborted
<1>5. CASE ~HasPending /\ UNCHANGED phaseVars
  <2>1. ~SomeoneIsOwed
    BY <1>5 DEF HasPending, OwedInv, OwedIsPending, SomeoneIsOwed, Pending, ToSet
  <2>2. QED
    BY <1>2, <1>5, <2>1 DEF phaseVars, OwedInv, DriverIsComing, IdleIsNotAborted, Aborted
<1>6. QED
  BY <1>3, <1>4, <1>5 DEF ReplayWake, WakeDriver

\* Maintenance that ends starts a driver for its latched wake; without one nobody is owed.
LEMMA MaintenanceKeepsOwed ==
    ASSUME TypeOK, OwedInv, FinishMaintenance
    PROVE  OwedInv'
<1> USE DEF TypeOK, ValueTypes, FlagTypes
<1>1. /\ UNCHANGED <<nextTurn, nextStep, fate, wake>>
      /\ phase = "maintenance" /\ ~tail
  BY DEF FinishMaintenance, inboxVars, Resumable
<1>2. OwedIsPending' /\ (SomeoneIsOwed' => SomeoneIsOwed)
  BY <1>1 DEF OwedInv, OwedIsPending, SomeoneIsOwed, Pending
<1>3. CASE StartDriver
  <2>1. phase' = "running" /\ pc' = "reserved" /\ abort' = NoAbort
    BY <1>3 DEF StartDriver, FreshController
  <2>2. QED
    BY <1>2, <2>1 DEF OwedInv, DriverIsComing, IdleIsNotAborted, NoAbort
<1>4. CASE ~(wakeRequested /\ HasPending) /\ phase' = "idle" /\ abort' = NoAbort
  <2>1. ~SomeoneIsOwed
    BY <1>1, <1>4
       DEF HasPending, OwedInv, OwedIsPending, DriverIsComing, SomeoneIsOwed, Pending, ToSet
  <2>2. QED
    BY <1>2, <1>4, <2>1 DEF OwedInv, DriverIsComing, IdleIsNotAborted, Aborted, NoAbort
<1>5. QED
  BY <1>3, <1>4 DEF FinishMaintenance, FreshController

LEMMA NextKeepsOwed ==
    TypeOK /\ DriverMatchesLog /\ LatchInv /\ OwedInv /\ [Next]_vars => OwedInv'
<1> SUFFICES ASSUME TypeOK, DriverMatchesLog, LatchInv, OwedInv, [Next]_vars PROVE OwedInv'
  OBVIOUS
<1>1. CASE WaiterAwakes \/ UNCHANGED vars
  BY <1>1 DEF WaiterAwakes, vars, phaseVars, frameVars, inboxVars, windowVars, OwedInv,
              OwedIsPending, DriverIsComing, SomeoneIsOwed, IdleIsNotAborted, Aborted, Pending
<1>2. QED
  BY <1>1, EnvironmentKeepsOwed, DriverKeepsOwed, WakeKeepsOwed, ReplayKeepsOwed,
     MaintenanceKeepsOwed DEF Next, Scheduler

\* When the agent is at rest no message waits whose sender was promised a driver, and no
\* wake is latched too many, for every number of messages, whatever plugins send, replace,
\* cancel, maintain or dispose in whichever window.
THEOREM NoWakeIsStranded == Spec => []NoStrandedWake
<1>1. Init => OwedInv /\ LatchInv
  BY DEF Init, OwedInv, OwedIsPending, DriverIsComing, SomeoneIsOwed, IdleIsNotAborted,
         Aborted, LatchInv, SendStillAborted, LatchOnlyBehindAbort
<1>2. OwedInv /\ LatchInv => NoStrandedWake
  BY DEF OwedInv, LatchInv, DriverIsComing, SomeoneIsOwed, NoStrandedWake, AtRest
<1>3. QED
  BY <1>1, <1>2, NextKeepsOwed, LatchStep, TypeCorrect, DriverNeverLosesItsPlace, PTL DEF Spec

-----------------------------------------------------------------------------
(***************************************************************************)
(* whenIdle() and the outcome of a turn.                                   *)
(***************************************************************************)

\* activityDone is resolved only at rest.
ActivityIsOpen == phase # "idle" \/ tail => activityOpen

LEMMA NextKeepsActivity == TypeOK /\ ActivityIsOpen /\ [Next]_vars => ActivityIsOpen'
<1> SUFFICES ASSUME TypeOK, ActivityIsOpen, [Next]_vars PROVE ActivityIsOpen'
  OBVIOUS
<1> USE DEF ActivityIsOpen, phaseVars, frameVars, inboxVars, windowVars, idleVars
<1>1. CASE Environment
  BY <1>1 DEF Environment, Send, Stage, RemovePending, ReplacePending, CancelByUser, Cancel,
              Dispose, RunMaintenance, NewActivity, CallWhenIdle
<1>2. CASE Retire
  BY <1>2 DEF Retire
<1>3. CASE Driver /\ ~Retire
  BY <1>3 DEF Driver, OpenTurn, ClaimFirst, PreStep, UseDecision, EnterStep, Generate,
              RunTools, EndStep, AfterStep, Stop, CloseFailedTurn, LeaveTurn
<1>4. CASE Wake \/ ReplayWake
  BY <1>4 DEF Wake, ReplayWake, WakeDriver, StartDriver, LatchWake, NewActivity
<1>5. CASE FinishMaintenance
  BY <1>5 DEF FinishMaintenance, Resumable, StartDriver, NewActivity
<1>6. CASE WaiterAwakes \/ UNCHANGED vars
  BY <1>6 DEF WaiterAwakes, vars
<1>7. QED
  BY <1>1, <1>2, <1>3, <1>4, <1>5, <1>6 DEF Next, Scheduler

LEMMA OnlyWaitersFinishWaiting ==
    ASSUME ActivityIsOpen, [Next]_vars, waiter' = "done", waiter # "done"
    PROVE  phase = "idle" /\ ~tail
<1> USE DEF phaseVars, frameVars, inboxVars, windowVars, idleVars
<1>1. WaiterAwakes
  BY DEF Next, Environment, Send, Stage, RemovePending, ReplacePending, CancelByUser, Cancel,
         Dispose, RunMaintenance, NewActivity, CallWhenIdle, Scheduler, Driver, OpenTurn,
         ClaimFirst, PreStep, UseDecision, EnterStep, Generate, RunTools, EndStep, AfterStep,
         Stop, CloseFailedTurn, LeaveTurn, Retire, Wake, ReplayWake, WakeDriver, StartDriver,
         LatchWake, FinishMaintenance, vars
<1>2. QED
  BY <1>1 DEF WaiterAwakes, ActivityIsOpen, Resumable

\* whenIdle() resolves only at rest, however often work replaced work while it waited.
THEOREM IdleIsQuiescent == Spec => WhenIdleMeansQuiescent
<1>1. Init => ActivityIsOpen
  BY DEF Init, ActivityIsOpen
<1>2. ActivityIsOpen /\ [Next]_vars
        => [waiter' = "done" /\ waiter # "done" => phase = "idle" /\ ~tail]_vars
  BY OnlyWaitersFinishWaiting
<1>3. QED
  BY <1>1, <1>2, NextKeepsActivity, TypeCorrect, PTL DEF Spec, WhenIdleMeansQuiescent

\* The outcome is decided only as the turn closes; a truncated step outlives later ones.
OutcomeSoFar ==
    /\ pc \in {"none", "reserved", "retiring"} => turnEnds = "none" /\ ~truncated
    /\ InTurn /\ pc # "failed" =>
         turnEnds \in {"none", "completed", "max-tokens"} /\ (truncated => turnEnds = "max-tokens")

\* As long as a turn is open, its signal is aborted unheard just when the turn no longer
\* looks: it came to the last look with the signal clear.
LastLookWasClear ==
    InTurn => (unheard <=> Aborted /\ PastLastLook)

\* Nothing is unheard on a signal that is not aborted.
UnheardIsAborted == ~Aborted => ~unheard

OutcomeInv == OutcomeSoFar /\ LastLookWasClear /\ UnheardIsAborted

\* The steps of the driver that do not close the turn.
LEMMA DriverKeepsOutcome ==
    ASSUME TypeOK, OutcomeSoFar, Driver
    PROVE  OutcomeSoFar'
<1> USE DEF OutcomeSoFar, InTurn, frameVars
<1>1. CASE OpenTurn        BY <1>1 DEF OpenTurn, LeaveTurns, DropFrame
<1>2. CASE ClaimFirst      BY <1>2 DEF ClaimFirst, Fail, CloseTurn, Claim
<1>3. CASE PreStep
  BY <1>3 DEF PreStep, PreStepThrows, PreStepRejects, PreStepEnters, Fail, CloseTurn
<1>4. CASE UseDecision
  BY <1>4 DEF UseDecision, EndWithoutStep, AbandonStep, StartStep, Fail, CloseTurn
<1>5. CASE EnterStep       BY <1>5 DEF EnterStep
<1>6. CASE Generate
  BY <1>6 DEF Generate, StepThrows, StepReturns, StepCallsTools, Outcome, TypeOK, FlagTypes
<1>7. CASE RunTools        BY <1>7 DEF RunTools, StepThrows, Outcome
<1>8. CASE EndStep         BY <1>8 DEF EndStep
<1>9. CASE AfterStep       BY <1>9 DEF AfterStep, Fail, CloseTurn, Claim
<1>10. CASE Stop           BY <1>10 DEF Stop, Fail, CloseTurn, Claim
<1>11. CASE CloseFailedTurn BY <1>11 DEF CloseFailedTurn, CloseTurn
<1>12. CASE LeaveTurn      BY <1>12 DEF LeaveTurn, LeaveTurns, DropFrame
<1>13. CASE Retire         BY <1>13 DEF Retire
<1>14. QED
  BY <1>1, <1>2, <1>3, <1>4, <1>5, <1>6, <1>7, <1>8, <1>9, <1>10, <1>11, <1>12, <1>13
     DEF Driver

\* The driver comes to its last look at a signal that is not aborted.
LEMMA DriverLooks ==
    ASSUME TypeOK, LastLookWasClear, UnheardIsAborted, Driver
    PROVE  LastLookWasClear' /\ UnheardIsAborted'
<1> USE DEF LastLookWasClear, UnheardIsAborted, InTurn, PastLastLook, Aborted, phaseVars
<1>1. CASE OpenTurn        BY <1>1 DEF OpenTurn, LeaveTurns
<1>2. CASE ClaimFirst      BY <1>2 DEF ClaimFirst, Fail, CloseTurn, Claim
<1>3. CASE PreStep
  BY <1>3 DEF PreStep, PreStepThrows, PreStepRejects, PreStepEnters, Fail, CloseTurn
<1>4. CASE UseDecision
  BY <1>4 DEF UseDecision, EndWithoutStep, AbandonStep, StartStep, Fail, CloseTurn
<1>5. CASE EnterStep       BY <1>5 DEF EnterStep
<1>6. CASE Generate        BY <1>6 DEF Generate, StepThrows, StepReturns, StepCallsTools
<1>7. CASE RunTools        BY <1>7 DEF RunTools, StepThrows
<1>8. CASE EndStep         BY <1>8 DEF EndStep
<1>9. CASE AfterStep       BY <1>9 DEF AfterStep, Fail, CloseTurn, Claim
<1>10. CASE Stop           BY <1>10 DEF Stop, Fail, CloseTurn, Claim
<1>11. CASE CloseFailedTurn BY <1>11 DEF CloseFailedTurn, CloseTurn
<1>12. CASE LeaveTurn      BY <1>12 DEF LeaveTurn, LeaveTurns, FreshController
<1>13. CASE Retire         BY <1>13 DEF Retire, FreshController
<1>14. QED
  BY <1>1, <1>2, <1>3, <1>4, <1>5, <1>6, <1>7, <1>8, <1>9, <1>10, <1>11, <1>12, <1>13
     DEF Driver

LEMMA NextKeepsOutcome ==
    TypeOK /\ DriverMatchesLog /\ OutcomeInv /\ [Next]_vars => OutcomeInv'
<1> SUFFICES ASSUME TypeOK, DriverMatchesLog, OutcomeInv, [Next]_vars PROVE OutcomeInv'
  OBVIOUS
<1> USE DEF OutcomeInv, frameVars
<1>1. CASE Driver
  BY <1>1, DriverKeepsOutcome, DriverLooks
<1>2. ASSUME UNCHANGED <<turnEnds, truncated>>, pc' = pc \/ (pc = "none" /\ pc' = "reserved")
      PROVE  OutcomeSoFar'
  BY <1>2 DEF OutcomeSoFar, InTurn
<1>3. phase # "running" <=> pc = "none"
  BY DEF DriverMatchesLog, FrameMatchesPhase
<1>4. ASSUME UNCHANGED <<pc, turnEnds, decision, step, abort, unheard>>
      PROVE  LastLookWasClear' /\ UnheardIsAborted'
  BY <1>4 DEF LastLookWasClear, UnheardIsAborted, InTurn, PastLastLook, OpensStep, Aborted
<1>5. ASSUME ~InTurn', FreshController
      PROVE  LastLookWasClear' /\ UnheardIsAborted'
  BY <1>5 DEF LastLookWasClear, UnheardIsAborted, FreshController, Aborted
<1>6. ASSUME NEW cause \in Causes, NEW keepInbox, Cancel(cause, keepInbox)
      PROVE  LastLookWasClear' /\ UnheardIsAborted'
  <2>1. UNCHANGED <<phase, pc, turnEnds, decision, step>> /\ AbortActivity(cause)
    BY <1>6 DEF Cancel
  <2>2. CASE UNCHANGED <<abort, unheard>> BY <1>4, <2>1, <2>2
  <2>3. CASE abort' = cause /\ unheard' = PastLastLook
    <3>1. Aborted' /\ (PastLastLook' <=> PastLastLook)
      BY <2>1, <2>3 DEF Aborted, NoAbort, Causes, PastLastLook, OpensStep
    <3> QED BY <2>3, <3>1 DEF LastLookWasClear, UnheardIsAborted
  <2> QED BY <2>1, <2>2, <2>3 DEF AbortActivity
<1>7. ASSUME NEW cause \in Causes, NEW keepInbox, Cancel(cause, keepInbox)
      PROVE  OutcomeInv'
  BY <1>2, <1>6, <1>7 DEF Cancel
<1>8. CASE Environment
  <2>1. CASE \E keepInbox \in BOOLEAN : CancelByUser(keepInbox)
    BY <1>7, <2>1 DEF CancelByUser, Causes
  <2>2. CASE Dispose BY <1>7, <2>2 DEF Dispose, Causes
  <2>3. CASE UNCHANGED <<pc, turnEnds, truncated, decision, step, abort, unheard>>
    BY <1>2, <1>4, <2>3
  <2> QED
    BY <1>8, <2>1, <2>2, <2>3 DEF Environment, Send, Stage, RemovePending, ReplacePending,
       RunMaintenance, CallWhenIdle, phaseVars
<1>9. ASSUME StartDriver, phase # "running", UNCHANGED <<turnEnds, truncated>>
      PROVE  OutcomeInv'
  BY <1>2, <1>3, <1>5, <1>9 DEF StartDriver, InTurn
<1>10. ASSUME NEW wakeAfterAbort, WakeDriver(wakeAfterAbort),
              UNCHANGED <<turnEnds, truncated, decision>>
       PROVE  OutcomeInv'
  BY <1>2, <1>4, <1>9, <1>10 DEF WakeDriver, LatchWake
<1>11. CASE Wake BY <1>10, <1>11 DEF Wake
<1>12. CASE ReplayWake BY <1>2, <1>4, <1>10, <1>12 DEF ReplayWake, phaseVars
<1>13. CASE FinishMaintenance
  <2>1. CASE StartDriver BY <1>9, <1>13, <2>1 DEF FinishMaintenance
  <2>2. CASE FreshController /\ pc' = pc
    BY <1>2, <1>3, <1>5, <1>13, <2>2 DEF FinishMaintenance, InTurn
  <2> QED BY <1>13, <2>1, <2>2 DEF FinishMaintenance
<1>14. CASE WaiterAwakes \/ UNCHANGED vars
  BY <1>2, <1>4, <1>14 DEF WaiterAwakes, vars, phaseVars
<1>15. QED
  BY <1>1, <1>8, <1>11, <1>12, <1>13, <1>14 DEF Next, Scheduler

\* Only the driver closes a turn, at a point whose outcome heard the signal or at one past
\* the last look at it.
LEMMA ClosingIsTruthful ==
    ASSUME TypeOK, DriverMatchesLog, OutcomeInv, [Next]_vars,
           pc # "turnClosed", pc' = "turnClosed"
    PROVE  /\ turnEnds' = "aborted" <=> Aborted /\ ~unheard
           /\ truncated => turnEnds' # "completed"
<1> USE DEF OutcomeInv, OutcomeSoFar, LastLookWasClear, PastLastLook, InTurn, frameVars
<1>1. ClaimFirst \/ PreStep \/ UseDecision \/ AfterStep \/ Stop \/ CloseFailedTurn
  BY DEF Next, Environment, Send, Stage, RemovePending, ReplacePending, CancelByUser, Cancel,
         Dispose, RunMaintenance, CallWhenIdle, Scheduler, Driver, OpenTurn, LeaveTurns,
         EnterStep, Generate, StepThrows, StepReturns, StepCallsTools, RunTools, EndStep,
         LeaveTurn, Retire, Wake, ReplayWake, WakeDriver, StartDriver, LatchWake,
         FinishMaintenance, WaiterAwakes, vars
<1>2. CASE ClaimFirst
  BY <1>2 DEF ClaimFirst, Fail, CloseTurn, Claim
<1>3. CASE PreStep
  BY <1>3 DEF PreStep, PreStepThrows, PreStepRejects, PreStepEnters, Fail, CloseTurn
<1>4. CASE UseDecision
  BY <1>4 DEF UseDecision, EndWithoutStep, AbandonStep, StartStep, Fail, CloseTurn
<1>5. CASE AfterStep
  BY <1>5 DEF AfterStep, Fail, CloseTurn, Claim
<1>6. CASE Stop
  BY <1>6 DEF Stop, Fail, CloseTurn, Claim
<1>7. CASE CloseFailedTurn
  BY <1>7 DEF CloseFailedTurn, CloseTurn
<1>8. QED
  BY <1>1, <1>2, <1>3, <1>4, <1>5, <1>6, <1>7

\* The outcome of a turn tells a cancel that came before the turn's last look at its
\* signal, and only such a one, and no later step hides that an earlier one was truncated.
THEOREM OutcomesAreTruthful == Spec => OutcomeIsTruthful
<1>1. Init => OutcomeInv
  BY DEF Init, OutcomeInv, OutcomeSoFar, LastLookWasClear, UnheardIsAborted, InTurn
<1>2. TypeOK /\ DriverMatchesLog /\ OutcomeInv /\ [Next]_vars =>
        [pc # "turnClosed" /\ pc' = "turnClosed"
           => /\ turnEnds' = "aborted" <=> Aborted /\ ~unheard
              /\ truncated => turnEnds' # "completed"]_vars
  BY ClosingIsTruthful
<1>3. QED
  BY <1>1, <1>2, NextKeepsOutcome, TypeCorrect, DriverNeverLosesItsPlace, PTL
     DEF Spec, OutcomeIsTruthful
=============================================================================
