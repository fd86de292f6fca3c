----------------------------- MODULE AgentLoop -----------------------------
(***************************************************************************)
(* One live agent: the driver that carries its session through turns and   *)
(* steps (ReactLoopAgent), the inbox it claims its input from, and the     *)
(* plugins that send, cancel, stage, maintain and dispose it meanwhile.    *)
(*                                                                         *)
(* JavaScript runs one callback at a time, so the steps of this model are  *)
(* the stretches of code between two points at which other code can run:   *)
(* an await, a notification whose listeners are called in place, or an     *)
(* append whose observers are called in place.  `pc' names the point the   *)
(* driver is suspended at.  Three kinds of window are told apart:          *)
(*   - at an await anybody may call anything;                              *)
(*   - inside an append (InAppend) only the observers of that append run,  *)
(*     and the session refuses an append from within one: such a caller    *)
(*     cannot send, nor cancel in a way that clears a non-empty inbox;     *)
(*   - inside a synchronous listener the driver that called it is frozen   *)
(*     (`sending' and `tail').                                             *)
(* The retries of a model request stay inside one await ("generating"),    *)
(* and the calls of a step inside another ("tools", see ToolCalls).  An    *)
(* async function that returns resumes its caller a microtask later: that  *)
(* gap is a point of its own where the signal is not looked at after it    *)
(* ("proposed", "retiring"), and part of the await before it otherwise.    *)
(***************************************************************************)
EXTENDS SessionTrace, Sequences, SequencesExt

CONSTANTS
    Messages,           \* the messages plugins may send, each once
    NoMessage,          \* no message
    MaxSteps            \* bound: tools owe a further request only below this step

ASSUME AgentLoopAssumption ==
    /\ NoMessage \notin Messages
    /\ MaxSteps \in Nat \ {0}

VARIABLES
    \* Phase of the agent, with the fields of the phase object.
    phase,              \* "idle", "maintenance" or "running"
    turn,               \* phase.turn, or lastTurn of the other phases
    step,               \* phase.step
    abort,              \* cause the phase's controller was aborted with
    unheard,            \* history: that abort came after the turn's last look at it
    wakeRequested,      \* the latched wake
    \* The driver's frame.
    pc,                 \* where the driver is suspended
    exit,               \* how turn() is leaving: "normal", "stop" or "throw"
    target,             \* boundary of the next claim
    turnEnds,           \* the reason turn/end will carry
    batch,              \* messages claimed for the proposed step
    decision,           \* what preStep() returned and turn() has yet to use
    \* The inbox: next-step input is always claimed whole, so its order is left out.
    nextTurn, nextStep,
    \* Synchronous windows.
    sending,            \* message inserted by a send that has not yet woken the driver
    afterAbort,         \* that send's wakingAfterAbort
    tail,               \* a retired driver has yet to replay its latched wake
    \* whenIdle() and disposal.
    activityOpen,       \* activityDone is unresolved
    waiter,             \* one whenIdle() caller
    disposing,          \* "no", "active" (its cancel hit a live phase) or "over"
    trace,              \* the session log, as its grammar summarises it
    \* History.
    fate,               \* what became of each message
    wake,               \* whether its sender was promised a driver
    home,               \* turn that claimed it from the next-turn list, or None
    truncated           \* a step of this turn hit the token ceiling

phaseVars  == <<phase, turn, step, abort, unheard, wakeRequested>>
frameVars  == <<pc, exit, target, turnEnds, batch, decision, truncated>>
inboxVars  == <<nextTurn, nextStep, fate, home>>
windowVars == <<sending, afterAbort, tail>>
idleVars   == <<activityOpen, waiter>>
vars == <<phaseVars, frameVars, inboxVars, windowVars, idleVars, disposing,
          trace, wake>>

-----------------------------------------------------------------------------
(***************************************************************************)
(* Values.                                                                 *)
(***************************************************************************)

NoAbort == "none"
\* The stable causes; "parent" and "hook" are treated by the loop as "user" is.
Causes == {"user", "disposed"}

TurnEndReasons == {"none", "completed", "max-tokens", "blocked", "aborted", "error"}

\* Points inside an append, where only the append's observers run.
AppendPoints == {"turnOpen", "stepOpen", "stepDone", "stepClosed", "turnClosed"}

\* Points at an await of the driver.
AwaitPoints == {"preStep", "proposed", "generating", "tools", "stopping", "retiring"}

\* "reserved" and "failed" are synchronous listeners of agent/status and agent/error.
Points == AppendPoints \cup AwaitPoints \cup {"none", "reserved", "failed"}

Aborted    == abort # NoAbort
HasPending == nextTurn # <<>> \/ nextStep # {}
Pending    == ToSet(nextTurn) \cup nextStep
InAppend   == pc \in AppendPoints

\* The step proposed is entered, with or without messages: the decision is neither a
\* rejection nor an empty batch that ends the turn.
OpensStep ==
    decision = "enter" \/ (decision = "empty" /\ turnEnds = "none" /\ step # 0)

\* The turn is about to end and will not look at the signal again.
PastLastLook == pc = "failed" \/ (pc = "proposed" /\ ~OpensStep)

FlagTypes ==
    /\ wakeRequested \in BOOLEAN /\ unheard \in BOOLEAN /\ truncated \in BOOLEAN
    /\ afterAbort \in BOOLEAN /\ tail \in BOOLEAN /\ activityOpen \in BOOLEAN

ValueTypes ==
    /\ phase \in {"idle", "maintenance", "running"}
    /\ turn \in Nat /\ step \in Nat
    /\ abort \in Causes \cup {NoAbort}
    /\ pc \in Points
    /\ exit \in {"normal", "stop", "throw"}
    /\ target \in {"next-turn", "next-step"}
    /\ turnEnds \in TurnEndReasons
    /\ batch \in SUBSET Messages
    /\ decision \in {"none", "reject", "empty", "enter"}
    /\ nextTurn \in Seq(Messages) /\ nextStep \in SUBSET Messages
    /\ sending \in Messages \cup {NoMessage}
    /\ waiter \in {"off", "current", "old", "done"}
    /\ disposing \in {"no", "active", "over"}
    /\ trace \in Trace
    /\ fate \in [Messages -> {"new", "pending", "claimed", "logged", "gone"}]
    /\ wake \in [Messages -> {"none", "owed", "late"}]
    /\ home \in [Messages -> Nat]

\* The type invariant.
TypeOK == ValueTypes /\ FlagTypes

Init ==
    /\ phase = "idle" /\ turn = 0 /\ step = 0
    /\ abort = NoAbort /\ unheard = FALSE /\ wakeRequested = FALSE
    /\ pc = "none" /\ exit = "normal" /\ target = "next-turn"
    /\ turnEnds = "none" /\ batch = {} /\ decision = "none" /\ truncated = FALSE
    /\ nextTurn = <<>> /\ nextStep = {}
    /\ sending = NoMessage /\ afterAbort = FALSE /\ tail = FALSE
    /\ activityOpen = FALSE /\ waiter = "off" /\ disposing = "no"
    /\ trace = FreshTrace
    /\ fate = [m \in Messages |-> "new"]
    /\ wake = [m \in Messages |-> "none"]
    /\ home = [m \in Messages |-> None]

-----------------------------------------------------------------------------
(***************************************************************************)
(* Pieces shared by the actions.                                           *)
(***************************************************************************)

\* Another driver, or the agent's callers, may run now.
NotSending == sending = NoMessage
\* Anything may be called: no append is being published and no send is half done.
Reachable == NotSending /\ ~InAppend
\* A driver suspended at an await may be resumed.
Resumable == NotSending /\ ~tail

Log(event) == trace' = Appended(trace, event)

\* Messages S stop waiting; nobody owes them a driver any more.
Settle(S, as) ==
    /\ fate' = [m \in Messages |-> IF m \in S THEN as ELSE fate[m]]
    /\ wake' = [m \in Messages |-> IF m \in S THEN "none" ELSE wake[m]]

\* Pending input is parked until the next wake.
Park == wake' = [m \in Messages |-> "none"]

\* A new activity replaces activityDone: a waiter on the old one will look again.
NewActivity ==
    /\ activityOpen' = TRUE
    /\ waiter' = IF waiter = "current" THEN "old" ELSE waiter

\* A new AbortController, or none.
FreshController == abort' = NoAbort /\ unheard' = FALSE

\* The idle branch of wakeDriver(); `lastTurn' carries over in `turn'.
StartDriver ==
    /\ phase' = "running" /\ step' = 0
    /\ FreshController /\ wakeRequested' = FALSE
    /\ pc' = "reserved"
    /\ NewActivity
    /\ UNCHANGED turn

\* Faulty: maintenance latches nothing.
LatchesOnlyAborted(wakeAfterAbort) == abort # "disposed" /\ wakeAfterAbort

\* The busy branch: maintenance and aborted drivers latch, unless the holder of
\* the controller was aborted by disposal; a live driver claims the work itself.
Latches(wakeAfterAbort) ==
    abort # "disposed" /\ (phase = "maintenance" \/ wakeAfterAbort)

LatchWake(wakeAfterAbort) ==
    /\ wakeRequested' = (wakeRequested \/ Latches(wakeAfterAbort))
    /\ UNCHANGED <<phase, turn, step, abort, unheard, pc, idleVars>>

WakeDriver(wakeAfterAbort) ==
    \/ phase = "idle" /\ StartDriver
    \/ phase # "idle" /\ LatchWake(wakeAfterAbort)

-----------------------------------------------------------------------------
(***************************************************************************)
(* What plugins, interfaces and tools may call.                            *)
(***************************************************************************)

Insert(m, list) ==
    /\ fate[m] = "new"
    /\ fate' = [fate EXCEPT ![m] = "pending"]
    /\ nextTurn' = IF list = "next-turn" THEN Append(nextTurn, m) ELSE nextTurn
    /\ nextStep' = IF list = "next-step" THEN nextStep \cup {m} ELSE nextStep
    /\ UNCHANGED home

\* send(..., wakeup = TRUE), that is followup() and steer(), up to the insertion.
\* Its listeners run before the driver is woken.
Send(m, list) ==
    /\ Reachable
    /\ afterAbort' = (phase # "idle" /\ Aborted)
    /\ Insert(m, IF afterAbort' THEN "next-turn" ELSE list)
    /\ sending' = m
    /\ UNCHANGED <<phaseVars, frameVars, tail, idleVars, disposing, trace, wake>>

\* What the sender of m may count on once wakeDriver() returned: a driver, unless
\* a listener cancelled the message or the activity behind its back, the agent is
\* being disposed, or the driver already failed.  A message for a driver that has left
\* turn() for want of input, and is not yet idle, comes "late".
Promise(m) ==
    IF \/ fate[m] # "pending"
       \/ phase # "idle" /\ Aborted /\ ~Latches(afterAbort)
       \/ pc = "retiring" /\ exit # "normal" /\ ~wakeRequested'
    THEN "none"
    ELSE IF pc = "retiring" /\ ~wakeRequested' THEN "late" ELSE "owed"

\* The rest of send().
Wake ==
    /\ ~NotSending
    /\ WakeDriver(afterAbort)
    /\ wake' = [wake EXCEPT ![sending] = Promise(sending)]
    /\ sending' = NoMessage /\ afterAbort' = FALSE
    /\ UNCHANGED <<exit, target, turnEnds, batch, decision, truncated, inboxVars, tail,
                   disposing, trace>>

\* inject(), and the inbox operations that wake nobody.
Stage(m, list) ==
    /\ Reachable
    /\ Insert(m, list)
    /\ UNCHANGED <<phaseVars, frameVars, windowVars, idleVars, disposing, trace, wake>>

\* Inbox.remove(): a queue editor cancels one pending message.
RemovePending(m) ==
    /\ Reachable
    /\ \/ /\ \E i \in DOMAIN nextTurn : nextTurn[i] = m /\ nextTurn' = RemoveAt(nextTurn, i)
          /\ UNCHANGED nextStep
       \/ /\ m \in nextStep
          /\ nextStep' = nextStep \ {m}
          /\ UNCHANGED nextTurn
    /\ Settle({m}, "gone")
    /\ UNCHANGED <<phaseVars, frameVars, windowVars, idleVars, disposing, trace, home>>

\* Inbox.replace(): the new message takes the place, and the promise, of the old.
ReplacePending(m, n) ==
    /\ Reachable
    /\ fate[n] = "new"
    /\ \/ /\ \E i \in DOMAIN nextTurn : nextTurn[i] = m /\ nextTurn' = ReplaceAt(nextTurn, i, n)
          /\ UNCHANGED nextStep
       \/ /\ m \in nextStep
          /\ nextStep' = (nextStep \ {m}) \cup {n}
          /\ UNCHANGED nextTurn
    /\ fate' = [fate EXCEPT ![m] = "gone", ![n] = "pending"]
    /\ wake' = [wake EXCEPT ![m] = "none", ![n] = wake[m]]
    /\ UNCHANGED <<phaseVars, frameVars, windowVars, idleVars, disposing, trace, home>>

\* cancel(cause, { keepInbox }).  The first cause wins for an activity.
AbortActivity(cause) ==
    IF phase # "idle" /\ ~Aborted THEN abort' = cause /\ unheard' = PastLastLook
                                  ELSE UNCHANGED <<abort, unheard>>

ClearInbox ==
    /\ nextTurn' = <<>> /\ nextStep' = {}
    /\ wakeRequested' = FALSE
    /\ Settle(Pending, "gone")
    /\ UNCHANGED home

\* An observer of an append may only cancel what needs no append of its own.
Cancel(cause, keepInbox) ==
    /\ InAppend => keepInbox \/ ~HasPending
    /\ AbortActivity(cause)
    /\ \/ /\ ~keepInbox
          /\ ClearInbox
       \/ /\ keepInbox
          /\ IF phase = "running" /\ ~Aborted THEN Park ELSE UNCHANGED wake
          /\ UNCHANGED <<inboxVars, wakeRequested>>
    /\ UNCHANGED <<phase, turn, step, frameVars, windowVars, idleVars, trace>>

CancelByUser(keepInbox) ==
    /\ Cancel("user", keepInbox)
    /\ UNCHANGED disposing

\* Disposal is a cancel of cause "disposed", then whenIdle().
Dispose ==
    /\ disposing = "no"
    /\ Cancel("disposed", FALSE)
    /\ disposing' = IF phase = "idle" THEN "over" ELSE "active"

\* runMaintenance(): an exclusive task of an idle agent.
RunMaintenance ==
    /\ phase = "idle"
    /\ phase' = "maintenance"
    /\ NewActivity
    /\ UNCHANGED <<turn, step, abort, unheard, wakeRequested, frameVars, inboxVars,
                   windowVars, disposing, trace, wake>>

\* The task settles: idle again, replay the latched wake, then resolve `done'.
FinishMaintenance ==
    /\ phase = "maintenance" /\ Resumable
    /\ \/ /\ wakeRequested /\ HasPending
          /\ StartDriver
       \/ /\ ~(wakeRequested /\ HasPending)
          /\ phase' = "idle" /\ FreshController /\ wakeRequested' = FALSE
          /\ activityOpen' = FALSE
          /\ UNCHANGED <<turn, step, pc, waiter>>
    /\ disposing' = IF disposing = "active" THEN "over" ELSE disposing
    /\ UNCHANGED <<exit, target, turnEnds, batch, decision, truncated, inboxVars,
                   windowVars, trace, wake>>

\* whenIdle(): awaits activityDone, and again as long as it was replaced meanwhile.
CallWhenIdle ==
    /\ waiter = "off"
    /\ waiter' = "current"
    /\ UNCHANGED <<phaseVars, frameVars, inboxVars, windowVars, activityOpen,
                   disposing, trace, wake>>

\* Faulty: whenIdle() returns with the activity it first saw.
WaiterAwakesOnce ==
    /\ Resumable
    /\ waiter \in {"old", "current"} /\ (waiter = "old" \/ ~activityOpen)
    /\ waiter' = "done"
    /\ UNCHANGED <<phaseVars, frameVars, inboxVars, windowVars, activityOpen,
                   disposing, trace, wake>>

WaiterAwakes ==
    /\ Resumable
    /\ \/ waiter = "old" /\ waiter' = "current"
       \/ waiter = "current" /\ ~activityOpen /\ waiter' = "done"
    /\ UNCHANGED <<phaseVars, frameVars, inboxVars, windowVars, activityOpen,
                   disposing, trace, wake>>

-----------------------------------------------------------------------------
(***************************************************************************)
(* The driver: kick(), turn(), preStep() and step().                       *)
(***************************************************************************)

\* The locals of turn() are gone.
DropFrame ==
    /\ target' = "next-turn" /\ turnEnds' = "none" /\ truncated' = FALSE

\* turn() has returned or thrown and the promise kick() awaits is settled, but
\* kick() resumes only in a later microtask.  Input parks unless a wake is latched.
LeaveTurns(how) ==
    /\ pc' = "retiring" /\ exit' = how
    /\ DropFrame
    /\ IF wakeRequested THEN UNCHANGED wake ELSE Park

\* Faulty: a rejected turn leaves without its turn/end.
CloseTurnUnlessBlocked(reason, how) ==
    /\ turnEnds' = reason /\ exit' = how
    /\ pc' = "turnClosed"
    /\ IF reason = "blocked" THEN UNCHANGED trace ELSE Log(Boundary("turn/end", turn, None))

\* turn/end is appended.
CloseTurn(reason, how) ==
    /\ turnEnds' = reason /\ exit' = how
    /\ pc' = "turnClosed"
    /\ Log(Boundary("turn/end", turn, None))

\* The catch clause of turn(): abortion is told from failure by the signal, and a
\* failure is reported (agent/error) before the turn closes.
Fail ==
    \/ /\ Aborted
       /\ CloseTurn("aborted", "throw")
    \/ /\ ~Aborted
       /\ turnEnds' = "error" /\ exit' = "throw" /\ pc' = "failed"
       /\ UNCHANGED trace

\* Faulty: every boundary claims an ordinary message.
ClaimAtEveryBoundary(boundary) ==
    LET ordinary == IF nextTurn # <<>> THEN {Head(nextTurn)} ELSE {}
    IN /\ batch' = nextStep \cup ordinary
       /\ nextStep' = {}
       /\ nextTurn' = IF ordinary # {} THEN Tail(nextTurn) ELSE nextTurn
       /\ Settle(nextStep \cup ordinary, "claimed")
       /\ home' = [m \in Messages |-> IF m \in ordinary THEN turn ELSE home[m]]
       /\ target' = boundary
       /\ pc' = "preStep"

\* Inbox.claim(): all next-step input, and at a turn boundary the head of next-turn.
Claim(boundary) ==
    LET ordinary == IF boundary = "next-turn" /\ nextTurn # <<>>
                    THEN {Head(nextTurn)} ELSE {}
    IN /\ batch' = nextStep \cup ordinary
       /\ nextStep' = {}
       /\ nextTurn' = IF ordinary # {} THEN Tail(nextTurn) ELSE nextTurn
       /\ Settle(nextStep \cup ordinary, "claimed")
       /\ home' = [m \in Messages |-> IF m \in ordinary THEN turn ELSE home[m]]
       /\ target' = boundary
       /\ pc' = "preStep"

\* turn(), up to its first append; an observer may veto the append before it commits.
OpenTurn ==
    /\ pc = "reserved" /\ NotSending
    /\ \/ /\ ~Aborted
          /\ Log(Boundary("turn/start", turn + 1, None))
          /\ turn' = turn + 1
          /\ pc' = "turnOpen"
          /\ UNCHANGED <<exit, target, turnEnds, truncated, wake>>
       \/ /\ LeaveTurns("throw")
          /\ UNCHANGED <<turn, trace>>
    /\ UNCHANGED <<phase, step, abort, unheard, wakeRequested, batch, decision, inboxVars,
                   windowVars, idleVars, disposing>>

ClaimFirst ==
    /\ pc = "turnOpen" /\ NotSending
    /\ \/ /\ Aborted
          /\ Fail
          /\ UNCHANGED <<target, batch, inboxVars, wake>>
       \/ /\ ~Aborted
          /\ Claim("next-turn")
          /\ UNCHANGED <<exit, turnEnds, trace>>
    /\ UNCHANGED <<phaseVars, decision, truncated, windowVars, idleVars, disposing>>

\* preStep() settles: its prompt assembly or a listener throws, or its signal is
\* aborted; or the step is rejected, or to be entered with what the listeners kept of
\* the batch, plus possibly messages of their own.
PreStepThrows ==
    /\ Fail
    /\ Settle(batch, "gone")
    /\ batch' = {}
    /\ UNCHANGED decision

\* Faulty: a rejection is heard before the signal is looked at.
PreStepRejectsFirst ==
    /\ decision' = "reject" /\ pc' = "proposed"
    /\ Settle(batch, "gone")
    /\ batch' = {}
    /\ UNCHANGED <<exit, turnEnds, trace>>

PreStepRejects ==
    /\ ~Aborted
    /\ decision' = "reject" /\ pc' = "proposed"
    /\ Settle(batch, "gone")
    /\ batch' = {}
    /\ UNCHANGED <<exit, turnEnds, trace>>

PreStepEnters(kept, added) ==
    /\ ~Aborted
    /\ decision' = IF kept = {} /\ ~added THEN "empty" ELSE "enter"
    /\ pc' = "proposed"
    /\ Settle(batch \ kept, "gone")
    /\ batch' = kept
    /\ UNCHANGED <<exit, turnEnds, trace>>

PreStep ==
    /\ pc = "preStep" /\ Resumable
    /\ \/ PreStepThrows
       \/ PreStepRejects
       \/ \E kept \in SUBSET batch, added \in BOOLEAN : PreStepEnters(kept, added)
    /\ UNCHANGED <<phaseVars, target, nextTurn, nextStep, home, truncated, windowVars,
                   idleVars, disposing>>

\* The decision ends the turn, aborted or not: the signal is not looked at again.
EndWithoutStep ==
    /\ ~OpensStep
    /\ \/ decision = "reject" /\ CloseTurn("blocked", "stop")
       \/ decision = "empty" /\ turnEnds # "none" /\ CloseTurn(turnEnds, "normal")
       \/ decision = "empty" /\ turnEnds = "none" /\ CloseTurn("completed", "stop")
    /\ UNCHANGED <<step, batch, fate, wake>>

\* Before a step the signal is looked at once more.
AbandonStep ==
    /\ OpensStep /\ Aborted
    /\ Fail
    /\ Settle(batch, "gone")
    /\ batch' = {}
    /\ UNCHANGED step

\* The coordinates of a proposed step become current once step/start is appended.
StartStep ==
    /\ OpensStep /\ ~Aborted
    /\ Log(Boundary("step/start", turn, step + 1))
    /\ step' = step + 1
    /\ pc' = "stepOpen"
    /\ UNCHANGED <<exit, turnEnds, batch, fate, wake>>

\* turn() resumes with the decision, a microtask after preStep() returned it.
UseDecision ==
    /\ pc = "proposed" /\ Resumable
    /\ EndWithoutStep \/ AbandonStep \/ StartStep
    /\ decision' = "none"
    /\ UNCHANGED <<phase, turn, abort, unheard, wakeRequested, target, nextTurn, nextStep,
                   home, truncated, windowVars, idleVars, disposing>>

\* The entered messages follow step/start; then step() begins with an abort check.
EnterStep ==
    /\ pc = "stepOpen" /\ NotSending
    /\ fate' = [m \in Messages |-> IF m \in batch THEN "logged" ELSE fate[m]]
    /\ batch' = {}
    /\ \/ /\ Aborted
          /\ exit' = "throw" /\ pc' = "stepClosed"
          /\ Log(Boundary("step/end", turn, step))
       \/ /\ ~Aborted
          /\ pc' = "generating"
          /\ UNCHANGED <<exit, trace>>
    /\ UNCHANGED <<phaseVars, target, turnEnds, decision, truncated, nextTurn, nextStep,
                   home, windowVars, idleVars, disposing, wake>>

\* The outcome of a step; "max-tokens" is sticky.
Outcome(stepEnd) == turnEnds' = IF turnEnds = "max-tokens" THEN turnEnds ELSE stepEnd

\* Faulty: a step that throws is left open.
StepThrowsOpen ==
    /\ exit' = "throw" /\ pc' = "stepClosed"
    /\ UNCHANGED <<turnEnds, truncated, trace>>

\* Faulty: the request does not listen to the signal.
StepThrowsUnlessAborted ==
    /\ ~Aborted
    /\ exit' = "throw" /\ pc' = "stepClosed"
    /\ Log(Boundary("step/end", turn, step))
    /\ UNCHANGED <<turnEnds, truncated>>

\* The step throws: step/end is appended on the way out.
StepThrows ==
    /\ exit' = "throw" /\ pc' = "stepClosed"
    /\ Log(Boundary("step/end", turn, step))
    /\ UNCHANGED <<turnEnds, truncated>>

\* The request was answered: assistant/message is appended.
StepReturns(stepEnd) ==
    /\ ~Aborted
    /\ Log(Boundary("assistant/message", turn, step))
    /\ Outcome(stepEnd)
    /\ truncated' = (truncated \/ stepEnd = "max-tokens")
    /\ pc' = "stepDone"
    /\ UNCHANGED exit

StepCallsTools ==
    /\ ~Aborted
    /\ Log(Boundary("assistant/message", turn, step))
    /\ pc' = "tools"
    /\ UNCHANGED <<exit, turnEnds, truncated>>

\* buildRequest() and the model stream settle, after any number of retries.
Generate ==
    /\ pc = "generating" /\ Resumable
    /\ \/ StepThrows
       \/ \E stepEnd \in {"completed", "max-tokens"} : StepReturns(stepEnd)
       \/ StepCallsTools
    /\ UNCHANGED <<phaseVars, target, batch, decision, inboxVars, windowVars, idleVars,
                   disposing, wake>>

\* executeToolCalls() settles; an aborted batch still returns.  Unless a result
\* concludes the turn, the tools owe the model another request.
RunTools ==
    /\ pc = "tools" /\ Resumable
    /\ \/ StepThrows
       \/ /\ \E stepEnd \in {"completed", "none"} :
                /\ stepEnd = "none" => step < MaxSteps
                /\ Outcome(stepEnd)
          /\ pc' = "stepClosed"
          /\ Log(Boundary("step/end", turn, step))
          /\ UNCHANGED <<exit, truncated>>
    /\ UNCHANGED <<phaseVars, target, batch, decision, inboxVars, windowVars, idleVars,
                   disposing, wake>>

EndStep ==
    /\ pc = "stepDone" /\ NotSending
    /\ pc' = "stepClosed"
    /\ Log(Boundary("step/end", turn, step))
    /\ UNCHANGED <<phaseVars, exit, target, turnEnds, batch, decision, truncated,
                   inboxVars, windowVars, idleVars, disposing, wake>>

\* After step/end: unwind, claim the next step, or offer to stop.
AfterStep ==
    /\ pc = "stepClosed" /\ NotSending
    /\ \/ /\ exit = "throw" \/ Aborted
          /\ Fail
          /\ UNCHANGED <<target, batch, inboxVars, wake>>
       \/ /\ exit # "throw" /\ ~Aborted
          /\ turnEnds # "none" /\ nextStep = {}
          /\ pc' = "stopping"
          /\ UNCHANGED <<exit, target, turnEnds, batch, inboxVars, trace, wake>>
       \/ /\ exit # "throw" /\ ~Aborted
          /\ turnEnds = "none" \/ nextStep # {}
          /\ Claim("next-step")
          /\ UNCHANGED <<exit, turnEnds, trace>>
    /\ UNCHANGED <<phaseVars, decision, truncated, windowVars, idleVars, disposing>>

\* The agent/turn-stopping listeners settle.
Stop ==
    /\ pc = "stopping" /\ Resumable
    /\ \/ /\ Fail
          /\ UNCHANGED <<target, batch, inboxVars, wake>>
       \/ /\ ~Aborted /\ nextStep = {}
          /\ CloseTurn(turnEnds, "normal")
          /\ UNCHANGED <<target, batch, inboxVars, wake>>
       \/ /\ ~Aborted /\ nextStep # {}
          /\ Claim("next-step")
          /\ UNCHANGED <<exit, turnEnds, trace>>
    /\ UNCHANGED <<phaseVars, decision, truncated, windowVars, idleVars, disposing>>

\* The agent/error listeners return.
CloseFailedTurn ==
    /\ pc = "failed" /\ NotSending
    /\ CloseTurn("error", "throw")
    /\ UNCHANGED <<phaseVars, target, batch, decision, truncated, inboxVars, windowVars,
                   idleVars, disposing, wake>>

\* turn() continues with what is pending under a fresh controller, or leaves.
LeaveTurn ==
    /\ pc = "turnClosed" /\ NotSending
    /\ \/ /\ exit = "normal" /\ HasPending
          /\ FreshController /\ wakeRequested' = FALSE /\ step' = 0
          /\ pc' = "reserved"
          /\ DropFrame
          /\ UNCHANGED <<exit, wake>>
       \/ /\ exit # "normal" \/ ~HasPending
          /\ LeaveTurns(exit)
          /\ UNCHANGED <<abort, unheard, wakeRequested, step>>
    /\ UNCHANGED <<phase, turn, batch, decision, inboxVars, windowVars, idleVars,
                   disposing, trace>>

\* kick()'s finally: idle is published, and its listeners run before a latched
\* wake is replayed.
Retire ==
    /\ pc = "retiring" /\ Resumable
    /\ phase' = "idle" /\ step' = 0
    /\ FreshController /\ wakeRequested' = FALSE
    /\ pc' = "none" /\ exit' = "normal"
    /\ tail' = wakeRequested
    /\ activityOpen' = wakeRequested
    /\ disposing' = IF disposing = "active" THEN "over" ELSE disposing
    /\ UNCHANGED <<turn, target, turnEnds, batch, decision, truncated, inboxVars, sending,
                   afterAbort, waiter, trace, wake>>

\* The rest of that finally; a listener may have started work in between.
ReplayWake ==
    /\ tail /\ NotSending /\ ~InAppend
    /\ tail' = FALSE
    /\ \/ HasPending /\ WakeDriver(FALSE)
       \/ /\ ~HasPending
          /\ activityOpen' = (phase # "idle")
          /\ UNCHANGED <<phaseVars, pc, waiter>>
    /\ UNCHANGED <<exit, target, turnEnds, batch, decision, truncated, inboxVars, sending,
                   afterAbort, disposing, trace, wake>>

-----------------------------------------------------------------------------
(***************************************************************************)
(* The specification.                                                      *)
(***************************************************************************)

Environment ==
    \/ \E m \in Messages, list \in {"next-turn", "next-step"} : Send(m, list) \/ Stage(m, list)
    \/ \E m \in Messages : RemovePending(m)
    \/ \E m, n \in Messages : ReplacePending(m, n)
    \/ \E keepInbox \in BOOLEAN : CancelByUser(keepInbox)
    \/ Dispose \/ RunMaintenance \/ CallWhenIdle

\* Continuations of calls that have begun.
Driver ==
    \/ OpenTurn \/ ClaimFirst \/ PreStep \/ UseDecision \/ EnterStep \/ Generate
    \/ RunTools \/ EndStep \/ AfterStep \/ Stop \/ CloseFailedTurn \/ LeaveTurn \/ Retire

Scheduler == Driver \/ Wake \/ ReplayWake \/ FinishMaintenance \/ WaiterAwakes

Next == Environment \/ Scheduler

Spec == Init /\ [][Next]_vars

\* The event loop resumes every settled continuation, and what the driver, the
\* maintenance task and whenIdle() await settles.
Fairness ==
    /\ WF_vars(Driver) /\ WF_vars(Wake) /\ WF_vars(ReplayWake)
    /\ WF_vars(FinishMaintenance) /\ WF_vars(WaiterAwakes)

LiveSpec == Spec /\ Fairness

-----------------------------------------------------------------------------
(***************************************************************************)
(* Properties.                                                             *)
(***************************************************************************)

\* Every event the driver appends is one the session grammar accepts at that point:
\* turns and steps nest, are numbered without gaps and are closed on every path out
\* of turn() and step(), vetoed opening appends included.
SessionGrammar == INSTANCE SessionLog
ImplementsSessionLog == SessionGrammar!Spec

\* What makes it so: at every point the driver can be suspended at, the turn and step
\* of its phase and the log written so far name the same open turn, the same open step
\* and the same next numbers, although phase and log are updated at different moments.
InTurn == pc \in {"turnOpen", "preStep", "proposed", "stepOpen", "generating", "tools",
                  "stepDone", "stepClosed", "stopping", "failed"}
InStep == pc \in {"stepOpen", "generating", "tools", "stepDone"}

FrameMatchesPhase ==
    /\ pc = "none" <=> phase # "running"
    /\ pc \in {"reserved", "turnOpen"} => step = 0
    /\ InTurn => turn # None
    /\ InStep => step # None

TraceMatchesPhase ==
    /\ trace.openTurn = IF InTurn THEN turn ELSE None
    /\ trace.openStep = IF InStep THEN step ELSE None
    /\ trace.nextTurn = IF InTurn THEN turn ELSE turn + 1
    /\ InTurn => trace.nextStep = IF InStep THEN step ELSE step + 1
    /\ trace.pendingCalls = {}

DriverMatchesLog == FrameMatchesPhase /\ TraceMatchesPhase

\* A follow-up is the sole ordinary message of its own turn: whatever is steered,
\* cancelled or replayed, no turn claims two messages from the next-turn list.
OneOrdinaryMessagePerTurn ==
    \A m, n \in Messages : m # n /\ home[m] = home[n] => home[m] = None

\* A wake is latched only behind maintenance or behind an activity that a cancel other
\* than disposal aborted, so no live driver leaves a stale latch to the next activity.
LatchOnlyBehindAbort ==
    wakeRequested => /\ phase = "maintenance" \/ (phase = "running" /\ Aborted)
                     /\ abort # "disposed"

\* When the agent is at rest, no message waits whose sender was promised a driver:
\* every such message was claimed, discarded, or parked by a cancel, a rejection or a
\* failure.  Excepted are the sends of NoLostWake below.  Nor is there a latch too many.
AtRest == phase = "idle" /\ ~tail /\ NotSending
NoStrandedWake ==
    /\ AtRest => \A m \in Messages : wake[m] # "owed"
    /\ LatchOnlyBehindAbort

\* The same of every waking send that no cancel followed and no failure parked: "live
\* drivers claim queued work themselves".
NoLostWake == AtRest => \A m \in Messages : wake[m] = "none"

\* "Disposal never latches, so teardown waits on no model turn": once the cancel of a
\* disposal reached an activity, no wake with input to run waits behind it.
DisposalNeverLatches == disposing = "active" => ~(wakeRequested /\ HasPending)

\* A turn ends as aborted if, and only if, it was aborted before its last look at the
\* signal: no await and no observer hides a cancel from the outcome, and none is made
\* up.  The last look is the catch clause's for a turn that fails, and preStep()'s for a
\* turn whose next step is rejected or, empty, ends it: a cancel by the listeners of an
\* error already reported, or between preStep()'s return and turn()'s resumption, comes
\* too late, and leaves an aborted signal behind an outcome that does not tell.  And once
\* a step of the turn has hit the token ceiling, no later one lets it end as completed.
OutcomeIsTruthful ==
    [][pc # "turnClosed" /\ pc' = "turnClosed"
        => /\ turnEnds' = "aborted" <=> Aborted /\ ~unheard
           /\ truncated => turnEnds' # "completed"]_vars

\* whenIdle() resolves only when no driver and no maintenance task is active and no
\* retired driver still has a wake to replay, however often work replaced work.
WhenIdleMeansQuiescent ==
    [][waiter' = "done" /\ waiter # "done" => phase = "idle" /\ ~tail]_vars

\* An aborted activity converges: its driver retires, or goes on to a turn under a
\* fresh controller.
AbortConverges == (phase = "running" /\ Aborted) ~> ~Aborted

\* A message whose sender was promised a driver is claimed, or discarded or parked.
OwedIsSettled == \A m \in Messages : wake[m] = "owed" ~> wake[m] # "owed"
=============================================================================
