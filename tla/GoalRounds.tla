------------------------------ MODULE GoalRounds ------------------------------
(***************************************************************************)
(* The goal of one session and the plugin that turns it into rounds: goal  *)
(* mutations, the scheduling loops of the driver, the round it queues in   *)
(* the agent's inbox, and the fence in agent/pre-step that the round has   *)
(* to pass before it enters the log.                                       *)
(*                                                                         *)
(* The agent is the one of AgentLoop, reduced to the awaits at which a     *)
(* goal, the inbox or the driver may change under it.  A goal and its      *)
(* revision are one number here, its version, that every goal/change       *)
(* advances.  Left out: the text of prompts and objectives, agents that    *)
(* refuse a followup, goal/change appends that fail, edits of queued       *)
(* messages, and listeners that rewrite the messages of a step, so that a  *)
(* step proposed is never empty (AgentLoop has the empty ones).            *)
(***************************************************************************)
EXTENDS Naturals, Sequences, SequencesExt

CONSTANTS
    Messages,           \* what humans may send, each once
    NoRound,
    MaxRounds,          \* bound on the round caps that goals are given
    MaxChanges          \* bound on the goal mutations of users and tools

\* The message of a round: what it says of itself, and which of its copies it is.
Rounds == [version : Nat, number : Nat, copy : Nat]

ASSUME GoalRoundsAssumption ==
    /\ NoRound \notin Messages /\ NoRound \notin Rounds /\ Messages \cap Rounds = {}
    /\ MaxRounds \in Nat \ {0} /\ MaxChanges \in Nat

VARIABLES
    goal,               \* the durable goal, and whether it is armed
    log,                \* "sound" while the strict fold of the goal accepts the session log
    agent,              \* the await the agent is at, and its abort controller
    inbox,              \* what is queued for a turn and for a step
    batch,              \* the step proposed to the listeners of agent/pre-step
    driver,             \* the state the plugin keeps for the agent
    unsent,             \* messages not sent yet
    halted              \* history: the goal's version at the last cancel a turn could hear

humans == <<unsent, halted>>
vars == <<goal, log, agent, inbox, batch, driver, humans>>

\* Handlers call each other synchronously: they are functions of the whole state.
System == [goal |-> goal, log |-> log, agent |-> agent, inbox |-> inbox, batch |-> batch,
           driver |-> driver]
Becomes(s) ==
    /\ goal' = s.goal /\ log' = s.log /\ agent' = s.agent
    /\ inbox' = s.inbox /\ batch' = s.batch /\ driver' = s.driver

-----------------------------------------------------------------------------
(* What is in the state.                                                   *)

Caps == 1 .. MaxRounds

Same(a, b) == /\ a \in Rounds /\ b \in Rounds
              /\ a.version = b.version /\ a.number = b.number

NoGoal == [phase |-> "none", version |-> 0, rounds |-> 0, max |-> 0, armed |-> FALSE]
NoAttempt == [round |-> NoRound, phase |-> "none", cancelled |-> FALSE, stale |-> FALSE]
Calm == [at |-> "idle", aborted |-> FALSE, latched |-> FALSE]

\* fenced: the driver's listener is in the chain that proposes it; fit: the fold accepted its
\* round when that listener let it go; overtakes: it was claimed from before a human's message.
NoBatch == [round |-> NoRound, others |-> <<>>, decision |-> "enter",
            fenced |-> FALSE, fit |-> FALSE, overtakes |-> FALSE]

\* Loops count by where they are: in a flush, behind a pass that returned, ended.
Fresh == [plugin |-> "loaded", attempt |-> NoAttempt, competing |-> FALSE,
          needsCheckpoint |-> FALSE, requested |-> FALSE, run |-> FALSE,
          flushing |-> 0, returned |-> 0, ended |-> 0, awaits |-> {}]

Init ==
    /\ goal = NoGoal /\ log = "sound" /\ agent = Calm
    /\ inbox = [turn |-> <<>>, step |-> <<>>]
    /\ batch = NoBatch /\ driver = Fresh
    /\ unsent = Messages /\ halted = 0

\* GoalService.get() refolds what was appended since, and throws from the first refusal on.
Armed(s) == s.log = "sound" /\ s.goal.phase = "active" /\ s.goal.armed
Listens(s) == s.driver.plugin # "gone"
StatusIsIdle(s) == s.agent.at \in {"idle", "maintenance"}
HasPending(s) == s.inbox.turn # <<>> \/ s.inbox.step # <<>>

\* What the strict fold requires of the message of a round.
Folds(s, round) ==
    /\ s.goal.phase = "active" /\ round.version = s.goal.version
    /\ round.number = s.goal.rounds + 1 /\ round.number <= s.goal.max

-----------------------------------------------------------------------------
(* The inbox and the start of a turn.                                      *)

Disarm(s) == IF s.log = "sound" THEN [s EXCEPT !.goal.armed = FALSE] ELSE s

\* The driver hears of a message that was queued for a turn and is not its own.
NoticeInput(s) ==
    IF Listens(s)
    THEN [s EXCEPT !.driver.competing = TRUE,
                   !.driver.attempt.stale = @ \/ s.driver.attempt.phase = "queued"]
    ELSE s

Insert(s, item, target) == [s EXCEPT !.inbox[target] = Append(@, item)]

\* Everything for a step, and the first of what waits for a turn.
Claim(s, target) ==
    LET first == IF target = "step" \/ s.inbox.turn = <<>> THEN <<>>
                 ELSE <<Head(s.inbox.turn)>>
        rest  == SubSeq(s.inbox.turn, Len(first) + 1, Len(s.inbox.turn))
        human == IF first # <<>> /\ first[1] \in Messages THEN first ELSE <<>>
        round == IF first = human THEN NoRound ELSE first[1]
    IN  [s EXCEPT
          !.inbox = [turn |-> rest, step |-> <<>>],
          !.batch = [NoBatch EXCEPT !.round = round, !.others = s.inbox.step \o human,
                                    !.overtakes = ToSet(rest) # {} /\ ToSet(rest) \subseteq Messages],
          !.agent.at = "assembling",
          !.driver.attempt.phase = IF Same(round, s.driver.attempt.round)
                                   THEN "claimed" ELSE @]

OpenTurn(s) == Claim([s EXCEPT !.agent.aborted = FALSE, !.agent.latched = FALSE], "turn")

Wake(s, afterAbort) ==
    IF s.agent.at = "idle" THEN OpenTurn(s)
    ELSE IF s.agent.at = "maintenance" \/ afterAbort THEN [s EXCEPT !.agent.latched = TRUE]
    ELSE s

\* cancel() of the agent; the driver hears that its own round is discarded.
Cancel(s, keepInbox) ==
    LET cleared == IF keepInbox THEN s ELSE
            [s EXCEPT !.inbox = [turn |-> <<>>, step |-> <<>>], !.agent.latched = FALSE,
                      !.driver.attempt.cancelled =
                          @ \/ \E item \in ToSet(s.inbox.turn) : Same(item, s.driver.attempt.round)]
    IN  [cleared EXCEPT !.agent.aborted = s.agent.at # "idle"]

-----------------------------------------------------------------------------
(* The loops of the driver.  state.run is assigned when the synchronous    *)
(* part of the first pass has returned, so that a goal/changed in that     *)
(* part starts a second loop.                                              *)

Ready(s) == s.driver.plugin = "loaded" /\ StatusIsIdle(s) /\ ~s.driver.competing

Returned(s) == [s EXCEPT !.driver.returned = @ + 1]
Flush(s) == [s EXCEPT !.driver.needsCheckpoint = FALSE, !.driver.flushing = @ + 1]
Checkpoint(s) == IF Ready(s) THEN Flush(s) ELSE Returned(s)

Unrequested(s) == [s EXCEPT !.driver.requested = FALSE]

\* passed: the state behind the synchronous part of a first pass.
Request(s, passed) ==
    IF s.driver.plugin # "loaded" THEN s
    ELSE IF s.driver.run THEN [s EXCEPT !.driver.requested = TRUE]
    ELSE [passed EXCEPT !.driver.run = TRUE]

\* A mutation of the goal and the driver's goal/changed.
SetGoal(s, g) ==
    LET t == [s EXCEPT !.goal = [g EXCEPT !.version = @ + 1],
                       !.driver.needsCheckpoint = @ \/ Listens(s)]
    IN  Request(t, Checkpoint(Unrequested(t)))
StopGoal(s, phase) == SetGoal(s, [s.goal EXCEPT !.phase = phase, !.armed = FALSE])

Reserve(s) ==
    LET version == s.goal.version
        number  == s.goal.rounds + 1
        copy  == CHOOSE n \in 0 .. Len(s.inbox.turn) :
                     [version |-> version, number |-> number, copy |-> n] \notin ToSet(s.inbox.turn)
        round == [version |-> version, number |-> number, copy |-> copy]
        own   == [NoAttempt EXCEPT !.round = round, !.phase = "queued"]
    IN  Wake(Insert([s EXCEPT !.driver.attempt = own], round, "turn"), FALSE)

Settled(s) == [s EXCEPT !.driver.attempt = NoAttempt, !.driver.needsCheckpoint = TRUE,
                        !.driver.requested = TRUE]

AfterCheckpoint(s) ==
    IF s.driver.attempt # NoAttempt THEN Settled(s)
    ELSE IF ~Armed(s) THEN s
    ELSE IF s.goal.rounds >= s.goal.max THEN StopGoal(s, "blocked")
    ELSE Reserve(s)

Drive(s) ==
    IF ~Ready(s) THEN Returned(s)
    ELSE IF s.driver.needsCheckpoint THEN Flush(s)
    ELSE Returned(AfterCheckpoint(s))

RequestDrive(s) == Request(s, Drive(Unrequested(s)))

FlushEnds ==
    /\ driver.flushing > 0
    /\ LET s == [System EXCEPT !.driver.flushing = @ - 1]
       IN  Becomes(Returned(IF Ready(s) /\ ~s.driver.needsCheckpoint THEN AfterCheckpoint(s)
                            ELSE s))
    /\ UNCHANGED humans

FlushFails ==
    /\ driver.flushing > 0
    /\ Becomes(Returned(Disarm([System EXCEPT !.driver.flushing = @ - 1])))
    /\ UNCHANGED humans

\* The loop looks whether another pass was requested.
LoopGoesOn ==
    /\ driver.returned > 0
    /\ LET s == [System EXCEPT !.driver.returned = @ - 1]
       IN  Becomes(IF s.driver.requested /\ s.driver.plugin = "loaded"
                   THEN Drive(Unrequested(s))
                   ELSE [s EXCEPT !.driver.ended = @ + 1])
    /\ UNCHANGED humans

\* Faulty: what was requested after the last look at the flag is forgotten.
RetiredForGood(s) == s

\* The continuation of a run that is over.
Retired(s) == IF s.driver.requested THEN RequestDrive(s) ELSE s

LoopRetires ==
    /\ driver.ended > 0
    /\ Becomes(Retired([System EXCEPT !.driver.ended = @ - 1, !.driver.run = FALSE]))
    /\ UNCHANGED humans

-----------------------------------------------------------------------------
(* The fence: the driver's listener of agent/pre-step.                     *)

ValidReservation(s) ==
    LET attempt == s.driver.attempt round == s.batch.round
    IN  /\ s.driver.plugin = "loaded"
        /\ Same(attempt.round, round) /\ attempt.phase = "claimed" /\ ~attempt.stale
        /\ Armed(s) /\ s.goal.version = round.version /\ round.number = s.goal.rounds + 1

RestoreOthers(s) == [s EXCEPT !.inbox.step = s.batch.others \o @, !.batch.others = <<>>]
DropAttempt(s) == [s EXCEPT !.driver.attempt = NoAttempt]
Decide(s, decision) == [s EXCEPT !.agent.at = "outer", !.batch.decision = decision]

TurnAway(s) == Decide(RequestDrive(RestoreOthers(s)), "reject")

\* Assembly is over, and the listeners in front of the fence have called next().
ReachFence(s) ==
    IF s.batch.round = NoRound \/ ~Listens(s) THEN [s EXCEPT !.agent.at = "inner"]
    ELSE IF ValidReservation(s) THEN [s EXCEPT !.agent.at = "inner", !.batch.fenced = TRUE]
    ELSE TurnAway(IF Same(s.driver.attempt.round, s.batch.round) THEN DropAttempt(s) ELSE s)

\* Faulty: the round is not looked at again.
RecheckNever(s) == TRUE

\* The listeners behind the fence let the step enter.
Recheck(s) == ValidReservation(s)
LeaveFence(s) ==
    IF ~s.batch.fenced THEN Decide(s, "enter")
    ELSE IF s.agent.aborted THEN Decide(RestoreOthers(s), "enter")
    ELSE IF Recheck(s)
    THEN Decide([s EXCEPT !.batch.fit = Folds(s, s.batch.round)], "enter")
    ELSE TurnAway(DropAttempt(s))

\* They reject it.
Vetoed(s) ==
    IF ~s.batch.fenced \/ s.agent.aborted THEN s
    ELSE LET t == DropAttempt(s)
         IN  IF Armed(t) /\ t.goal.version = s.batch.round.version
             THEN StopGoal(t, "blocked") ELSE t

\* They throw.
Threw(s) ==
    IF ~s.batch.fenced \/ s.agent.aborted THEN s ELSE RequestDrive(DropAttempt(s))

-----------------------------------------------------------------------------
(* The turn.                                                               *)

\* Faulty: only a round that never entered its step is cancelled with its turn.
TurnEndForgetsAdmitted(s, reason) ==
    IF ~Listens(s) \/ reason \notin {"aborted", "max-tokens"} THEN s
    ELSE IF reason = "aborted" /\ s.driver.attempt.phase = "claimed"
    THEN [s EXCEPT !.driver.attempt.cancelled = TRUE]
    ELSE IF reason = "aborted" /\ s.driver.attempt.phase = "admitted" THEN s
    ELSE Disarm(s)

\* The driver sees turn/end.
TurnEnd(s, reason) ==
    IF ~Listens(s) \/ reason \notin {"aborted", "max-tokens"} THEN s
    ELSE IF reason = "aborted" /\ s.driver.attempt.phase \in {"claimed", "admitted"}
    THEN [s EXCEPT !.driver.attempt.cancelled = TRUE]
    ELSE Disarm(s)

Leave(s, reason) == [TurnEnd(s, reason) EXCEPT !.agent.at = "leaving", !.batch = NoBatch]

\* A turn that was aborted or that fails; a failure is reported before the turn ends.
Fail(s) ==
    IF s.agent.aborted THEN Leave(s, "aborted")
    ELSE Leave(IF Listens(s) THEN Disarm(s) ELSE s, "error")

\* The message of the round is appended, and the goal folds it.
Admit(s) ==
    LET round == s.batch.round
        t == [s EXCEPT !.agent.at = "step", !.batch = NoBatch,
                       !.driver.attempt.phase = IF s.driver.attempt.round = round
                                                THEN "admitted" ELSE @]
    IN  IF s.log # "sound" THEN t
        ELSE IF Folds(s, round) THEN [t EXCEPT !.goal.rounds = round.number]
        ELSE [t EXCEPT !.log = IF ~s.batch.fenced THEN "unfenced"
                               ELSE IF s.batch.fit THEN "late" ELSE "unsound"]

At(await) == agent.at = await /\ UNCHANGED humans

PreStep ==
    /\ At("assembling") /\ ~agent.aborted
    /\ Becomes(ReachFence(System))
PreStepFails ==
    /\ \/ At("assembling") /\ Becomes(Fail(System))
       \/ At("inner") /\ Becomes(Fail(Threw(System)))
       \/ At("outer") /\ Becomes(Fail(System))
InnerEnters == At("inner") /\ Becomes(LeaveFence(System))
InnerRejects == At("inner") /\ Becomes(Decide(Vetoed(System), "reject"))

\* preStep() looks at the signal and returns; turn() has yet to resume.  The decision may be
\* that of a listener in front of the fence.
PreStepReturns ==
    /\ At("outer") /\ ~agent.aborted
    /\ \E decision \in {batch.decision, "reject"} :
          Becomes([System EXCEPT !.agent.at = "decided", !.batch.decision = decision])

\* A rejection ends the turn without another look at the signal.
StepRejected ==
    /\ At("decided") /\ batch.decision = "reject"
    /\ Becomes(Leave(System, "blocked"))
StepEnters ==
    /\ At("decided") /\ batch.decision = "enter"
    /\ Becomes(IF agent.aborted THEN Leave(System, "aborted")
               ELSE IF batch.round # NoRound THEN Admit(System)
               ELSE [System EXCEPT !.agent.at = "step", !.batch = NoBatch])

StepFails == At("step") /\ Becomes(Fail(System))
StepAgain ==
    /\ At("step") /\ ~agent.aborted /\ inbox.step # <<>>
    /\ Becomes(Claim(System, "step"))
TurnCompletes(reason) ==
    /\ At("step") /\ ~agent.aborted /\ inbox.step = <<>>
    /\ LET s == TurnEnd(System, reason)
       IN  Becomes([s EXCEPT !.agent = [Calm EXCEPT !.at = IF HasPending(s) THEN "turning"
                                                           ELSE "leaving"]])
NextTurn ==
    /\ At("turning")
    /\ Becomes(IF agent.aborted THEN [System EXCEPT !.agent.at = "leaving"]
               ELSE OpenTurn(System))

\* agent/status tells the driver that the agent is idle.
OnIdle(s) ==
    LET t == [s EXCEPT !.driver.competing = FALSE]
        broken == \/ s.driver.attempt.phase \in {"queued", "claimed"}
                  \/ s.driver.attempt.cancelled
    IN  IF ~Listens(s) THEN s
        ELSE IF s.log # "sound" THEN t
        ELSE RequestDrive(IF broken /\ Armed(t) THEN StopGoal(DropAttempt(t), "paused") ELSE t)

Replay(s, latched) ==
    IF latched /\ HasPending(s) /\ s.agent.at = "idle" THEN OpenTurn(s) ELSE s

Retire ==
    /\ At("leaving")
    /\ Becomes(Replay(OnIdle([System EXCEPT !.agent = Calm]), agent.latched))

StartMaintenance ==
    /\ At("idle") /\ Becomes([System EXCEPT !.agent = [Calm EXCEPT !.at = "maintenance"]])
EndMaintenance ==
    /\ At("maintenance") /\ Becomes(Replay([System EXCEPT !.agent = Calm], agent.latched))

-----------------------------------------------------------------------------
(* Users, tools, and the life of the plugin and of the process.            *)

\* send(): followup is for a turn and wakes, steer for a step and wakes, inject for a step.
Send(m, target, wakeup) ==
    LET afterAbort == wakeup /\ agent.at # "idle" /\ agent.aborted
        s == IF target = "turn" \/ afterAbort THEN NoticeInput(Insert(System, m, "turn"))
             ELSE Insert(System, m, "step")
    IN  /\ m \in unsent /\ unsent' = unsent \ {m} /\ UNCHANGED halted
        /\ Becomes(IF wakeup THEN Wake(s, afterAbort) ELSE s)

UserSends(m) == Send(m, "turn", TRUE) \/ Send(m, "step", TRUE) \/ Send(m, "step", FALSE)

\* The turn will look at its signal again.
HearsCancel(s) ==
    \/ s.agent.at \in {"assembling", "inner", "outer", "step"}
    \/ s.agent.at = "decided" /\ s.batch.decision = "enter"

UserCancels(keepInbox) ==
    /\ agent.at # "idle" \/ HasPending(System)
    /\ Becomes(Cancel(System, keepInbox))
    /\ halted' = IF HearsCancel(System) THEN goal.version ELSE halted
    /\ UNCHANGED unsent

Mutate(g) == /\ log = "sound" /\ goal.version < MaxChanges
             /\ Becomes(SetGoal(System, g))
             /\ UNCHANGED humans

CreateGoal(cap) ==
    /\ goal.phase \in {"none", "complete"}
    /\ Mutate([goal EXCEPT !.phase = "active", !.rounds = 0, !.max = cap, !.armed = TRUE])
EditGoal(cap) == goal.phase # "none" /\ Mutate([goal EXCEPT !.max = cap])
PauseGoal == goal.phase = "active" /\ Mutate([goal EXCEPT !.phase = "paused", !.armed = FALSE])
BlockGoal == goal.phase = "active" /\ Mutate([goal EXCEPT !.phase = "blocked", !.armed = FALSE])
CompleteGoal ==
    /\ goal.phase \in {"active", "paused", "blocked"}
    /\ Mutate([goal EXCEPT !.phase = "complete", !.armed = FALSE])
ResumeGoal ==
    /\ goal.phase \in {"active", "paused", "blocked"} /\ ~Armed(System)
    /\ goal.rounds < goal.max
    /\ Mutate([goal EXCEPT !.phase = "active", !.armed = TRUE])
ClearGoal ==
    /\ goal.phase # "none"
    /\ Mutate([goal EXCEPT !.phase = "none", !.rounds = 0, !.max = 0, !.armed = FALSE])

ChangeGoal ==
    \/ \E cap \in Caps : CreateGoal(cap) \/ EditGoal(cap)
    \/ PauseGoal \/ BlockGoal \/ CompleteGoal \/ ResumeGoal \/ ClearGoal

\* The plugin closes admission and cancels an agent at work on a round.
Unload ==
    /\ driver.plugin = "loaded"
    /\ LET working == driver.attempt # NoAttempt /\ ~StatusIsIdle(System)
           s == [Disarm(System) EXCEPT
                  !.driver.plugin = "stopping",
                  !.driver.attempt.stale = driver.attempt # NoAttempt,
                  !.driver.awaits = {w \in {"agent", "run"} : IF w = "agent" THEN working
                                                              ELSE driver.run}]
       IN  Becomes(IF working THEN Cancel(s, FALSE) ELSE s)
    /\ UNCHANGED humans

Unloaded ==
    /\ driver.plugin = "stopping"
    /\ "agent" \in driver.awaits => agent.at = "idle"
    /\ "run" \in driver.awaits => ~driver.run
    /\ driver' = [Fresh EXCEPT !.plugin = "gone"]
    /\ UNCHANGED <<goal, log, agent, inbox, batch, humans>>

Load ==
    /\ driver.plugin = "gone"
    /\ Becomes(Disarm([System EXCEPT !.driver = Fresh]))
    /\ UNCHANGED humans

\* The process dies and the session is resumed: goal, rounds and inbox are read from the log.
Restart ==
    /\ Becomes([System EXCEPT !.goal.armed = FALSE, !.agent = Calm, !.batch = NoBatch,
                              !.driver = Fresh])
    /\ UNCHANGED humans

AgentStep ==
    \/ PreStep \/ PreStepFails \/ InnerEnters \/ InnerRejects \/ PreStepReturns
    \/ StepRejected \/ StepEnters \/ StepFails \/ StepAgain
    \/ \E reason \in {"completed", "max-tokens"} : TurnCompletes(reason)
    \/ NextTurn \/ Retire
LoopStep == FlushEnds \/ FlushFails \/ LoopGoesOn \/ LoopRetires

Next ==
    \/ AgentStep \/ StartMaintenance \/ EndMaintenance \/ LoopStep
    \/ \E m \in Messages : UserSends(m)
    \/ \E keepInbox \in BOOLEAN : UserCancels(keepInbox)
    \/ ChangeGoal \/ Unload \/ Unloaded \/ Load \/ Restart

\* A flush settles, and what was awaited goes on.
Fairness == WF_vars(LoopStep)

Spec == Init /\ [][Next]_vars
LiveSpec == Spec /\ Fairness

-----------------------------------------------------------------------------

Goals ==
    [phase : {"none", "active", "paused", "blocked", "complete"}, version : Nat,
     rounds : Nat, max : 0 .. MaxRounds, armed : BOOLEAN]
Agents ==
    [at : {"idle", "maintenance", "assembling", "inner", "outer", "decided", "step", "turning",
           "leaving"},
     aborted : BOOLEAN, latched : BOOLEAN]
Inboxes == [turn : Seq(Messages \cup Rounds), step : Seq(Messages)]
Batches ==
    [round : Rounds \cup {NoRound}, others : Seq(Messages), decision : {"enter", "reject"},
     fenced : BOOLEAN, fit : BOOLEAN, overtakes : BOOLEAN]
Attempts ==
    [round : Rounds \cup {NoRound}, phase : {"none", "queued", "claimed", "admitted"},
     cancelled : BOOLEAN, stale : BOOLEAN]
Drivers ==
    [plugin : {"loaded", "stopping", "gone"}, attempt : Attempts, competing : BOOLEAN,
     needsCheckpoint : BOOLEAN, requested : BOOLEAN, run : BOOLEAN,
     flushing : Nat, returned : Nat, ended : Nat, awaits : SUBSET {"agent", "run"}]
States == [goal : Goals, log : {"sound", "late", "unfenced", "unsound"}, agent : Agents,
           inbox : Inboxes, batch : Batches, driver : Drivers]

TypeOK == System \in States /\ unsent \subseteq Messages /\ halted \in Nat

\* What the fence lets go is, at that moment, the next round of the active goal at its revision
\* and within its cap, whatever happened to goal, inbox and driver since it was reserved: only a
\* change made while listeners in front of the fence go on ("late"), or a plugin that is gone
\* ("unfenced"), can bring a round into the log that no later fold accepts.
FenceIsSound == log # "unsound"

Admits == agent.at = "decided" /\ batch.round # NoRound /\ agent'.at = "step"

\* Rounds yield to humans.  After a cancel that a turn could still hear none enters at the version
\* the goal had then, so the goal was resumed or edited first; and none enters that was claimed
\* from before the messages of humans, unless the driver had queued another round beside it.  A
\* cancel between preStep()'s return and turn()'s resumption is not heard if the step is rejected:
\* the turn ends as blocked, not aborted, which disarms nothing, and the next idle may reserve and
\* admit a round at the very version that was cancelled.
RoundsYield ==
    [][Admits /\ batch.fenced => ~batch.overtakes /\ batch.round.version # halted]_vars

Stalled == /\ driver.plugin = "loaded" /\ Armed(System) /\ agent.at = "idle"
           /\ ~driver.competing /\ driver.attempt = NoAttempt

\* No trigger is lost: an agent that is idle with an armed goal, and of which the driver neither
\* expects a round nor believes that humans wait, gets its next round or its goal is stopped.
ArmedGoalsMoveOn == Stalled ~> ~Stalled

\* What the comment on drive() says, "reserve at most one next round": no two messages of one
\* round wait in the inbox.
OneReservation ==
    \A i, j \in DOMAIN inbox.turn : Same(inbox.turn[i], inbox.turn[j]) => i = j
=============================================================================
