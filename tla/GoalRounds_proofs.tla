--------------------------- MODULE GoalRounds_proofs ---------------------------
(***************************************************************************)
(* Theorems about GoalRounds, for any messages and any bounds: its types,  *)
(* that the fence lets only the next round of the active goal go, and that *)
(* rounds yield to humans.                                                 *)
(*                                                                         *)
(* The handlers are functions of the state, so there is one lemma per      *)
(* function, which says that it keeps a good state good; an action follows *)
(* from the lemmas of the functions it is composed of.                     *)
(***************************************************************************)
EXTENDS GoalRounds, FiniteSetTheorems, SequenceTheorems, TLAPS

\* What was reserved is not ahead of the goal, and at the goal's version it is within the cap.
\* The fence compares versions and numbers only; this is why that is enough.
InCap(s) ==
    LET round == s.driver.attempt.round
    IN  round \in Rounds =>
            /\ round.version <= s.goal.version
            /\ round.version = s.goal.version => round.number <= s.goal.max

\* A round that the fence let go, and no cancel stopped since, was fit.
LetGoIsFit(s) ==
    s.agent.at \in {"outer", "decided"} /\ ~s.agent.aborted
        /\ s.batch.fenced /\ s.batch.decision = "enter"
        => s.batch.fit

Good(s) == /\ s \in States /\ s.log # "unsound"
           /\ InCap(s) /\ LetGoIsFit(s)

Inv == Good(System) /\ unsent \subseteq Messages /\ halted \in Nat

-----------------------------------------------------------------------------
(***************************************************************************)
(* The inbox and the start of a turn.                                      *)
(***************************************************************************)

\* What leaves the reserved round alone changes the driver at will.
LEMMA DriverStaysGood ==
    ASSUME NEW s, Good(s), NEW d \in Drivers, d.attempt.round = s.driver.attempt.round
    PROVE  Good([s EXCEPT !.driver = d])
BY DEF Good, States, InCap, LetGoIsFit

\* The agent goes where no round waits behind the fence.
LEMMA AgentStaysGood ==
    ASSUME NEW s, Good(s), NEW a \in Agents, a.at \notin {"outer", "decided"}
    PROVE  Good([s EXCEPT !.agent = a])
BY DEF Good, States, InCap, LetGoIsFit

LEMMA DisarmIsGood == ASSUME NEW s, Good(s) PROVE Good(Disarm(s))
BY DEF Good, States, Goals, InCap, LetGoIsFit, Disarm

LEMMA NoticeInputIsGood == ASSUME NEW s, Good(s) PROVE Good(NoticeInput(s))
<1> DEFINE stale == s.driver.attempt.stale \/ s.driver.attempt.phase = "queued"
           t == [s EXCEPT !.driver.competing = TRUE, !.driver.attempt.stale = stale]
<1>1. stale \in BOOLEAN
  BY DEF Good, States, Drivers, Attempts
<1>2. Good(t)
  <2> HIDE DEF stale
  <2>1. QED
    BY <1>1 DEF Good, States, Drivers, Attempts, InCap, LetGoIsFit
<1>3. NoticeInput(s) = t \/ NoticeInput(s) = s
  BY Zenon DEF NoticeInput
<1> HIDE DEF t
<1>4. QED
  BY <1>2, <1>3

LEMMA InsertIsGood ==
    ASSUME NEW s, Good(s), NEW target \in {"turn", "step"}, NEW item \in Messages \cup Rounds,
           target = "step" => item \in Messages
    PROVE  Good(Insert(s, item, target))
<1>1. CASE target = "turn"
  <2>1. Append(s.inbox.turn, item) \in Seq(Messages \cup Rounds)
    BY DEF Good, States, Inboxes
  <2>2. QED
    BY <1>1, <2>1 DEF Good, States, Inboxes, InCap, LetGoIsFit, Insert
<1>2. CASE target = "step"
  <2>1. Append(s.inbox.step, item) \in Seq(Messages)
    BY <1>2 DEF Good, States, Inboxes
  <2>2. QED
    BY <1>2, <2>1 DEF Good, States, Inboxes, InCap, LetGoIsFit, Insert
<1>3. QED
  BY <1>1, <1>2

\* A claim takes well-typed messages, and where it leaves the agent nothing is let go yet.
LEMMA ClaimIsGood ==
    ASSUME NEW s, Good(s), NEW target \in {"turn", "step"}
    PROVE  Good(Claim(s, target))
<1> DEFINE first == IF target = "step" \/ s.inbox.turn = <<>> THEN <<>>
                    ELSE <<Head(s.inbox.turn)>>
           rest  == SubSeq(s.inbox.turn, Len(first) + 1, Len(s.inbox.turn))
           human == IF first # <<>> /\ first[1] \in Messages THEN first ELSE <<>>
           round == IF first = human THEN NoRound ELSE first[1]
           batch2 == [NoBatch EXCEPT !.round = round, !.others = s.inbox.step \o human,
                         !.overtakes = ToSet(rest) # {} /\ ToSet(rest) \subseteq Messages]
           phase == IF Same(round, s.driver.attempt.round) THEN "claimed"
                    ELSE s.driver.attempt.phase
<1>1. s.inbox.turn \in Seq(Messages \cup Rounds) /\ s.inbox.step \in Seq(Messages)
  BY DEF Good, States, Inboxes
<1>2. first = <<>> \/ \E x \in Messages \cup Rounds : first = <<x>>
  BY <1>1
<1>3. first \in Seq(Messages \cup Rounds)
  <2> HIDE DEF first
  <2>1. CASE first = <<>>
    BY <2>1
  <2>2. ASSUME NEW x \in Messages \cup Rounds, first = <<x>>
        PROVE  first \in Seq(Messages \cup Rounds)
    BY <2>2
  <2>3. QED
    BY <1>2, <2>1, <2>2
<1>4. rest \in Seq(Messages \cup Rounds)
  <2>1. Len(first) + 1 \in Int /\ Len(first) + 1 >= 1 /\ Len(s.inbox.turn) \in Int
    BY <1>1, <1>3
  <2>2. \A i \in Len(first) + 1 .. Len(s.inbox.turn) : s.inbox.turn[i] \in Messages \cup Rounds
    BY <1>1, <2>1
  <2> HIDE DEF first
  <2>3. QED
    BY <2>1, <2>2, SubSeqProperties
<1>5. human \in Seq(Messages)
  BY <1>2
<1>6. round \in Rounds \cup {NoRound}
  BY <1>2
<1>7. s.inbox.step \o human \in Seq(Messages)
  BY <1>1, <1>5
<1>8. batch2 \in Batches
  <2> HIDE DEF first, rest, human, round
  <2>1. QED
    BY <1>6, <1>7 DEF Batches, NoBatch
<1>9. phase \in {"none", "queued", "claimed", "admitted"}
  BY DEF Good, States, Drivers, Attempts
<1>10. Claim(s, target) = [s EXCEPT !.inbox = [turn |-> rest, step |-> <<>>], !.batch = batch2,
                             !.agent.at = "assembling", !.driver.attempt.phase = phase]
  BY Zenon DEF Claim
<1> DEFINE inbox2 == [turn |-> rest, step |-> <<>>]
           agent2 == [s.agent EXCEPT !.at = "assembling"]
           attempt2 == [s.driver.attempt EXCEPT !.phase = phase]
           driver2 == [s.driver EXCEPT !.attempt = attempt2]
<1> HIDE DEF first, rest, human, round, batch2, phase
<1>11. inbox2 \in Inboxes
  BY <1>4 DEF Inboxes
<1>12. agent2 \in Agents /\ agent2.at = "assembling"
  BY DEF Good, States, Agents
<1>13. driver2 \in Drivers /\ driver2.attempt.round = s.driver.attempt.round
  BY <1>9 DEF Good, States, Drivers, Attempts
<1>14. Claim(s, target) = [s EXCEPT !.inbox = inbox2, !.batch = batch2, !.agent = agent2,
                                    !.driver = driver2]
  BY <1>10 DEF Good, States
<1> HIDE DEF inbox2, agent2, attempt2, driver2
<1>15. QED
  BY <1>8, <1>11, <1>12, <1>13, <1>14 DEF Good, States, InCap, LetGoIsFit

LEMMA OpenTurnIsGood ==
    ASSUME NEW s, Good(s), s.agent.at \notin {"outer", "decided"}
    PROVE  Good(OpenTurn(s))
<1>1. Good([s EXCEPT !.agent.aborted = FALSE, !.agent.latched = FALSE])
  BY DEF Good, States, Agents, InCap, LetGoIsFit
<1>2. QED
  BY <1>1, ClaimIsGood DEF OpenTurn

LEMMA WakeIsGood ==
    ASSUME NEW s, Good(s), NEW afterAbort \in BOOLEAN PROVE Good(Wake(s, afterAbort))
<1>1. CASE s.agent.at = "idle"
  BY <1>1, OpenTurnIsGood DEF Wake
<1>2. CASE s.agent.at # "idle"
  BY <1>2 DEF Good, States, Agents, InCap, LetGoIsFit, Wake
<1>3. QED
  BY <1>1, <1>2

LEMMA CancelIsGood ==
    ASSUME NEW s, Good(s), NEW keepInbox \in BOOLEAN PROVE Good(Cancel(s, keepInbox))
<1> DEFINE cancelled == \/ s.driver.attempt.cancelled
                        \/ \E item \in ToSet(s.inbox.turn) : Same(item, s.driver.attempt.round)
           t == [s EXCEPT !.inbox = [turn |-> <<>>, step |-> <<>>], !.agent.latched = FALSE,
                          !.driver.attempt.cancelled = cancelled]
           aborted == s.agent.at # "idle"
<1>1. cancelled \in BOOLEAN
  BY DEF Good, States, Drivers, Attempts
<1>2. Good(t) /\ t.agent.at = s.agent.at
  <2> DEFINE attempt2 == [s.driver.attempt EXCEPT !.cancelled = cancelled]
             driver2 == [s.driver EXCEPT !.attempt = attempt2]
             inbox2 == [turn |-> <<>>, step |-> <<>>]
  <2>1. inbox2 \in Inboxes
    BY DEF Inboxes
  <2>2. driver2 \in Drivers /\ driver2.attempt.round = s.driver.attempt.round
    <3> HIDE DEF cancelled
    <3>1. QED
      BY <1>1 DEF Good, States, Drivers, Attempts
  <2>3. t = [s EXCEPT !.inbox = inbox2, !.agent.latched = FALSE, !.driver = driver2]
    <3> HIDE DEF cancelled
    <3>1. QED
      BY DEF Good, States
  <2> DEFINE agent2 == [s.agent EXCEPT !.latched = FALSE]
  <2>4. agent2 \in Agents /\ agent2.at = s.agent.at /\ agent2.aborted = s.agent.aborted
    BY DEF Good, States, Agents
  <2>5. t = [s EXCEPT !.inbox = inbox2, !.agent = agent2, !.driver = driver2]
    BY <2>3
  <2> HIDE DEF t, inbox2, attempt2, driver2, agent2
  <2>6. QED
    BY <2>1, <2>2, <2>4, <2>5 DEF Good, States, InCap, LetGoIsFit
<1>3. ASSUME NEW c, Good(c), c.agent.at = s.agent.at
      PROVE  Good([c EXCEPT !.agent.aborted = aborted])
  BY <1>3 DEF Good, States, Agents, InCap, LetGoIsFit
<1>4. \/ Cancel(s, keepInbox) = [t EXCEPT !.agent.aborted = aborted]
      \/ Cancel(s, keepInbox) = [s EXCEPT !.agent.aborted = aborted]
  BY Zenon DEF Cancel
<1> HIDE DEF t, aborted
<1>5. QED
  BY <1>2, <1>3, <1>4

LEMMA ReplayIsGood ==
    ASSUME NEW s, Good(s), NEW latched \in BOOLEAN PROVE Good(Replay(s, latched))
BY OpenTurnIsGood DEF Replay

-----------------------------------------------------------------------------
(***************************************************************************)
(* The loops of the driver.                                                *)
(***************************************************************************)

LEMMA ReturnedIsGood == ASSUME NEW s, Good(s) PROVE Good(Returned(s))
BY DEF Good, States, Drivers, InCap, LetGoIsFit, Returned

LEMMA FlushIsGood == ASSUME NEW s, Good(s) PROVE Good(Flush(s))
<1> DEFINE flushing == s.driver.flushing + 1
           driver2 == [s.driver EXCEPT !.needsCheckpoint = FALSE, !.flushing = flushing]
<1>1. flushing \in Nat
  BY DEF Good, States, Drivers
<1>2. Flush(s) = [s EXCEPT !.driver = driver2]
  BY DEF Good, States, Flush
<1> HIDE DEF flushing
<1>3. driver2 \in Drivers /\ driver2.attempt = s.driver.attempt
  BY <1>1 DEF Good, States, Drivers
<1> HIDE DEF driver2
<1>4. QED
  BY <1>2, <1>3 DEF Good, States, InCap, LetGoIsFit

LEMMA CheckpointIsGood == ASSUME NEW s, Good(s) PROVE Good(Checkpoint(s))
BY FlushIsGood, ReturnedIsGood DEF Checkpoint

LEMMA UnrequestedIsGood == ASSUME NEW s, Good(s) PROVE Good(Unrequested(s))
<1> DEFINE driver2 == [s.driver EXCEPT !.requested = FALSE]
<1>1. driver2 \in Drivers /\ driver2.attempt = s.driver.attempt
  BY DEF Good, States, Drivers
<1>2. QED
  BY <1>1, DriverStaysGood DEF Unrequested

LEMMA RequestIsGood ==
    ASSUME NEW s, NEW passed, Good(s), Good(passed) PROVE Good(Request(s, passed))
<1>1. Good([s EXCEPT !.driver.requested = TRUE])
  <2> DEFINE driver2 == [s.driver EXCEPT !.requested = TRUE]
  <2>1. driver2 \in Drivers /\ driver2.attempt = s.driver.attempt
    BY DEF Good, States, Drivers
  <2>2. QED
    BY <2>1, DriverStaysGood
<1>2. Good([passed EXCEPT !.driver.run = TRUE])
  <2> DEFINE driver2 == [passed.driver EXCEPT !.run = TRUE]
  <2>1. driver2 \in Drivers /\ driver2.attempt = passed.driver.attempt
    BY DEF Good, States, Drivers
  <2>2. QED
    BY <2>1, DriverStaysGood
<1>3. QED
  BY <1>1, <1>2 DEF Request

\* A mutation leaves what is reserved behind the goal, whatever it does to the cap.
LEMMA SetGoalIsGood ==
    ASSUME NEW s, Good(s), NEW g \in Goals, g.version = s.goal.version
    PROVE  Good(SetGoal(s, g))
<1> DEFINE goal2 == [g EXCEPT !.version = g.version + 1]
           needs == s.driver.needsCheckpoint \/ Listens(s)
           t == [s EXCEPT !.goal = goal2, !.driver.needsCheckpoint = needs]
<1>1. goal2 \in Goals /\ goal2.version = s.goal.version + 1 /\ s.goal.version \in Nat
  BY DEF Goals, Good, States
<1>2. needs \in BOOLEAN
  BY DEF Good, States, Drivers, Listens
<1>3. Good(t)
  <2> HIDE DEF goal2, needs
  <2>1. InCap(s) /\ s \in States
    BY DEF Good
  <2>2. t \in States /\ t.goal = goal2 /\ t.driver.attempt = s.driver.attempt
    BY <1>1, <1>2, <2>1 DEF States, Drivers
  <2>3. InCap(t)
    BY <1>1, <2>1, <2>2 DEF InCap, Rounds
  <2>4. t.log # "unsound" /\ LetGoIsFit(t)
    BY DEF Good, States, LetGoIsFit
  <2>5. QED
    BY <2>2, <2>3, <2>4 DEF Good
<1>4. SetGoal(s, g) = Request(t, Checkpoint(Unrequested(t)))
  BY Zenon DEF SetGoal
<1> HIDE DEF t
<1>5. QED
  BY <1>3, <1>4, RequestIsGood, CheckpointIsGood, UnrequestedIsGood

LEMMA StopGoalIsGood ==
    ASSUME NEW s, Good(s), NEW phase \in {"paused", "blocked"} PROVE Good(StopGoal(s, phase))
<1>1. [s.goal EXCEPT !.phase = phase, !.armed = FALSE] \in Goals
  BY DEF Good, States, Goals
<1>2. [s.goal EXCEPT !.phase = phase, !.armed = FALSE].version = s.goal.version
  BY DEF Good, States, Goals
<1>3. QED
  BY <1>1, <1>2, SetGoalIsGood DEF StopGoal

\* A finite inbox leaves a copy of a round unused.
LEMMA SomeCopyIsUnused ==
    ASSUME NEW turn \in Seq(Messages \cup Rounds), NEW version, NEW number
    PROVE  \E n \in 0 .. Len(turn) :
               [version |-> version, number |-> number, copy |-> n] \notin ToSet(turn)
<1> DEFINE twin(n) == [version |-> version, number |-> number, copy |-> n]
           places == 1 .. Len(turn)
           copies == 0 .. Len(turn)
           place == [n \in copies |-> CHOOSE i \in places : turn[i] = twin(n)]
<1> SUFFICES ASSUME \A n \in copies : twin(n) \in ToSet(turn) PROVE FALSE
  OBVIOUS
<1>1. \A n \in copies : \E i \in places : turn[i] = twin(n)
  BY DEF ToSet
<1>2. \A n \in copies : place[n] \in places /\ turn[place[n]] = twin(n)
  BY <1>1, Zenon
<1>3. place \in [copies -> places]
  BY <1>2
<1>4. /\ IsFiniteSet(places) /\ IsFiniteSet(copies)
      /\ Cardinality(places) < Cardinality(copies)
  <2>1. Len(turn) \in Nat
    OBVIOUS
  <2>2. /\ IsFiniteSet(places)
        /\ Cardinality(places) = IF 1 > Len(turn) THEN 0 ELSE Len(turn) - 1 + 1
    BY <2>1, FS_Interval
  <2>3. /\ IsFiniteSet(copies)
        /\ Cardinality(copies) = IF 0 > Len(turn) THEN 0 ELSE Len(turn) - 0 + 1
    BY <2>1, FS_Interval
  <2> HIDE DEF places, copies
  <2>4. QED
    BY <2>1, <2>2, <2>3
<1>5. PICK m, n \in copies : m # n /\ place[m] = place[n]
  <2> HIDE DEF place, places, copies
  <2>1. QED
    BY <1>3, <1>4, FS_PigeonHole
<1>6. twin(m) = twin(n)
  BY <1>2, <1>5, Zenon
<1>7. twin(m).copy = m /\ twin(n).copy = n
  OBVIOUS
<1>8. QED
  BY <1>5, <1>6, <1>7

\* A reservation is made for the goal there is, below its cap.
LEMMA ReserveIsGood ==
    ASSUME NEW s, Good(s), s.goal.rounds < s.goal.max PROVE Good(Reserve(s))
<1> DEFINE version == s.goal.version
           number  == s.goal.rounds + 1
           copy  == CHOOSE n \in 0 .. Len(s.inbox.turn) :
                        [version |-> version, number |-> number, copy |-> n]
                            \notin ToSet(s.inbox.turn)
           round == [version |-> version, number |-> number, copy |-> copy]
           own   == [NoAttempt EXCEPT !.round = round, !.phase = "queued"]
           t == [s EXCEPT !.driver.attempt = own]
<1>1. s.inbox.turn \in Seq(Messages \cup Rounds)
  BY DEF Good, States, Inboxes
<1>2. copy \in 0 .. Len(s.inbox.turn)
  <2>1. \E n \in 0 .. Len(s.inbox.turn) :
            [version |-> version, number |-> number, copy |-> n] \notin ToSet(s.inbox.turn)
    BY <1>1, SomeCopyIsUnused
  <2>2. QED
    BY <2>1, Zenon
<1>3. /\ version \in Nat /\ number \in Nat /\ copy \in Nat
      /\ number <= s.goal.max
  BY <1>1, <1>2 DEF Good, States, Goals
<1>4. round \in Rounds /\ round.version = s.goal.version /\ round.number <= s.goal.max
  <2> HIDE DEF copy
  <2>1. QED
    BY <1>3 DEF Rounds
<1>5. own \in Attempts /\ own.round = round
  <2> HIDE DEF round
  <2>1. QED
    BY <1>4 DEF Attempts, NoAttempt
<1>6. Good(t)
  <2> HIDE DEF own, round
  <2>1. QED
    BY <1>3, <1>4, <1>5 DEF Good, States, Drivers, InCap, LetGoIsFit
<1>7. Reserve(s) = Wake(Insert(t, round, "turn"), FALSE)
  BY Zenon DEF Reserve
<1> HIDE DEF t, round
<1>8. QED
  BY <1>4, <1>6, <1>7, InsertIsGood, WakeIsGood

LEMMA DropAttemptIsGood == ASSUME NEW s, Good(s) PROVE Good(DropAttempt(s))
<1>1. NoAttempt \in Attempts /\ NoAttempt.round \notin Rounds
  BY GoalRoundsAssumption DEF Attempts, NoAttempt
<1>2. QED
  BY <1>1 DEF Good, States, Drivers, InCap, LetGoIsFit, DropAttempt

LEMMA SettledIsGood == ASSUME NEW s, Good(s) PROVE Good(Settled(s))
<1>1. NoAttempt \in Attempts /\ NoAttempt.round \notin Rounds
  BY GoalRoundsAssumption DEF Attempts, NoAttempt
<1> DEFINE driver2 == [s.driver EXCEPT !.attempt = NoAttempt, !.needsCheckpoint = TRUE,
                                       !.requested = TRUE]
<1>2. driver2 \in Drivers /\ driver2.attempt = NoAttempt
  BY <1>1 DEF Good, States, Drivers
<1>3. Settled(s) = [s EXCEPT !.driver = driver2]
  BY DEF Good, States, Settled
<1> HIDE DEF driver2
<1>4. QED
  BY <1>1, <1>2, <1>3 DEF Good, States, InCap, LetGoIsFit

LEMMA AfterCheckpointIsGood == ASSUME NEW s, Good(s) PROVE Good(AfterCheckpoint(s))
<1>1. s.goal.rounds \in Nat /\ s.goal.max \in Nat
  BY DEF Good, States, Goals
<1>2. QED
  BY <1>1, SettledIsGood, StopGoalIsGood, ReserveIsGood DEF AfterCheckpoint

LEMMA DriveIsGood == ASSUME NEW s, Good(s) PROVE Good(Drive(s))
BY ReturnedIsGood, FlushIsGood, AfterCheckpointIsGood DEF Drive

LEMMA RequestDriveIsGood == ASSUME NEW s, Good(s) PROVE Good(RequestDrive(s))
BY RequestIsGood, UnrequestedIsGood, DriveIsGood DEF RequestDrive

LEMMA RetiredIsGood == ASSUME NEW s, Good(s) PROVE Good(Retired(s))
BY RequestDriveIsGood DEF Retired

-----------------------------------------------------------------------------
(***************************************************************************)
(* The fence.                                                              *)
(***************************************************************************)

\* A step may be let go when it was rejected, was not fenced, was cancelled, or is fit.
LEMMA DecideIsGood ==
    ASSUME NEW s, Good(s), NEW decision \in {"enter", "reject"},
           decision = "enter" /\ s.batch.fenced /\ ~s.agent.aborted => s.batch.fit
    PROVE  Good(Decide(s, decision))
<1> DEFINE agent2 == [s.agent EXCEPT !.at = "outer"]
           batch2 == [s.batch EXCEPT !.decision = decision]
<1>1. agent2 \in Agents /\ agent2.aborted = s.agent.aborted
  BY DEF Good, States, Agents
<1>2. /\ batch2 \in Batches /\ batch2.fenced = s.batch.fenced
      /\ batch2.fit = s.batch.fit /\ batch2.decision = decision
  BY DEF Good, States, Batches
<1>3. Decide(s, decision) = [s EXCEPT !.agent = agent2, !.batch = batch2]
  BY DEF Decide
<1> HIDE DEF agent2, batch2
<1>4. QED
  BY <1>1, <1>2, <1>3 DEF Good, States, InCap, LetGoIsFit

LEMMA RestoreOthersIsGood ==
    ASSUME NEW s, Good(s)
    PROVE  /\ Good(RestoreOthers(s))
           /\ RestoreOthers(s).agent = s.agent
<1> DEFINE inbox2 == [s.inbox EXCEPT !.step = s.batch.others \o s.inbox.step]
           batch2 == [s.batch EXCEPT !.others = <<>>]
<1>1. inbox2 \in Inboxes
  <2>1. s.batch.others \in Seq(Messages) /\ s.inbox.step \in Seq(Messages)
    BY DEF Good, States, Inboxes, Batches
  <2>2. s.batch.others \o s.inbox.step \in Seq(Messages)
    BY <2>1
  <2>3. QED
    BY <2>2 DEF Good, States, Inboxes
<1>2. /\ batch2 \in Batches /\ batch2.fenced = s.batch.fenced /\ batch2.fit = s.batch.fit
      /\ batch2.decision = s.batch.decision
  <2>1. <<>> \in Seq(Messages)
    OBVIOUS
  <2>2. QED
    BY <2>1 DEF Good, States, Batches
<1>3. RestoreOthers(s) = [s EXCEPT !.inbox = inbox2, !.batch = batch2]
  BY DEF Good, States, RestoreOthers
<1> HIDE DEF inbox2, batch2
<1>4. QED
  BY <1>1, <1>2, <1>3 DEF Good, States, InCap, LetGoIsFit

LEMMA TurnAwayIsGood == ASSUME NEW s, Good(s) PROVE Good(TurnAway(s))
BY RestoreOthersIsGood, RequestDriveIsGood, DecideIsGood DEF TurnAway

LEMMA ReachFenceIsGood == ASSUME NEW s, Good(s) PROVE Good(ReachFence(s))
<1>1. Good([s EXCEPT !.agent.at = "inner"])
  BY DEF Good, States, Agents, InCap, LetGoIsFit
<1>2. Good([s EXCEPT !.agent.at = "inner", !.batch.fenced = TRUE])
  BY DEF Good, States, Agents, Batches, InCap, LetGoIsFit
<1>3. QED
  BY <1>1, <1>2, TurnAwayIsGood, DropAttemptIsGood DEF ReachFence

\* What the fence looks at is, with InCap, all that the fold will ask.
LEMMA ValidReservationFolds ==
    ASSUME NEW s, Good(s), ValidReservation(s) PROVE Folds(s, s.batch.round)
<1> DEFINE own == s.driver.attempt.round
           round == s.batch.round
<1>1. /\ own \in Rounds /\ round \in Rounds
      /\ own.version = round.version /\ own.number = round.number
      /\ s.goal.phase = "active" /\ s.goal.version = round.version
      /\ round.number = s.goal.rounds + 1
  BY DEF ValidReservation, Same, Armed
<1>2. own.number <= s.goal.max
  BY <1>1 DEF Good, InCap
<1>3. QED
  BY <1>1, <1>2 DEF Folds

LEMMA LeaveFenceIsGood == ASSUME NEW s, Good(s) PROVE Good(LeaveFence(s))
<1>1. CASE ~s.batch.fenced
  BY <1>1, DecideIsGood DEF LeaveFence
<1>2. CASE s.batch.fenced /\ s.agent.aborted
  BY <1>2, DecideIsGood, RestoreOthersIsGood DEF LeaveFence
<1>3. CASE s.batch.fenced /\ ~s.agent.aborted /\ Recheck(s)
  <2> DEFINE t == [s EXCEPT !.batch.fit = Folds(s, s.batch.round)]
  <2>1. Folds(s, s.batch.round) = TRUE
    BY <1>3, ValidReservationFolds DEF Recheck, Folds
  <2>2. Good(t) /\ t.batch.fit
    <3> DEFINE batch2 == [s.batch EXCEPT !.fit = TRUE]
    <3>1. t = [s EXCEPT !.batch = batch2]
      BY <2>1
    <3>2. batch2 \in Batches /\ batch2.fit
      BY DEF Good, States, Batches
    <3> HIDE DEF t, batch2
    <3>3. QED
      BY <3>1, <3>2 DEF Good, States, InCap, LetGoIsFit
  <2>3. LeaveFence(s) = Decide(t, "enter")
    BY <1>3, Zenon DEF LeaveFence
  <2> HIDE DEF t
  <2>4. QED
    BY <2>2, <2>3, DecideIsGood
<1>4. CASE s.batch.fenced /\ ~s.agent.aborted /\ ~Recheck(s)
  BY <1>4, TurnAwayIsGood, DropAttemptIsGood DEF LeaveFence
<1>5. QED
  BY <1>1, <1>2, <1>3, <1>4

LEMMA VetoedIsGood == ASSUME NEW s, Good(s) PROVE Good(Vetoed(s))
BY DropAttemptIsGood, StopGoalIsGood DEF Vetoed

LEMMA ThrewIsGood == ASSUME NEW s, Good(s) PROVE Good(Threw(s))
BY DropAttemptIsGood, RequestDriveIsGood DEF Threw

-----------------------------------------------------------------------------
(***************************************************************************)
(* The turn.                                                               *)
(***************************************************************************)

LEMMA TurnEndIsGood == ASSUME NEW s, Good(s), NEW reason PROVE Good(TurnEnd(s, reason))
<1>1. Good([s EXCEPT !.driver.attempt.cancelled = TRUE])
  <2> DEFINE attempt2 == [s.driver.attempt EXCEPT !.cancelled = TRUE]
             driver2 == [s.driver EXCEPT !.attempt = attempt2]
  <2>1. driver2 \in Drivers /\ driver2.attempt.round = s.driver.attempt.round
    BY DEF Good, States, Drivers, Attempts
  <2>2. QED
    BY <2>1, DriverStaysGood
<1>2. QED
  BY <1>1, DisarmIsGood DEF TurnEnd

LEMMA NoBatchIsTyped == NoBatch \in Batches
BY DEF NoBatch, Batches

LEMMA LeaveIsGood == ASSUME NEW s, Good(s), NEW reason PROVE Good(Leave(s, reason))
<1>1. ASSUME NEW t, Good(t) PROVE Good([t EXCEPT !.agent.at = "leaving", !.batch = NoBatch])
  <2> DEFINE agent2 == [t.agent EXCEPT !.at = "leaving"]
  <2>1. agent2 \in Agents /\ agent2.at \notin {"outer", "decided"}
    BY <1>1 DEF Good, States, Agents
  <2> HIDE DEF agent2
  <2>2. Good([t EXCEPT !.agent = agent2, !.batch = NoBatch])
    BY <1>1, <2>1, NoBatchIsTyped DEF Good, States, InCap, LetGoIsFit
  <2>3. QED
    BY <2>2 DEF agent2
<1>2. QED
  BY <1>1, TurnEndIsGood DEF Leave

LEMMA FailIsGood == ASSUME NEW s, Good(s) PROVE Good(Fail(s))
BY LeaveIsGood, DisarmIsGood DEF Fail

\* A round that enters was let go by the fence, hence fit, or did not meet the fence.
LEMMA AdmitIsGood ==
    ASSUME NEW s, Good(s), s.agent.at = "decided", ~s.agent.aborted,
           s.batch.decision = "enter", s.batch.round # NoRound
    PROVE  Good(Admit(s))
<1> DEFINE phase == IF s.driver.attempt.round = s.batch.round THEN "admitted"
                    ELSE s.driver.attempt.phase
           t == [s EXCEPT !.agent.at = "step", !.batch = NoBatch, !.driver.attempt.phase = phase]
           number == s.batch.round.number
           refusal == IF ~s.batch.fenced THEN "unfenced"
                      ELSE IF s.batch.fit THEN "late" ELSE "unsound"
<1>1. phase \in {"none", "queued", "claimed", "admitted"}
  BY DEF Good, States, Drivers, Attempts
<1>2. Good(t) /\ t.agent.at = "step"
  <2> DEFINE agent2 == [s.agent EXCEPT !.at = "step"]
             attempt2 == [s.driver.attempt EXCEPT !.phase = phase]
             driver2 == [s.driver EXCEPT !.attempt = attempt2]
  <2> HIDE DEF phase
  <2>1. agent2 \in Agents /\ agent2.at = "step"
    BY DEF Good, States, Agents
  <2>2. attempt2 \in Attempts /\ attempt2.round = s.driver.attempt.round
    BY <1>1 DEF Good, States, Drivers, Attempts
  <2>3. t = [s EXCEPT !.agent = agent2, !.batch = NoBatch, !.driver = driver2]
    BY DEF Good, States
  <2> HIDE DEF t, agent2, attempt2
  <2>4. driver2 \in Drivers /\ driver2.attempt.round = s.driver.attempt.round
    BY <2>2 DEF Good, States, Drivers
  <2> HIDE DEF driver2
  <2>5. QED
    BY <2>1, <2>3, <2>4, NoBatchIsTyped DEF Good, States, InCap, LetGoIsFit
<1>3. number \in Nat
  BY DEF Good, States, Batches, Rounds
<1>4. refusal \in {"unfenced", "late"}
  BY DEF Good, LetGoIsFit
<1>5. \/ Admit(s) = t
      \/ Admit(s) = [t EXCEPT !.goal.rounds = number]
      \/ Admit(s) = [t EXCEPT !.log = refusal]
  BY Zenon DEF Admit
<1> HIDE DEF t, number, refusal
<1>6. Good([t EXCEPT !.goal.rounds = number])
  BY <1>2, <1>3 DEF Good, States, Goals, InCap, LetGoIsFit
<1>7. Good([t EXCEPT !.log = refusal])
  BY <1>2, <1>4 DEF Good, States, InCap, LetGoIsFit
<1>8. QED
  BY <1>2, <1>5, <1>6, <1>7

LEMMA OnIdleIsGood == ASSUME NEW s, Good(s) PROVE Good(OnIdle(s))
<1>1. Good([s EXCEPT !.driver.competing = FALSE])
  <2> DEFINE driver2 == [s.driver EXCEPT !.competing = FALSE]
  <2>1. driver2 \in Drivers /\ driver2.attempt = s.driver.attempt
    BY DEF Good, States, Drivers
  <2>2. QED
    BY <2>1, DriverStaysGood
<1>2. QED
  BY <1>1, DropAttemptIsGood, StopGoalIsGood, RequestDriveIsGood DEF OnIdle

-----------------------------------------------------------------------------
(***************************************************************************)
(* The actions.                                                            *)
(***************************************************************************)

\* The next state is what the functions compute.
LEMMA BecomesGood == ASSUME NEW s, Good(s), Becomes(s) PROVE Good(System)'
<1>1. System' = s
  BY DEF Good, States, Becomes, System
<1>2. QED
  BY <1>1 DEF Good, InCap, LetGoIsFit

\* No batch, no agent at work.
LEMMA CalmIsTyped == Calm \in Agents
BY DEF Calm, Agents

LEMMA FreshIsTyped == Fresh \in Drivers /\ Fresh.attempt.round \notin Rounds
<1>1. NoAttempt \in Attempts /\ NoAttempt.round \notin Rounds
  BY GoalRoundsAssumption DEF Attempts, NoAttempt
<1>2. QED
  BY <1>1 DEF Fresh, Drivers

LEMMA InitIsGood == Init => Inv
<1> SUFFICES ASSUME Init PROVE Inv
  OBVIOUS
<1>1. NoGoal \in Goals
  BY GoalRoundsAssumption DEF NoGoal, Goals
<1>2. [turn |-> <<>>, step |-> <<>>] \in Inboxes
  BY DEF Inboxes
<1>3. System \in States
  BY <1>1, <1>2, CalmIsTyped, FreshIsTyped, NoBatchIsTyped DEF Init, System, States
<1>4. System.driver = Fresh /\ System.agent.at = "idle" /\ System.log = "sound"
  BY DEF Init, System, Calm
<1>5. QED
  BY <1>3, <1>4, FreshIsTyped DEF Init, Inv, Good, InCap, LetGoIsFit

\* The loops of the driver.
LEMMA LoopKeepsGood == ASSUME Good(System), LoopStep PROVE Good(System)'
<1> USE DEF System
<1>1. System = [goal |-> goal, log |-> log, agent |-> agent, inbox |-> inbox, batch |-> batch,
                driver |-> driver]
  OBVIOUS
<1> DEFINE S == System
<1> HIDE DEF System
<1>2. S.driver = driver
  BY <1>1
<1>3. CASE FlushEnds
  <2> DEFINE s == [S EXCEPT !.driver.flushing = @ - 1]
  <2>1. Good(s)
    BY <1>2, <1>3 DEF FlushEnds, Good, States, Drivers, InCap, LetGoIsFit
  <2> HIDE DEF s
  <2>2. Becomes(Returned(IF Ready(s) /\ ~s.driver.needsCheckpoint THEN AfterCheckpoint(s) ELSE s))
    BY <1>3, Zenon DEF FlushEnds, s
  <2>3. QED
    BY <2>1, <2>2, AfterCheckpointIsGood, ReturnedIsGood, BecomesGood
<1>4. CASE FlushFails
  <2> DEFINE s == [S EXCEPT !.driver.flushing = @ - 1]
  <2>1. Good(s)
    BY <1>2, <1>4 DEF FlushFails, Good, States, Drivers, InCap, LetGoIsFit
  <2> HIDE DEF s
  <2>2. Becomes(Returned(Disarm(s)))
    BY <1>4, Zenon DEF FlushFails, s
  <2>3. QED
    BY <2>1, <2>2, DisarmIsGood, ReturnedIsGood, BecomesGood
<1>5. CASE LoopGoesOn
  <2> DEFINE s == [S EXCEPT !.driver.returned = @ - 1]
  <2>1. Good(s)
    BY <1>2, <1>5 DEF LoopGoesOn, Good, States, Drivers, InCap, LetGoIsFit
  <2>2. Good([s EXCEPT !.driver.ended = @ + 1])
    <3> HIDE DEF s
    <3>1. QED
      BY <2>1 DEF Good, States, Drivers, InCap, LetGoIsFit
  <2> HIDE DEF s
  <2>3. \/ Becomes(Drive(Unrequested(s)))
        \/ Becomes([s EXCEPT !.driver.ended = @ + 1])
    BY <1>5, Zenon DEF LoopGoesOn, s
  <2>4. QED
    BY <2>1, <2>2, <2>3, UnrequestedIsGood, DriveIsGood, BecomesGood
<1>6. CASE LoopRetires
  <2> DEFINE ended == driver.ended - 1
             s == [S EXCEPT !.driver.ended = @ - 1, !.driver.run = FALSE]
             t == [S EXCEPT !.driver.ended = ended, !.driver.run = FALSE]
  <2>1. Good(s)
    <3>1. ended \in Nat
      BY <1>2, <1>6 DEF LoopRetires, Good, States, Drivers
    <3>2. s = t
      BY <1>2 DEF Good, States
    <3> HIDE DEF ended, s
    <3>3. Good(t)
      BY <3>1 DEF Good, States, Drivers, InCap, LetGoIsFit
    <3>4. QED
      BY <3>2, <3>3
  <2> HIDE DEF s
  <2>2. Becomes(Retired(s))
    BY <1>6, Zenon DEF LoopRetires, s
  <2>3. QED
    BY <2>1, <2>2, RetiredIsGood, BecomesGood
<1>7. QED
  BY <1>3, <1>4, <1>5, <1>6 DEF LoopStep

\* A turn, from its start to the agent's return to idle.
LEMMA TurnKeepsGood == ASSUME Good(System), AgentStep PROVE Good(System)'
<1>1. /\ System.agent = agent /\ System.batch = batch /\ System.inbox = inbox
      /\ System.driver = driver
  BY DEF System
<1>2. agent.latched \in BOOLEAN
  BY <1>1 DEF Good, States, Agents
<1>3. CASE PreStep
  BY <1>3, ReachFenceIsGood, BecomesGood DEF PreStep
<1>4. CASE PreStepFails
  BY <1>4, FailIsGood, ThrewIsGood, BecomesGood DEF PreStepFails
<1>5. CASE InnerEnters
  BY <1>5, LeaveFenceIsGood, BecomesGood DEF InnerEnters
<1>6. CASE InnerRejects
  <2>1. Good(Decide(Vetoed(System), "reject"))
    BY VetoedIsGood, DecideIsGood
  <2>2. QED
    BY <1>6, <2>1, BecomesGood DEF InnerRejects
<1>7. CASE StepRejected
  BY <1>7, LeaveIsGood, BecomesGood DEF StepRejected
<1>8. CASE StepEnters
  <2> DEFINE t == [System EXCEPT !.agent.at = "step", !.batch = NoBatch]
  <2>1. Good(t)
    BY NoBatchIsTyped DEF Good, States, Agents, InCap, LetGoIsFit
  <2>2. \/ ~agent.aborted /\ batch.round # NoRound /\ Becomes(Admit(System))
        \/ Becomes(Leave(System, "aborted")) \/ Becomes(t)
    BY <1>8, Zenon DEF StepEnters
  <2>3. ASSUME ~agent.aborted, batch.round # NoRound PROVE Good(Admit(System))
    BY <1>1, <1>8, <2>3, AdmitIsGood DEF StepEnters, At
  <2> HIDE DEF t
  <2>4. QED
    BY <2>1, <2>2, <2>3, LeaveIsGood, BecomesGood
<1>9. CASE StepFails
  BY <1>9, FailIsGood, BecomesGood DEF StepFails
<1>10. CASE StepAgain
  BY <1>10, ClaimIsGood, BecomesGood DEF StepAgain
<1>11. ASSUME NEW reason, TurnCompletes(reason) PROVE Good(System)'
  <2> DEFINE s == TurnEnd(System, reason)
             at == IF HasPending(s) THEN "turning" ELSE "leaving"
             t == [s EXCEPT !.agent = [Calm EXCEPT !.at = at]]
  <2>1. Good(s)
    BY TurnEndIsGood
  <2>2. at \in {"turning", "leaving"}
    OBVIOUS
  <2>3. Becomes(t)
    BY <1>11, Zenon DEF TurnCompletes
  <2>4. Good(t)
    <3> HIDE DEF s, at
    <3>1. /\ [Calm EXCEPT !.at = at] \in Agents
          /\ [Calm EXCEPT !.at = at].at \notin {"outer", "decided"}
      BY <2>2 DEF Calm, Agents
    <3>2. QED
      BY <2>1, <3>1, AgentStaysGood
  <2> HIDE DEF t
  <2>5. QED
    BY <2>3, <2>4, BecomesGood
<1>12. CASE NextTurn
  <2>1. Good([System EXCEPT !.agent.at = "leaving"])
    BY DEF Good, States, Agents, InCap, LetGoIsFit
  <2>2. Good(OpenTurn(System))
    BY <1>1, <1>12, OpenTurnIsGood DEF NextTurn, At
  <2>3. QED
    BY <1>12, <2>1, <2>2, BecomesGood DEF NextTurn
<1>13. CASE Retire
  <2> DEFINE t == [System EXCEPT !.agent = Calm]
  <2>1. Good(t)
    BY CalmIsTyped DEF Good, States, Calm, InCap, LetGoIsFit
  <2> HIDE DEF t
  <2>2. Good(Replay(OnIdle(t), agent.latched))
    BY <1>2, <2>1, OnIdleIsGood, ReplayIsGood
  <2>3. QED
    BY <1>13, <2>2, BecomesGood DEF Retire, t
<1>14. CASE PreStepReturns
  <2>1. PICK decision \in {batch.decision, "reject"} :
            Becomes([System EXCEPT !.agent.at = "decided", !.batch.decision = decision])
    BY <1>14 DEF PreStepReturns
  <2>2. Good([System EXCEPT !.agent.at = "decided", !.batch.decision = decision])
    <3> DEFINE agent2 == [agent EXCEPT !.at = "decided"]
               batch2 == [batch EXCEPT !.decision = decision]
    <3>1. agent2 \in Agents /\ agent2.aborted = agent.aborted
      BY <1>1 DEF Good, States, Agents
    <3>2. /\ batch2 \in Batches /\ batch2.decision = decision
          /\ batch2.fenced = batch.fenced /\ batch2.fit = batch.fit
      BY <1>1, <2>1 DEF Good, States, Batches
    <3>3. agent.at = "outer"
      BY <1>14 DEF PreStepReturns, At
    <3> HIDE DEF agent2, batch2
    <3>4. Good([System EXCEPT !.agent = agent2, !.batch = batch2])
      BY <1>1, <2>1, <3>1, <3>2, <3>3 DEF Good, States, InCap, LetGoIsFit
    <3>5. QED
      BY <1>1, <3>4 DEF agent2, batch2
  <2>3. QED
    BY <2>1, <2>2, BecomesGood
<1>15. QED
  BY <1>3, <1>4, <1>5, <1>6, <1>7, <1>8, <1>9, <1>10, <1>11, <1>12, <1>13, <1>14 DEF AgentStep

\* Maintenance, the life of the plugin and of the process.
LEMMA WorldKeepsGood ==
    ASSUME Good(System),
           StartMaintenance \/ EndMaintenance \/ Unload \/ Unloaded \/ Load \/ Restart
    PROVE  Good(System)'
<1>1. /\ System.agent = agent /\ System.driver = driver /\ System.goal = goal
  BY DEF System
<1>2. agent.latched \in BOOLEAN
  BY <1>1 DEF Good, States, Agents
<1>3. CASE StartMaintenance
  <2>1. Good([System EXCEPT !.agent = [Calm EXCEPT !.at = "maintenance"]])
    BY DEF Good, States, Agents, Calm, InCap, LetGoIsFit
  <2>2. QED
    BY <1>3, <2>1, BecomesGood DEF StartMaintenance
<1>4. CASE EndMaintenance
  <2>1. Good([System EXCEPT !.agent = Calm])
    BY CalmIsTyped DEF Good, States, Calm, InCap, LetGoIsFit
  <2>2. QED
    BY <1>2, <1>4, <2>1, ReplayIsGood, BecomesGood DEF EndMaintenance
<1>5. CASE Unload
  <2> DEFINE working == driver.attempt # NoAttempt /\ ~StatusIsIdle(System)
             stale == driver.attempt # NoAttempt
             awaits == {w \in {"agent", "run"} : IF w = "agent" THEN working ELSE driver.run}
             s == [Disarm(System) EXCEPT !.driver.plugin = "stopping",
                                         !.driver.attempt.stale = stale,
                                         !.driver.awaits = awaits]
  <2>1. stale \in BOOLEAN /\ awaits \in SUBSET {"agent", "run"}
    OBVIOUS
  <2>2. Good(Disarm(System))
    BY DisarmIsGood
  <2>3. Good(s)
    <3> DEFINE t == Disarm(System)
               attempt2 == [t.driver.attempt EXCEPT !.stale = stale]
               driver2 == [t.driver EXCEPT !.plugin = "stopping", !.attempt = attempt2,
                                           !.awaits = awaits]
    <3> HIDE DEF stale, awaits
    <3>1. t.driver \in Drivers
      BY <2>2 DEF Good, States
    <3>2. attempt2 \in Attempts /\ attempt2.round = t.driver.attempt.round
      BY <2>1, <3>1 DEF Drivers, Attempts
    <3>3. s = [t EXCEPT !.driver = driver2]
      OBVIOUS
    <3> HIDE DEF s, t, attempt2
    <3>4. driver2 \in Drivers /\ driver2.attempt = attempt2
      BY <2>1, <3>1, <3>2 DEF Drivers
    <3> HIDE DEF driver2
    <3>5. Good(t)
      BY <2>2 DEF t
    <3>6. QED
      BY <3>2, <3>3, <3>4, <3>5, DriverStaysGood
  <2>4. Becomes(Cancel(s, FALSE)) \/ Becomes(s)
    BY <1>5, Zenon DEF Unload
  <2> HIDE DEF s
  <2>5. QED
    BY <2>3, <2>4, CancelIsGood, BecomesGood
<1>6. CASE Unloaded
  <2> DEFINE gone == [Fresh EXCEPT !.plugin = "gone"]
             s == [System EXCEPT !.driver = gone]
  <2>1. gone \in Drivers /\ gone.attempt.round \notin Rounds
    BY FreshIsTyped DEF Drivers
  <2>2. Good(s)
    <3> HIDE DEF gone
    <3>1. QED
      BY <2>1 DEF Good, States, InCap, LetGoIsFit
  <2>3. Becomes(s)
    BY <1>6 DEF Unloaded, Becomes, System
  <2> HIDE DEF s
  <2>4. QED
    BY <2>2, <2>3, BecomesGood
<1>7. CASE Load
  <2>1. Good([System EXCEPT !.driver = Fresh])
    BY FreshIsTyped DEF Good, States, InCap, LetGoIsFit
  <2>2. QED
    BY <1>7, <2>1, DisarmIsGood, BecomesGood DEF Load
<1>8. CASE Restart
  <2>1. Good([System EXCEPT !.goal.armed = FALSE, !.agent = Calm, !.batch = NoBatch,
                            !.driver = Fresh])
    BY FreshIsTyped, CalmIsTyped, NoBatchIsTyped
       DEF Good, States, Goals, Calm, InCap, LetGoIsFit
  <2>2. QED
    BY <1>8, <2>1, BecomesGood DEF Restart
<1>9. QED
  BY <1>3, <1>4, <1>5, <1>6, <1>7, <1>8

\* What users and tools do to a goal is one mutation, to a goal at the next version.
LEMMA ChangesAreMutations ==
    ASSUME goal \in Goals, ChangeGoal
    PROVE  \E g \in Goals : g.version = goal.version /\ Mutate(g)
<1>1. ASSUME NEW cap \in Caps, CreateGoal(cap) \/ EditGoal(cap)
      PROVE  \E g \in Goals : g.version = goal.version /\ Mutate(g)
  <2> DEFINE g == [goal EXCEPT !.phase = "active", !.rounds = 0, !.max = cap, !.armed = TRUE]
             h == [goal EXCEPT !.max = cap]
  <2>1. /\ g \in Goals /\ g.version = goal.version
        /\ h \in Goals /\ h.version = goal.version
    <3>1. cap \in 0 .. MaxRounds
      BY GoalRoundsAssumption DEF Caps
    <3>2. QED
      BY <3>1 DEF Goals
  <2>2. Mutate(g) \/ Mutate(h)
    BY <1>1, Zenon DEF CreateGoal, EditGoal
  <2> HIDE DEF g, h
  <2>3. QED
    BY <2>1, <2>2
<1>2. ASSUME PauseGoal \/ BlockGoal \/ CompleteGoal
      PROVE  \E g \in Goals : g.version = goal.version /\ Mutate(g)
  <2> DEFINE g(phase) == [goal EXCEPT !.phase = phase, !.armed = FALSE]
  <2>1. PICK phase \in {"paused", "blocked", "complete"} : Mutate(g(phase))
    BY <1>2 DEF PauseGoal, BlockGoal, CompleteGoal
  <2>2. g(phase) \in Goals /\ g(phase).version = goal.version
    BY DEF Goals
  <2> HIDE DEF g
  <2>3. QED
    BY <2>1, <2>2
<1>3. ASSUME ResumeGoal PROVE \E g \in Goals : g.version = goal.version /\ Mutate(g)
  <2> DEFINE g == [goal EXCEPT !.phase = "active", !.armed = TRUE]
  <2>1. Mutate(g) /\ g \in Goals /\ g.version = goal.version
    BY <1>3 DEF ResumeGoal, Goals
  <2> HIDE DEF g
  <2>2. QED
    BY <2>1
<1>4. ASSUME ClearGoal PROVE \E g \in Goals : g.version = goal.version /\ Mutate(g)
  <2> DEFINE g == [goal EXCEPT !.phase = "none", !.rounds = 0, !.max = 0, !.armed = FALSE]
  <2>1. g \in Goals /\ g.version = goal.version
    <3>1. 0 \in 0 .. MaxRounds
      BY GoalRoundsAssumption
    <3>2. QED
      BY <3>1 DEF Goals
  <2>2. Mutate(g)
    BY <1>4, Zenon DEF ClearGoal
  <2> HIDE DEF g
  <2>3. QED
    BY <2>1, <2>2
<1>5. QED
  BY <1>1, <1>2, <1>3, <1>4 DEF ChangeGoal

\* What users and tools do.
LEMMA UsersKeepGood ==
    ASSUME Good(System),
           \/ \E m \in Messages : UserSends(m)
           \/ \E keepInbox \in BOOLEAN : UserCancels(keepInbox)
           \/ ChangeGoal
    PROVE  Good(System)'
<1>1. System.goal = goal
  BY DEF System
<1>2. ASSUME NEW m \in Messages, NEW target \in {"turn", "step"}, NEW wakeup \in BOOLEAN,
             Send(m, target, wakeup)
      PROVE  Good(System)'
  <2> DEFINE afterAbort == wakeup /\ agent.at # "idle" /\ agent.aborted
             s == IF target = "turn" \/ afterAbort THEN NoticeInput(Insert(System, m, "turn"))
                  ELSE Insert(System, m, "step")
  <2>1. Good(s)
    BY InsertIsGood, NoticeInputIsGood
  <2>2. Good(Wake(s, afterAbort))
    <3>1. afterAbort \in BOOLEAN
      BY DEF Good, States, Agents, System
    <3> HIDE DEF s, afterAbort
    <3>2. QED
      BY <2>1, <3>1, WakeIsGood
  <2>3. Becomes(Wake(s, afterAbort)) \/ Becomes(s)
    BY <1>2, Zenon DEF Send
  <2> HIDE DEF s, afterAbort
  <2>4. QED
    BY <2>1, <2>2, <2>3, BecomesGood
<1>3. ASSUME NEW keepInbox \in BOOLEAN, UserCancels(keepInbox) PROVE Good(System)'
  BY <1>3, CancelIsGood, BecomesGood DEF UserCancels
<1>4. ASSUME ChangeGoal PROVE Good(System)'
  <2>1. PICK g \in Goals : g.version = goal.version /\ Mutate(g)
    BY <1>1, <1>4, ChangesAreMutations DEF Good, States
  <2>2. QED
    BY <1>1, <2>1, SetGoalIsGood, BecomesGood DEF Mutate
<1>5. QED
  BY <1>2, <1>3, <1>4 DEF UserSends

LEMMA StepIsGood == Inv /\ [Next]_vars => Inv'
<1> SUFFICES ASSUME Inv, [Next]_vars PROVE Inv'
  OBVIOUS
<1>1. Good(System)
  BY DEF Inv
<1>2. goal.version \in Nat
  BY <1>1 DEF Good, States, Goals, System
<1>3. Good(System)'
  <2>1. CASE UNCHANGED vars
    BY <1>1, <2>1 DEF vars, Good, InCap, LetGoIsFit, System
  <2>2. CASE Next
    BY <1>1, <2>2, LoopKeepsGood, TurnKeepsGood, WorldKeepsGood, UsersKeepGood DEF Next
  <2>3. QED
    BY <2>1, <2>2
<1>4. unsent' \subseteq unsent /\ halted' \in {halted, goal.version}
  BY DEF Next, vars, humans, AgentStep, LoopStep, ChangeGoal, UserSends, Send, UserCancels, Mutate,
         At, PreStep, PreStepFails, InnerEnters, InnerRejects, PreStepReturns, StepRejected,
         StepEnters, StepFails, StepAgain, TurnCompletes, NextTurn, Retire, StartMaintenance,
         EndMaintenance, FlushEnds, FlushFails, LoopGoesOn, LoopRetires, Unload, Unloaded, Load,
         Restart, CreateGoal, EditGoal, PauseGoal, BlockGoal, CompleteGoal, ResumeGoal, ClearGoal
<1>5. QED
  BY <1>2, <1>3, <1>4 DEF Inv

-----------------------------------------------------------------------------
(***************************************************************************)
(* Rounds yield to humans.  The invariant is about what the driver and the *)
(* fence may still let through, and again there is a lemma per function.   *)
(***************************************************************************)

\* The driver's round is claimed, and nothing but its place in the chain keeps it from the log.
Wanted(s) ==
    LET attempt == s.driver.attempt
    IN  /\ s.driver.plugin = "loaded" /\ Armed(s)
        /\ attempt.round \in Rounds /\ attempt.phase \in {"claimed", "admitted"}
        /\ ~attempt.stale /\ attempt.round.version = s.goal.version
        /\ attempt.round.number = s.goal.rounds + 1

\* A goal that is armed at the version of the last cancel has no driver, or the cancel is on its
\* way to it: through the aborted turn, and then as the reservation it cancelled.
HaltHolds(s, h) ==
    h = s.goal.version /\ Armed(s) =>
        \/ s.driver.plugin = "gone"
        \/ s.agent.aborted /\ HearsCancel(s)
        \/ s.agent.at = "leaving" /\ s.driver.attempt.cancelled

\* A round that may enter is the one of the step that is proposed, claimed before nothing but
\* rounds, and behind the assembly it has met the fence.
WantedIsInHand(s) ==
    Wanted(s) =>
        /\ s.driver.attempt.phase = "claimed"
        /\ s.agent.at \in {"assembling", "inner", "outer", "decided", "leaving"}
        /\ s.agent.at # "leaving" =>
               Same(s.batch.round, s.driver.attempt.round) /\ ~s.batch.overtakes
        /\ s.agent.at \in {"inner", "outer", "decided"} => s.batch.fenced

\* Nobody queued behind a round that waits, or it is known to be stale.
QueuedIsLast(s) ==
    LET turn == s.inbox.turn
    IN  s.driver.attempt.phase = "queued" /\ ~s.driver.attempt.stale =>
            turn = <<>> \/ turn[Len(turn)] = s.driver.attempt.round

\* No driver, no reservation; no reservation, no round; no round beyond the next.
ReservedIsNext(s) ==
    LET attempt == s.driver.attempt
    IN  /\ s.driver.plugin = "gone" => attempt.phase = "none"
        /\ attempt.phase = "none" => attempt.round = NoRound
        /\ attempt.round \in Rounds /\ attempt.round.version = s.goal.version =>
               attempt.round.number <= s.goal.rounds + 1

\* What the fence let go, and no cancel stopped since, yields.
LetGoYields(s, h) ==
    s.agent.at \in {"outer", "decided"} /\ ~s.agent.aborted
        /\ s.batch.fenced /\ s.batch.decision = "enter"
        => ~s.batch.overtakes /\ s.batch.round.version # h

\* The part of the invariant that a mutation of the goal relies on, and all of it.
Orderly(s, h) == h <= s.goal.version /\ QueuedIsLast(s) /\ ReservedIsNext(s) /\ LetGoYields(s, h)
Yields(s, h) == Orderly(s, h) /\ HaltHolds(s, h) /\ WantedIsInHand(s)

\* The state t differs from s in nothing that could let a round through.
Quieter(t, s) ==
    /\ t.goal.version = s.goal.version /\ t.goal.rounds = s.goal.rounds
    /\ Armed(t) => Armed(s)
    /\ t.agent.at = s.agent.at
    /\ s.agent.aborted /\ HearsCancel(s) => t.agent.aborted
    /\ t.inbox.turn \in {s.inbox.turn, <<>>}
    /\ t.batch.round = s.batch.round /\ t.batch.fenced = s.batch.fenced
    /\ t.batch.decision = s.batch.decision /\ t.batch.overtakes = s.batch.overtakes
    /\ t.driver.plugin = "loaded" => s.driver.plugin = "loaded"
    /\ t.driver.plugin = "gone" <=> s.driver.plugin = "gone"
    /\ t.driver.attempt.round = s.driver.attempt.round
    /\ t.driver.attempt.phase = s.driver.attempt.phase
    /\ s.driver.attempt.cancelled => t.driver.attempt.cancelled
    /\ s.driver.attempt.stale => t.driver.attempt.stale

LEMMA QuieterYields ==
    ASSUME NEW s, NEW t, Quieter(t, s)
    PROVE  /\ Wanted(t) => Wanted(s)
           /\ \A h : Yields(s, h) => Yields(t, h)
<1>1. Wanted(t) => Wanted(s)
  BY DEF Quieter, Wanted
<1>2. ASSUME NEW h, Yields(s, h) PROVE Yields(t, h)
  <2>1. h <= t.goal.version /\ QueuedIsLast(t) /\ ReservedIsNext(t)
    BY <1>2 DEF Quieter, Yields, Orderly, QueuedIsLast, ReservedIsNext
  <2>2. LetGoYields(t, h)
    BY <1>2 DEF Quieter, Yields, Orderly, LetGoYields, HearsCancel
  <2>3. HaltHolds(t, h)
    BY <1>2 DEF Quieter, Yields, HaltHolds, HearsCancel
  <2>4. WantedIsInHand(t)
    BY <1>1, <1>2 DEF Quieter, Yields, WantedIsInHand
  <2>5. QED
    BY <2>1, <2>2, <2>3, <2>4 DEF Yields, Orderly
<1>3. QED
  BY <1>1, <1>2

\* Changes of the driver that no reservation sees.
LEMMA DriverStaysQuiet ==
    ASSUME NEW s, Good(s), NEW d \in Drivers, d.attempt = s.driver.attempt,
           d.plugin = s.driver.plugin
    PROVE  Quieter([s EXCEPT !.driver = d], s)
BY DEF Good, States, Quieter, Armed

LEMMA DisarmIsQuieter == ASSUME NEW s, Good(s) PROVE Quieter(Disarm(s), s)
BY DEF Good, States, Goals, Quieter, Armed, Disarm

LEMMA RestoreOthersIsQuieter == ASSUME NEW s, Good(s) PROVE Quieter(RestoreOthers(s), s)
<1> DEFINE inbox2 == [s.inbox EXCEPT !.step = s.batch.others \o s.inbox.step]
           batch2 == [s.batch EXCEPT !.others = <<>>]
<1>1. inbox2.turn = s.inbox.turn
  BY DEF Good, States, Inboxes
<1>2. /\ batch2.fenced = s.batch.fenced /\ batch2.round = s.batch.round
      /\ batch2.decision = s.batch.decision /\ batch2.overtakes = s.batch.overtakes
  BY DEF Good, States, Batches
<1>3. RestoreOthers(s) = [s EXCEPT !.inbox = inbox2, !.batch = batch2]
  BY DEF Good, States, RestoreOthers
<1> HIDE DEF inbox2, batch2
<1>4. QED
  BY <1>1, <1>2, <1>3 DEF Good, States, Quieter, Armed

LEMMA TurnEndIsQuieter == ASSUME NEW s, Good(s), NEW reason PROVE Quieter(TurnEnd(s, reason), s)
<1>1. Quieter(s, s)
  BY DEF Quieter
<1>2. Quieter([s EXCEPT !.driver.attempt.cancelled = TRUE], s)
  <2> DEFINE attempt2 == [s.driver.attempt EXCEPT !.cancelled = TRUE]
             driver2 == [s.driver EXCEPT !.attempt = attempt2]
  <2>1. /\ driver2.plugin = s.driver.plugin /\ driver2.attempt = attempt2
        /\ attempt2.round = s.driver.attempt.round /\ attempt2.phase = s.driver.attempt.phase
        /\ attempt2.stale = s.driver.attempt.stale /\ attempt2.cancelled
    BY DEF Good, States, Drivers, Attempts
  <2> HIDE DEF driver2, attempt2
  <2>2. Quieter([s EXCEPT !.driver = driver2], s)
    BY <2>1 DEF Good, States, Quieter, Armed
  <2>3. QED
    BY <2>2 DEF driver2, attempt2
<1>3. QED
  BY <1>1, <1>2, DisarmIsQuieter DEF TurnEnd

LEMMA CancelIsQuieter ==
    ASSUME NEW s, Good(s), NEW keepInbox \in BOOLEAN
    PROVE  /\ Quieter(Cancel(s, keepInbox), s)
           /\ Cancel(s, keepInbox).agent.aborted <=> s.agent.at # "idle"
<1> DEFINE cancelled == \/ s.driver.attempt.cancelled
                        \/ \E item \in ToSet(s.inbox.turn) : Same(item, s.driver.attempt.round)
           t == [s EXCEPT !.inbox = [turn |-> <<>>, step |-> <<>>], !.agent.latched = FALSE,
                          !.driver.attempt.cancelled = cancelled]
           aborted == s.agent.at # "idle"
<1>1. s.driver.attempt.cancelled => cancelled
  OBVIOUS
<1>2. Quieter([t EXCEPT !.agent.aborted = aborted], s)
  <2> DEFINE attempt2 == [s.driver.attempt EXCEPT !.cancelled = cancelled]
             driver2 == [s.driver EXCEPT !.attempt = attempt2]
             agent2 == [s.agent EXCEPT !.latched = FALSE, !.aborted = aborted]
             inbox2 == [turn |-> <<>>, step |-> <<>>]
             u == [s EXCEPT !.inbox = inbox2, !.agent = agent2, !.driver = driver2]
  <2>1. [t EXCEPT !.agent.aborted = aborted] = u
    <3> HIDE DEF cancelled, aborted
    <3>1. QED
      BY DEF Good, States, Agents
  <2>2. agent2.at = s.agent.at /\ agent2.aborted = aborted
    BY DEF Good, States, Agents
  <2>3. /\ driver2.plugin = s.driver.plugin /\ driver2.attempt = attempt2
        /\ attempt2.round = s.driver.attempt.round /\ attempt2.phase = s.driver.attempt.phase
        /\ attempt2.stale = s.driver.attempt.stale
        /\ s.driver.attempt.cancelled => attempt2.cancelled
    <3> HIDE DEF cancelled
    <3>1. QED
      BY <1>1 DEF Good, States, Drivers, Attempts
  <2> HIDE DEF agent2, driver2, attempt2, cancelled
  <2>4. Quieter(u, s)
    BY <2>2, <2>3 DEF Good, States, Quieter, Armed, HearsCancel
  <2>5. QED
    BY <2>1, <2>4
<1>3. Quieter([s EXCEPT !.agent.aborted = aborted], s)
  BY DEF Good, States, Agents, Quieter, Armed, HearsCancel
<1>4. \/ Cancel(s, keepInbox) = [t EXCEPT !.agent.aborted = aborted]
      \/ Cancel(s, keepInbox) = [s EXCEPT !.agent.aborted = aborted]
  BY Zenon DEF Cancel
<1>5. /\ [t EXCEPT !.agent.aborted = aborted].agent.aborted <=> s.agent.at # "idle"
      /\ [s EXCEPT !.agent.aborted = aborted].agent.aborted <=> s.agent.at # "idle"
  <2> HIDE DEF cancelled
  <2>1. QED
    BY DEF Good, States, Agents
<1> HIDE DEF t, aborted
<1>6. QED
  BY <1>2, <1>3, <1>4, <1>5

\* A claim takes the driver's round with it only if nobody but rounds queued behind it.
LEMMA ClaimYields ==
    ASSUME NEW s, Good(s), NEW h, Yields(s, h), s.agent.at \in {"idle", "turning", "step"},
           NEW target \in {"turn", "step"}
    PROVE  Yields(Claim(s, target), h)
<1> DEFINE turn == s.inbox.turn
           first == IF target = "step" \/ turn = <<>> THEN <<>> ELSE <<Head(turn)>>
           rest  == SubSeq(turn, Len(first) + 1, Len(turn))
           human == IF first # <<>> /\ first[1] \in Messages THEN first ELSE <<>>
           round == IF first = human THEN NoRound ELSE first[1]
           others == s.inbox.step \o human
           overtakes == ToSet(rest) # {} /\ ToSet(rest) \subseteq Messages
           batch2 == [NoBatch EXCEPT !.round = round, !.others = others, !.overtakes = overtakes]
           phase == IF Same(round, s.driver.attempt.round) THEN "claimed"
                    ELSE s.driver.attempt.phase
           inbox2 == [turn |-> rest, step |-> <<>>]
           agent2 == [s.agent EXCEPT !.at = "assembling"]
           attempt2 == [s.driver.attempt EXCEPT !.phase = phase]
           driver2 == [s.driver EXCEPT !.attempt = attempt2]
           t == [s EXCEPT !.inbox = inbox2, !.batch = batch2, !.agent = agent2,
                          !.driver = driver2]
<1>1. turn \in Seq(Messages \cup Rounds)
  BY DEF Good, States, Inboxes
<1>2. \/ first = <<>> /\ round = NoRound /\ rest = turn
      \/ turn # <<>> /\ rest = Tail(turn)
  <2>1. CASE target = "step" \/ turn = <<>>
    <3>1. first = <<>> /\ round = NoRound
      BY <2>1
    <3>2. rest = SubSeq(turn, 1, Len(turn))
      <4>1. Len(first) + 1 = 1
        BY <3>1
      <4> HIDE DEF first
      <4>2. QED
        BY <4>1
    <3>3. rest = turn
      BY <1>1, <3>2, SubSeqFull
    <3>4. QED
      BY <3>1, <3>3
  <2>2. CASE ~(target = "step" \/ turn = <<>>)
    <3>1. Len(first) = 1
      BY <2>2
    <3>2. rest = Tail(turn)
      BY <1>1, <2>2, <3>1
    <3>3. QED
      BY <2>2, <3>2
  <2>3. QED
    BY <2>1, <2>2
<1>3. Claim(s, target) = t
  <2>1. Claim(s, target) = [s EXCEPT !.inbox = [turn |-> rest, step |-> <<>>], !.batch = batch2,
                               !.agent.at = "assembling", !.driver.attempt.phase = phase]
    BY Zenon DEF Claim
  <2> HIDE DEF rest, batch2, phase
  <2>2. QED
    BY <2>1 DEF Good, States
<1> HIDE DEF first, human, round, others
\* What waits stays in order, and the last of it can only be claimed last.
<1>4. ASSUME rest # <<>>
      PROVE  /\ turn # <<>> /\ rest[Len(rest)] = turn[Len(turn)]
             /\ turn[Len(turn)] \in ToSet(rest)
  <2>1. CASE rest = turn
    <3>1. Len(turn) \in DOMAIN turn /\ turn # <<>>
      BY <1>1, <1>4, <2>1
    <3>2. QED
      BY <2>1, <3>1 DEF ToSet
  <2>2. CASE turn # <<>> /\ rest = Tail(turn)
    <3>1. /\ Len(rest) = Len(turn) - 1 /\ Len(rest) \in DOMAIN rest
          /\ rest[Len(rest)] = turn[Len(turn)]
      <4> HIDE DEF rest
      <4>1. QED
        BY <1>1, <1>4, <2>2
    <3>2. QED
      BY <2>2, <3>1 DEF ToSet
  <2>3. QED
    BY <1>2, <2>1, <2>2
<1>5. ASSUME overtakes, s.driver.attempt.round \in Rounds, turn[Len(turn)] = s.driver.attempt.round
      PROVE  FALSE
  <2>1. rest # <<>>
    BY <1>5 DEF ToSet
  <2>2. turn[Len(turn)] \in Messages
    BY <1>4, <1>5, <2>1
  <2>3. QED
    BY <1>5, <2>2, GoalRoundsAssumption
<1>6. ~Wanted(s)
  BY DEF Yields, WantedIsInHand
<1>7. /\ t.goal = s.goal /\ t.log = s.log /\ t.agent.at = "assembling" /\ t.inbox.turn = rest
      /\ t.agent.aborted = s.agent.aborted /\ t.driver.plugin = s.driver.plugin
      /\ t.batch.round = round /\ t.batch.overtakes = overtakes
      /\ t.driver.attempt.phase = phase /\ t.driver.attempt.round = s.driver.attempt.round
      /\ t.driver.attempt.stale = s.driver.attempt.stale
  <2> HIDE DEF rest, overtakes, phase
  <2>1. QED
    BY DEF Good, States, Agents, Drivers, Attempts, NoBatch
<1> HIDE DEF t, overtakes, rest
<1>8. phase # s.driver.attempt.phase => /\ phase = "claimed" /\ turn # <<>> /\ round # NoRound
                                        /\ Same(round, s.driver.attempt.round)
  BY <1>2, GoalRoundsAssumption DEF Same
<1> HIDE DEF phase
<1>9. HaltHolds(t, h)
  BY <1>7 DEF Yields, HaltHolds, Armed, HearsCancel
<1>10. WantedIsInHand(t)
  <2> SUFFICES ASSUME Wanted(t) PROVE WantedIsInHand(t)
    BY DEF WantedIsInHand
  <2>1. phase # s.driver.attempt.phase /\ s.driver.attempt.phase \notin {"claimed", "admitted"}
    BY <1>6, <1>7, <1>8 DEF Wanted, Armed
  <2>2. phase = "claimed" /\ turn # <<>> /\ Same(round, s.driver.attempt.round)
    BY <1>8, <2>1
  <2>3. s.driver.attempt.round \in Rounds /\ ~s.driver.attempt.stale
    BY <1>7 DEF Wanted
  <2>4. s.driver.attempt.phase = "queued"
    <3>1. s.driver.attempt.phase \in {"none", "queued", "claimed", "admitted"}
      BY DEF Good, States, Drivers, Attempts
    <3>2. s.driver.attempt.phase # "none"
      BY <2>3, GoalRoundsAssumption DEF Yields, Orderly, ReservedIsNext
    <3>3. QED
      BY <2>1, <3>1, <3>2
  <2>5. turn[Len(turn)] = s.driver.attempt.round
    BY <2>2, <2>3, <2>4 DEF Yields, Orderly, QueuedIsLast
  <2>6. ~overtakes
    BY <1>5, <2>3, <2>5
  <2>7. QED
    BY <1>7, <2>2, <2>6 DEF WantedIsInHand
<1>11. QueuedIsLast(t)
  <2> SUFFICES ASSUME phase = "queued", ~s.driver.attempt.stale, rest # <<>>
               PROVE  rest[Len(rest)] = s.driver.attempt.round
    BY <1>7 DEF QueuedIsLast
  <2>1. s.driver.attempt.phase = "queued"
    BY <1>8
  <2>2. QED
    BY <1>4, <2>1 DEF Yields, Orderly, QueuedIsLast
<1>12. ReservedIsNext(t)
  <2>1. ReservedIsNext(s)
    BY DEF Yields, Orderly
  <2>2. s.driver.attempt.phase = "none" => phase = "none"
    BY <1>8, <2>1, GoalRoundsAssumption DEF ReservedIsNext, Same
  <2>3. phase = "none" => s.driver.attempt.phase = "none"
    BY <1>8
  <2>4. QED
    BY <1>7, <2>1, <2>2, <2>3 DEF ReservedIsNext
<1>13. h <= t.goal.version /\ LetGoYields(t, h)
  BY <1>7 DEF Yields, Orderly, LetGoYields
<1>14. QED
  BY <1>3, <1>9, <1>10, <1>11, <1>12, <1>13 DEF Yields, Orderly

LEMMA OpenTurnYields ==
    ASSUME NEW s, Good(s), NEW h, Yields(s, h), s.agent.at \in {"idle", "turning"}
    PROVE  Yields(OpenTurn(s), h)
<1> DEFINE t == [s EXCEPT !.agent.aborted = FALSE, !.agent.latched = FALSE]
<1>1. Good(t) /\ t.agent.at = s.agent.at
  BY DEF Good, States, Agents, InCap, LetGoIsFit
<1>2. Quieter(t, s)
  BY DEF Good, States, Agents, Quieter, Armed, HearsCancel
<1>3. OpenTurn(s) = Claim(t, "turn")
  BY DEF OpenTurn
<1> HIDE DEF t
<1>4. QED
  BY <1>1, <1>2, <1>3, QuieterYields, ClaimYields

LEMMA WakeYields ==
    ASSUME NEW s, Good(s), NEW h, Yields(s, h), NEW afterAbort \in BOOLEAN
    PROVE  Yields(Wake(s, afterAbort), h)
<1>1. CASE s.agent.at = "idle"
  BY <1>1, OpenTurnYields DEF Wake
<1>2. CASE s.agent.at # "idle"
  <2>1. Quieter([s EXCEPT !.agent.latched = TRUE], s)
    BY DEF Good, States, Agents, Quieter, Armed
  <2>2. QED
    BY <1>2, <2>1, QuieterYields DEF Wake
<1>3. QED
  BY <1>1, <1>2

LEMMA ReplayYields ==
    ASSUME NEW s, Good(s), NEW h, Yields(s, h), NEW latched \in BOOLEAN
    PROVE  Yields(Replay(s, latched), h)
BY OpenTurnYields DEF Replay

\* A message for a turn makes what is queued stale.
LEMMA MessageYields ==
    ASSUME NEW s, Good(s), NEW h, Yields(s, h), NEW m \in Messages
    PROVE  /\ Yields(NoticeInput(Insert(s, m, "turn")), h)
           /\ Yields(Insert(s, m, "step"), h)
<1>1. Yields(Insert(s, m, "step"), h)
  <2>1. Quieter(Insert(s, m, "step"), s)
    BY DEF Good, States, Inboxes, Quieter, Armed, Insert
  <2>2. QED
    BY <2>1, QuieterYields
<1> DEFINE inbox2 == [s.inbox EXCEPT !.turn = Append(@, m)]
           i == [s EXCEPT !.inbox = inbox2]
           stale == s.driver.attempt.stale \/ s.driver.attempt.phase = "queued"
           attempt2 == [s.driver.attempt EXCEPT !.stale = stale]
           driver2 == [s.driver EXCEPT !.competing = TRUE, !.attempt = attempt2]
           t == [s EXCEPT !.inbox = inbox2, !.driver = driver2]
<1>2. \/ NoticeInput(Insert(s, m, "turn")) = t
      \/ NoticeInput(Insert(s, m, "turn")) = i /\ s.driver.plugin = "gone"
  <2>1. Insert(s, m, "turn") = i
    BY DEF Good, States, Inboxes, Insert
  <2>2. i.driver = s.driver
    BY DEF Good, States
  <2> HIDE DEF i
  <2>3. \/ /\ NoticeInput(i) = [i EXCEPT !.driver.competing = TRUE,
                                         !.driver.attempt.stale = stale]
        \/ NoticeInput(i) = i /\ s.driver.plugin = "gone"
    BY <2>2, Zenon DEF NoticeInput, Listens
  <2>4. [i EXCEPT !.driver.competing = TRUE, !.driver.attempt.stale = stale] = t
    <3> HIDE DEF stale
    <3>1. QED
      BY DEF Good, States, Drivers, i
  <2>5. QED
    BY <2>1, <2>3, <2>4
<1>3. ASSUME NEW u, \/ u = t
                    \/ u = i /\ s.driver.plugin = "gone"
      PROVE  Yields(u, h)
  <2>1. /\ u.goal = s.goal /\ u.log = s.log /\ u.agent = s.agent /\ u.batch = s.batch
        /\ u.driver.plugin = s.driver.plugin
        /\ u.driver.attempt.round = s.driver.attempt.round
        /\ u.driver.attempt.phase = s.driver.attempt.phase
        /\ u.driver.attempt.cancelled = s.driver.attempt.cancelled
        /\ s.driver.attempt.stale => u.driver.attempt.stale
        /\ \/ u.driver.attempt.phase = "queued" => u.driver.attempt.stale
           \/ u.driver.plugin = "gone"
    <3>1. (s.driver.attempt.stale => stale) /\ (s.driver.attempt.phase = "queued" => stale)
      OBVIOUS
    <3>2. /\ attempt2.stale = stale /\ attempt2.round = s.driver.attempt.round
          /\ attempt2.phase = s.driver.attempt.phase
          /\ attempt2.cancelled = s.driver.attempt.cancelled
          /\ driver2.attempt = attempt2 /\ driver2.plugin = s.driver.plugin
      <4> HIDE DEF stale
      <4>1. QED
        BY DEF Good, States, Drivers, Attempts
    <3> HIDE DEF inbox2, stale, attempt2, driver2
    <3>3. CASE u = t
      <4>1. /\ u.goal = s.goal /\ u.log = s.log /\ u.agent = s.agent /\ u.batch = s.batch
            /\ u.driver = driver2
        BY <3>3 DEF Good, States
      <4>2. QED
        BY <3>1, <3>2, <4>1
    <3>4. CASE u = i /\ s.driver.plugin = "gone"
      <4>1. /\ u.goal = s.goal /\ u.log = s.log /\ u.agent = s.agent /\ u.batch = s.batch
            /\ u.driver = s.driver
        BY <3>4 DEF Good, States
      <4>2. QED
        BY <3>4, <4>1
    <3>5. QED
      BY <1>3, <3>3, <3>4
  <2>2. QueuedIsLast(u) /\ ReservedIsNext(u) /\ h <= u.goal.version /\ LetGoYields(u, h)
    BY <2>1 DEF Yields, Orderly, QueuedIsLast, ReservedIsNext, LetGoYields
  <2>3. HaltHolds(u, h) /\ WantedIsInHand(u)
    BY <2>1 DEF Yields, HaltHolds, WantedIsInHand, Wanted, Armed, HearsCancel
  <2>4. QED
    BY <2>2, <2>3 DEF Yields, Orderly
<1> HIDE DEF i, t
<1>4. QED
  BY <1>1, <1>2, <1>3

-----------------------------------------------------------------------------
(* The loops of the driver again.                                          *)

LEMMA PassesAreQuieter ==
    ASSUME NEW s, Good(s)
    PROVE  /\ Quieter(Returned(s), s) /\ Quieter(Flush(s), s) /\ Quieter(Checkpoint(s), s)
           /\ Quieter(Unrequested(s), s)
<1>1. Quieter(Returned(s), s)
  <2> DEFINE driver2 == [s.driver EXCEPT !.returned = s.driver.returned + 1]
  <2>1. driver2 \in Drivers /\ driver2.attempt = s.driver.attempt
        /\ driver2.plugin = s.driver.plugin
    BY DEF Good, States, Drivers
  <2>2. Returned(s) = [s EXCEPT !.driver = driver2]
    BY DEF Good, States, Returned
  <2>3. QED
    BY <2>1, <2>2, DriverStaysQuiet
<1>2. Quieter(Flush(s), s)
  <2> DEFINE flushing == s.driver.flushing + 1
             driver2 == [s.driver EXCEPT !.needsCheckpoint = FALSE, !.flushing = flushing]
  <2>1. flushing \in Nat
    BY DEF Good, States, Drivers
  <2>2. Flush(s) = [s EXCEPT !.driver = driver2]
    BY DEF Good, States, Flush
  <2> HIDE DEF flushing
  <2>3. driver2 \in Drivers /\ driver2.attempt = s.driver.attempt
        /\ driver2.plugin = s.driver.plugin
    BY <2>1 DEF Good, States, Drivers
  <2> HIDE DEF driver2
  <2>4. QED
    BY <2>2, <2>3, DriverStaysQuiet
<1>3. Quieter(Unrequested(s), s)
  <2> DEFINE driver2 == [s.driver EXCEPT !.requested = FALSE]
  <2>1. driver2 \in Drivers /\ driver2.attempt = s.driver.attempt
        /\ driver2.plugin = s.driver.plugin
    BY DEF Good, States, Drivers
  <2>2. QED
    BY <2>1, DriverStaysQuiet DEF Unrequested
<1>4. QED
  BY <1>1, <1>2, <1>3 DEF Checkpoint

\* What is behind a request is quiet in itself.
LEMMA RequestIsQuieter ==
    ASSUME NEW s, NEW passed, Good(s), Good(passed)
    PROVE  Quieter(Request(s, passed), s) \/ Quieter(Request(s, passed), passed)
<1>1. Quieter([s EXCEPT !.driver.requested = TRUE], s)
  <2> DEFINE driver2 == [s.driver EXCEPT !.requested = TRUE]
  <2>1. driver2 \in Drivers /\ driver2.attempt = s.driver.attempt
        /\ driver2.plugin = s.driver.plugin
    BY DEF Good, States, Drivers
  <2>2. QED
    BY <2>1, DriverStaysQuiet
<1>2. Quieter([passed EXCEPT !.driver.run = TRUE], passed)
  <2> DEFINE driver2 == [passed.driver EXCEPT !.run = TRUE]
  <2>1. driver2 \in Drivers /\ driver2.attempt = passed.driver.attempt
        /\ driver2.plugin = passed.driver.plugin
    BY DEF Good, States, Drivers
  <2>2. QED
    BY <2>1, DriverStaysQuiet
<1>3. Quieter(s, s)
  BY DEF Quieter
<1>4. QED
  BY <1>1, <1>2, <1>3 DEF Request

\* A mutation: what was reserved is behind the goal, and so is the last cancel.
LEMMA SetGoalYields ==
    ASSUME NEW s, Good(s), NEW h \in Nat, Orderly(s, h), NEW g \in Goals,
           g.version = s.goal.version
    PROVE  /\ Yields(SetGoal(s, g), h)
           /\ SetGoal(s, g).agent.at = s.agent.at
<1> DEFINE goal2 == [g EXCEPT !.version = g.version + 1]
           needs == s.driver.needsCheckpoint \/ Listens(s)
           t == [s EXCEPT !.goal = goal2, !.driver.needsCheckpoint = needs]
           passed == Checkpoint(Unrequested(t))
<1>1. goal2 \in Goals /\ goal2.version = s.goal.version + 1 /\ s.goal.version \in Nat
  BY DEF Goals, Good, States
<1>2. needs \in BOOLEAN
  BY DEF Good, States, Drivers, Listens
<1>3. /\ t \in States /\ t.goal = goal2 /\ t.log = s.log /\ t.agent = s.agent
      /\ t.inbox = s.inbox /\ t.batch = s.batch
      /\ t.driver.attempt = s.driver.attempt /\ t.driver.plugin = s.driver.plugin
  <2> HIDE DEF goal2, needs
  <2>1. QED
    BY <1>1, <1>2 DEF Good, States, Drivers
<1> HIDE DEF t, goal2
<1>4. /\ s.driver.attempt.round \in Rounds =>
             /\ s.driver.attempt.round.version \in Nat
             /\ s.driver.attempt.round.version <= s.goal.version
      /\ s.log # "unsound" /\ LetGoIsFit(s)
  BY DEF Good, InCap, Rounds
<1>5. Good(t)
  BY <1>1, <1>3, <1>4 DEF Good, InCap, LetGoIsFit
<1>6. ~Wanted(t) /\ h < t.goal.version
  BY <1>1, <1>3, <1>4 DEF Wanted, Orderly
<1>7. QueuedIsLast(t) /\ ReservedIsNext(t) /\ LetGoYields(t, h)
  BY <1>1, <1>3, <1>4 DEF Orderly, QueuedIsLast, ReservedIsNext, LetGoYields
<1>8. Yields(t, h)
  BY <1>1, <1>3, <1>6, <1>7 DEF Yields, Orderly, HaltHolds, WantedIsInHand
<1>9. Good(passed) /\ Yields(passed, h) /\ passed.agent.at = t.agent.at
  <2>1. Good(Unrequested(t)) /\ Quieter(Unrequested(t), t)
    BY <1>5, UnrequestedIsGood, PassesAreQuieter
  <2>2. Good(passed) /\ Quieter(passed, Unrequested(t))
    BY <2>1, CheckpointIsGood, PassesAreQuieter
  <2>3. QED
    BY <1>8, <2>1, <2>2, QuieterYields DEF Quieter
<1>10. SetGoal(s, g) = Request(t, passed)
  BY Zenon DEF SetGoal, t, goal2
<1> HIDE DEF passed
<1>11. PICK u \in {t, passed} : Quieter(SetGoal(s, g), u)
  BY <1>5, <1>9, <1>10, RequestIsQuieter
<1>12. Yields(u, h) /\ u.agent.at = s.agent.at
  BY <1>3, <1>8, <1>9
<1>13. SetGoal(s, g).agent.at = u.agent.at
  BY <1>11 DEF Quieter
<1>14. QED
  BY <1>11, <1>12, <1>13, QuieterYields

LEMMA StopGoalYields ==
    ASSUME NEW s, Good(s), NEW h \in Nat, Orderly(s, h), NEW phase \in {"paused", "blocked"}
    PROVE  Yields(StopGoal(s, phase), h) /\ StopGoal(s, phase).agent.at = s.agent.at
<1> DEFINE g == [s.goal EXCEPT !.phase = phase, !.armed = FALSE]
<1>1. g \in Goals /\ g.version = s.goal.version
  BY DEF Good, States, Goals
<1>2. StopGoal(s, phase) = SetGoal(s, g)
  BY DEF StopGoal
<1> HIDE DEF g
<1>3. QED
  BY <1>1, <1>2, SetGoalYields

\* Without a reservation nothing is wanted; only a cancel on its way out needs one.
LEMMA DroppedIsOrderly ==
    ASSUME NEW s, Good(s), NEW h, Orderly(s, h), NEW d \in Drivers, d.attempt = NoAttempt,
           d.plugin = s.driver.plugin
    PROVE  /\ Orderly([s EXCEPT !.driver = d], h) /\ ~Wanted([s EXCEPT !.driver = d])
           /\ Yields(s, h) /\ s.agent.at # "leaving" => Yields([s EXCEPT !.driver = d], h)
<1> DEFINE t == [s EXCEPT !.driver = d]
<1>1. /\ t.goal = s.goal /\ t.log = s.log /\ t.agent = s.agent /\ t.batch = s.batch
      /\ t.driver = d
  BY DEF Good, States
<1> HIDE DEF t
<1>2. d.attempt.phase = "none" /\ d.attempt.round = NoRound /\ NoRound \notin Rounds
  BY GoalRoundsAssumption DEF NoAttempt
<1>3. Orderly(t, h) /\ ~Wanted(t)
  BY <1>1, <1>2 DEF Orderly, QueuedIsLast, ReservedIsNext, LetGoYields, Wanted
<1>4. ASSUME Yields(s, h), s.agent.at # "leaving" PROVE Yields(t, h)
  BY <1>1, <1>3, <1>4 DEF Yields, HaltHolds, WantedIsInHand, Armed, HearsCancel
<1>5. QED
  BY <1>3, <1>4 DEF t

LEMMA DropAttemptYields ==
    ASSUME NEW s, Good(s), NEW h, Orderly(s, h)
    PROVE  /\ Orderly(DropAttempt(s), h) /\ ~Wanted(DropAttempt(s))
           /\ Yields(s, h) /\ s.agent.at # "leaving" => Yields(DropAttempt(s), h)
           /\ DropAttempt(s).agent = s.agent /\ DropAttempt(s).batch = s.batch
<1> DEFINE d == [s.driver EXCEPT !.attempt = NoAttempt]
<1>1. NoAttempt \in Attempts
  BY DEF Attempts, NoAttempt
<1>2. d \in Drivers /\ d.attempt = NoAttempt /\ d.plugin = s.driver.plugin
  BY <1>1 DEF Good, States, Drivers
<1>3. DropAttempt(s) = [s EXCEPT !.driver = d]
  BY DEF Good, States, DropAttempt
<1>4. [s EXCEPT !.driver = d].agent = s.agent /\ [s EXCEPT !.driver = d].batch = s.batch
  BY DEF Good, States
<1> HIDE DEF d
<1>5. QED
  BY <1>2, <1>3, <1>4, DroppedIsOrderly

LEMMA SettledYields ==
    ASSUME NEW s, Good(s), NEW h, Yields(s, h), s.agent.at # "leaving"
    PROVE  Yields(Settled(s), h)
<1> DEFINE d == [s.driver EXCEPT !.attempt = NoAttempt, !.needsCheckpoint = TRUE,
                                 !.requested = TRUE]
<1>1. NoAttempt \in Attempts
  BY DEF Attempts, NoAttempt
<1>2. d \in Drivers /\ d.attempt = NoAttempt /\ d.plugin = s.driver.plugin
  BY <1>1 DEF Good, States, Drivers
<1>3. Settled(s) = [s EXCEPT !.driver = d]
  BY DEF Good, States, Settled
<1> HIDE DEF d
<1>4. QED
  BY <1>2, <1>3, DroppedIsOrderly DEF Yields

\* The round of a reservation waits at the end of the inbox, at the version there is now.
LEMMA ReserveYields ==
    ASSUME NEW s, Good(s), NEW h, Yields(s, h), StatusIsIdle(s), s.driver.plugin = "loaded",
           s.goal.rounds < s.goal.max
    PROVE  Yields(Reserve(s), h)
<1> DEFINE turn == s.inbox.turn
           version == s.goal.version
           number  == s.goal.rounds + 1
           copy  == CHOOSE n \in 0 .. Len(turn) :
                        [version |-> version, number |-> number, copy |-> n] \notin ToSet(turn)
           round == [version |-> version, number |-> number, copy |-> copy]
           own   == [NoAttempt EXCEPT !.round = round, !.phase = "queued"]
           t == [s EXCEPT !.driver.attempt = own]
           u == Insert(t, round, "turn")
<1>1. turn \in Seq(Messages \cup Rounds)
  BY DEF Good, States, Inboxes
<1>2. copy \in 0 .. Len(turn)
  <2>1. \E n \in 0 .. Len(turn) :
            [version |-> version, number |-> number, copy |-> n] \notin ToSet(turn)
    BY <1>1, SomeCopyIsUnused
  <2>2. QED
    BY <2>1, Zenon
<1>3. /\ version \in Nat /\ number \in Nat /\ copy \in Nat
      /\ number <= s.goal.max
  BY <1>1, <1>2 DEF Good, States, Goals
<1> HIDE DEF copy
<1>4. round \in Rounds /\ round.version = version /\ round.number = number
  BY <1>3 DEF Rounds
<1> HIDE DEF round
<1>5. own \in Attempts /\ own.round = round /\ own.phase = "queued"
  BY <1>4 DEF Attempts, NoAttempt
<1> HIDE DEF own
<1>6. /\ Good(t) /\ t.goal = s.goal /\ t.log = s.log /\ t.agent = s.agent /\ t.batch = s.batch
      /\ t.driver.attempt = own /\ t.driver.plugin = "loaded" /\ t.inbox = s.inbox
  BY <1>3, <1>4, <1>5 DEF Good, States, Drivers, InCap, LetGoIsFit
<1> HIDE DEF t
<1>7. /\ Good(u) /\ u.goal = s.goal /\ u.log = s.log /\ u.agent = s.agent /\ u.batch = s.batch
      /\ u.driver = t.driver /\ u.inbox.turn = Append(turn, round)
  <2>1. Good(u)
    BY <1>4, <1>6, InsertIsGood
  <2>2. QED
    BY <1>6, <2>1 DEF Good, States, Inboxes, Insert
<1> HIDE DEF u
<1>8. QueuedIsLast(u) /\ ReservedIsNext(u)
  <2>1. u.inbox.turn[Len(u.inbox.turn)] = round
    BY <1>1, <1>4, <1>7
  <2>2. round.number <= s.goal.rounds + 1
    BY <1>3, <1>4
  <2>3. QED
    BY <1>5, <1>6, <1>7, <2>1, <2>2 DEF QueuedIsLast, ReservedIsNext
<1>9. Orderly(u, h)
  BY <1>7, <1>8 DEF Yields, Orderly, LetGoYields
<1>10. HaltHolds(u, h)
  BY <1>6, <1>7 DEF Yields, HaltHolds, Armed, StatusIsIdle, HearsCancel
<1>11. WantedIsInHand(u)
  BY <1>5, <1>6, <1>7 DEF WantedIsInHand, Wanted
<1>12. Reserve(s) = Wake(u, FALSE)
  BY Zenon DEF Reserve, u, t, own, round, copy
<1>13. QED
  BY <1>7, <1>9, <1>10, <1>11, <1>12, WakeYields DEF Yields

LEMMA AfterCheckpointYields ==
    ASSUME NEW s, Good(s), NEW h \in Nat, Yields(s, h), Ready(s)
    PROVE  Yields(AfterCheckpoint(s), h)
<1>1. s.goal.rounds \in Nat /\ s.goal.max \in Nat
  BY DEF Good, States, Goals
<1>2. StatusIsIdle(s) /\ s.driver.plugin = "loaded" /\ s.agent.at # "leaving"
  BY DEF Ready, StatusIsIdle
<1>3. Orderly(s, h)
  BY DEF Yields
<1>4. Yields(Settled(s), h) /\ Yields(StopGoal(s, "blocked"), h)
  BY <1>2, <1>3, SettledYields, StopGoalYields
<1>5. ~(s.goal.rounds >= s.goal.max) => Yields(Reserve(s), h)
  BY <1>1, <1>2, ReserveYields
<1>6. QED
  BY <1>4, <1>5 DEF AfterCheckpoint

LEMMA DriveYields ==
    ASSUME NEW s, Good(s), NEW h \in Nat, Yields(s, h)
    PROVE  Yields(Drive(s), h)
<1>1. Yields(Returned(s), h) /\ Yields(Flush(s), h)
  BY PassesAreQuieter, QuieterYields
<1>2. ASSUME Ready(s) PROVE Yields(Returned(AfterCheckpoint(s)), h)
  BY <1>2, AfterCheckpointYields, AfterCheckpointIsGood, PassesAreQuieter, QuieterYields
<1>3. QED
  BY <1>1, <1>2 DEF Drive

LEMMA RequestDriveYields ==
    ASSUME NEW s, Good(s), NEW h \in Nat, Yields(s, h)
    PROVE  Yields(RequestDrive(s), h)
<1> DEFINE passed == Drive(Unrequested(s))
<1>1. Good(Unrequested(s)) /\ Yields(Unrequested(s), h)
  BY UnrequestedIsGood, PassesAreQuieter, QuieterYields
<1>2. Good(passed) /\ Yields(passed, h)
  BY <1>1, DriveIsGood, DriveYields
<1>3. RequestDrive(s) = Request(s, passed)
  BY DEF RequestDrive
<1> HIDE DEF passed
<1>4. PICK u \in {s, passed} : Quieter(RequestDrive(s), u)
  BY <1>2, <1>3, RequestIsQuieter
<1>5. Yields(u, h)
  BY <1>2
<1>6. QED
  BY <1>4, <1>5, QuieterYields

\* Where the agent is in a turn, nothing is reserved.
LEMMA RequestDriveIsQuieter ==
    ASSUME NEW s, Good(s), ~StatusIsIdle(s)
    PROVE  Quieter(RequestDrive(s), s)
<1> DEFINE u == Unrequested(s)
           passed == Drive(u)
<1>1. Good(u) /\ Quieter(u, s)
  BY UnrequestedIsGood, PassesAreQuieter
<1>2. u.agent.at = s.agent.at
  BY <1>1 DEF Quieter
<1> HIDE DEF u
<1>3. passed = Returned(u)
  BY <1>2 DEF Drive, Ready, StatusIsIdle
<1>4. Good(passed) /\ Quieter(passed, u)
  BY <1>1, <1>3, ReturnedIsGood, PassesAreQuieter
<1>5. RequestDrive(s) = Request(s, passed)
  BY Zenon DEF RequestDrive, u
<1> HIDE DEF passed
<1>6. Quieter(RequestDrive(s), s) \/ Quieter(RequestDrive(s), passed)
  BY <1>4, <1>5, RequestIsQuieter
<1>7. QED
  BY <1>1, <1>4, <1>6 DEF Quieter, HearsCancel

LEMMA RetiredYields ==
    ASSUME NEW s, Good(s), NEW h \in Nat, Yields(s, h)
    PROVE  Yields(Retired(s), h)
BY RequestDriveYields DEF Retired

-----------------------------------------------------------------------------
(* The fence and the turn again.                                           *)

\* What may still enter is fenced, and if it is let go it yields.
LEMMA DecideYields ==
    ASSUME NEW s, Good(s), NEW h, Yields(s, h), s.agent.at \in {"assembling", "inner"},
           NEW decision \in {"enter", "reject"},
           Wanted(s) => s.batch.fenced,
           decision = "enter" /\ s.batch.fenced /\ ~s.agent.aborted
               => ~s.batch.overtakes /\ s.batch.round.version # h
    PROVE  Yields(Decide(s, decision), h)
<1> DEFINE agent2 == [s.agent EXCEPT !.at = "outer"]
           batch2 == [s.batch EXCEPT !.decision = decision]
           t == [s EXCEPT !.agent = agent2, !.batch = batch2]
<1>1. agent2.aborted = s.agent.aborted /\ agent2.at = "outer"
  BY DEF Good, States, Agents
<1>2. /\ batch2.fenced = s.batch.fenced /\ batch2.round = s.batch.round
      /\ batch2.overtakes = s.batch.overtakes /\ batch2.decision = decision
  BY DEF Good, States, Batches
<1>3. Decide(s, decision) = t
  BY DEF Decide
<1> HIDE DEF agent2, batch2
<1>4. /\ t.goal = s.goal /\ t.log = s.log /\ t.inbox = s.inbox /\ t.driver = s.driver
      /\ t.agent = agent2 /\ t.batch = batch2
  BY DEF Good, States
<1> HIDE DEF t
<1>5. Orderly(t, h)
  BY <1>1, <1>2, <1>4 DEF Yields, Orderly, QueuedIsLast, ReservedIsNext, LetGoYields
<1>6. HaltHolds(t, h)
  BY <1>1, <1>4 DEF Yields, HaltHolds, Armed, HearsCancel
<1>7. WantedIsInHand(t)
  <2>1. Wanted(t) => Wanted(s)
    BY <1>4 DEF Wanted, Armed
  <2>2. QED
    BY <1>1, <1>2, <1>4, <2>1 DEF Yields, WantedIsInHand
<1>8. QED
  BY <1>3, <1>5, <1>6, <1>7 DEF Yields

LEMMA TurnAwayYields ==
    ASSUME NEW s, Good(s), NEW h \in Nat, Yields(s, h), s.agent.at \in {"assembling", "inner"},
           Wanted(s) => s.batch.fenced
    PROVE  Yields(TurnAway(s), h)
<1> DEFINE r == RestoreOthers(s)
           q == RequestDrive(r)
<1>1. Good(r) /\ Quieter(r, s)
  BY RestoreOthersIsGood, RestoreOthersIsQuieter
<1>2. r.agent.at \in {"assembling", "inner"} /\ ~StatusIsIdle(r)
  BY <1>1 DEF Quieter, StatusIsIdle
<1> HIDE DEF r
<1>3. Good(q) /\ Quieter(q, r)
  BY <1>1, <1>2, RequestDriveIsGood, RequestDriveIsQuieter
<1>4. TurnAway(s) = Decide(q, "reject")
  BY Zenon DEF TurnAway, r
<1> HIDE DEF q
<1>5. Quieter(q, s)
  BY <1>1, <1>3 DEF Quieter, HearsCancel
<1>6. q.agent.at = s.agent.at /\ q.batch.fenced = s.batch.fenced
  BY <1>5 DEF Quieter
<1>7. (Wanted(q) => Wanted(s)) /\ Yields(q, h)
  BY <1>5, QuieterYields
<1>8. QED
  BY <1>3, <1>4, <1>6, <1>7, DecideYields

LEMMA ReachFenceYields ==
    ASSUME NEW s, Good(s), NEW h \in Nat, Yields(s, h), s.agent.at = "assembling"
    PROVE  Yields(ReachFence(s), h)
<1>1. WantedIsInHand(s) /\ Orderly(s, h) /\ HaltHolds(s, h)
  BY DEF Yields
<1>2. CASE s.batch.round = NoRound \/ ~Listens(s)
  <2> DEFINE agent2 == [s.agent EXCEPT !.at = "inner"]
             t == [s EXCEPT !.agent = agent2]
  <2>1. /\ t.goal = s.goal /\ t.log = s.log /\ t.inbox = s.inbox /\ t.driver = s.driver
        /\ t.batch = s.batch /\ t.agent.at = "inner" /\ t.agent.aborted = s.agent.aborted
    BY DEF Good, States, Agents
  <2>2. ReachFence(s) = t
    BY <1>2 DEF ReachFence
  <2> HIDE DEF t
  <2>3. ~Wanted(s)
    BY <1>1, <1>2, GoalRoundsAssumption DEF WantedIsInHand, Wanted, Same, Listens
  <2>4. ~Wanted(t)
    BY <2>1, <2>3 DEF Wanted, Armed
  <2>5. Orderly(t, h) /\ HaltHolds(t, h)
    BY <1>1, <2>1 DEF Orderly, QueuedIsLast, ReservedIsNext, LetGoYields, HaltHolds, Armed,
                      HearsCancel
  <2>6. QED
    BY <2>2, <2>4, <2>5 DEF Yields, WantedIsInHand
<1>3. CASE ~(s.batch.round = NoRound \/ ~Listens(s)) /\ ValidReservation(s)
  <2> DEFINE agent2 == [s.agent EXCEPT !.at = "inner"]
             batch2 == [s.batch EXCEPT !.fenced = TRUE]
             t == [s EXCEPT !.agent = agent2, !.batch = batch2]
  <2>1. /\ t.goal = s.goal /\ t.log = s.log /\ t.inbox = s.inbox /\ t.driver = s.driver
        /\ t.agent.at = "inner" /\ t.agent.aborted = s.agent.aborted
        /\ t.batch.fenced /\ t.batch.round = s.batch.round
        /\ t.batch.overtakes = s.batch.overtakes
    BY DEF Good, States, Agents, Batches
  <2>2. ReachFence(s) = t
    BY <1>3 DEF ReachFence
  <2> HIDE DEF t
  <2>3. WantedIsInHand(t)
    BY <1>1, <2>1 DEF WantedIsInHand, Wanted, Armed
  <2>4. Orderly(t, h) /\ HaltHolds(t, h)
    BY <1>1, <2>1 DEF Orderly, QueuedIsLast, ReservedIsNext, LetGoYields, HaltHolds, Armed,
                      HearsCancel
  <2>5. QED
    BY <2>2, <2>3, <2>4 DEF Yields
<1>4. CASE ~(s.batch.round = NoRound \/ ~Listens(s)) /\ ~ValidReservation(s)
  <2>1. CASE Same(s.driver.attempt.round, s.batch.round)
    <3> DEFINE d == DropAttempt(s)
    <3>1. ReachFence(s) = TurnAway(d)
      BY <1>4, <2>1 DEF ReachFence
    <3>2. Good(d) /\ Yields(d, h) /\ ~Wanted(d) /\ d.agent = s.agent
      BY <1>1, DropAttemptIsGood, DropAttemptYields
    <3> HIDE DEF d
    <3>3. QED
      BY <3>1, <3>2, TurnAwayYields
  <2>2. CASE ~Same(s.driver.attempt.round, s.batch.round)
    <3>1. ReachFence(s) = TurnAway(s)
      BY <1>4, <2>2 DEF ReachFence
    <3>2. ~Wanted(s)
      BY <1>1, <2>2 DEF WantedIsInHand, Same
    <3>3. QED
      BY <3>1, <3>2, TurnAwayYields
  <2>3. QED
    BY <2>1, <2>2
<1>5. QED
  BY <1>2, <1>3, <1>4

\* The second look finds what was claimed before no human, since no later cancel.
LEMMA LeaveFenceYields ==
    ASSUME NEW s, Good(s), NEW h \in Nat, Yields(s, h), s.agent.at = "inner"
    PROVE  Yields(LeaveFence(s), h)
<1>1. Wanted(s) => s.batch.fenced /\ ~s.batch.overtakes
  BY DEF Yields, WantedIsInHand
<1>2. CASE ~s.batch.fenced
  BY <1>1, <1>2, DecideYields DEF LeaveFence
<1>3. CASE s.batch.fenced /\ s.agent.aborted
  <2> DEFINE r == RestoreOthers(s)
  <2>1. LeaveFence(s) = Decide(r, "enter")
    BY <1>3 DEF LeaveFence
  <2>2. Good(r) /\ Quieter(r, s)
    BY RestoreOthersIsGood, RestoreOthersIsQuieter
  <2> HIDE DEF r
  <2>3. r.agent.at = "inner" /\ r.agent.aborted /\ r.batch.fenced
    BY <1>3, <2>2 DEF Quieter, HearsCancel
  <2>4. Yields(r, h)
    BY <2>2, QuieterYields
  <2>5. QED
    BY <2>1, <2>2, <2>3, <2>4, DecideYields
<1>4. CASE s.batch.fenced /\ ~s.agent.aborted /\ Recheck(s)
  <2> DEFINE fit == Folds(s, s.batch.round)
             batch2 == [s.batch EXCEPT !.fit = fit]
             t == [s EXCEPT !.batch = batch2]
  <2>1. Wanted(s) /\ s.driver.plugin = "loaded" /\ Armed(s)
        /\ s.batch.round.version = s.goal.version
    BY <1>4 DEF Recheck, ValidReservation, Wanted, Same
  <2>2. s.batch.round.version # h
    BY <1>4, <2>1 DEF Yields, HaltHolds
  <2>3. Good(t) /\ t.batch.fit
    <3>1. fit = TRUE
      BY <1>4, ValidReservationFolds DEF Recheck, Folds
    <3> HIDE DEF fit
    <3>2. batch2 \in Batches /\ batch2.fit
      BY <3>1 DEF Good, States, Batches
    <3> HIDE DEF batch2
    <3>3. QED
      BY <3>2 DEF Good, States, InCap, LetGoIsFit
  <2>4. Quieter(t, s)
    <3> HIDE DEF fit
    <3>1. QED
      BY DEF Good, States, Batches, Quieter, Armed
  <2>5. LeaveFence(s) = Decide(t, "enter")
    BY <1>4, Zenon DEF LeaveFence
  <2> HIDE DEF t
  <2>6. /\ t.agent.at = "inner" /\ t.batch.round = s.batch.round
        /\ t.batch.overtakes = s.batch.overtakes /\ t.batch.fenced = s.batch.fenced
    BY <2>4 DEF Quieter
  <2>7. Yields(t, h)
    BY <2>4, QuieterYields
  <2>8. QED
    BY <1>1, <1>4, <2>1, <2>2, <2>3, <2>5, <2>6, <2>7, DecideYields
<1>5. CASE s.batch.fenced /\ ~s.agent.aborted /\ ~Recheck(s)
  <2> DEFINE d == DropAttempt(s)
  <2>1. LeaveFence(s) = TurnAway(d)
    BY <1>5 DEF LeaveFence
  <2>2. Good(d) /\ Yields(d, h) /\ ~Wanted(d) /\ d.agent = s.agent
    BY DropAttemptIsGood, DropAttemptYields DEF Yields
  <2> HIDE DEF d
  <2>3. QED
    BY <2>1, <2>2, TurnAwayYields
<1>6. QED
  BY <1>2, <1>3, <1>4, <1>5

\* What the listeners behind the fence do leaves the agent among them.
LEMMA RefusalsYield ==
    ASSUME NEW s, Good(s), NEW h \in Nat, Yields(s, h), s.agent.at = "inner"
    PROVE  /\ Yields(Vetoed(s), h) /\ Vetoed(s).agent.at = "inner"
           /\ Yields(Threw(s), h) /\ Threw(s).agent.at = "inner"
<1> DEFINE d == DropAttempt(s)
<1>1. Good(d) /\ Yields(d, h) /\ d.agent = s.agent /\ Orderly(d, h)
  BY DropAttemptIsGood, DropAttemptYields DEF Yields
<1>2. /\ Vetoed(s) \in {s, d, StopGoal(d, "blocked")}
      /\ Threw(s) \in {s, RequestDrive(d)}
  BY DEF Vetoed, Threw
<1> HIDE DEF d
<1>3. Yields(StopGoal(d, "blocked"), h) /\ StopGoal(d, "blocked").agent.at = "inner"
  BY <1>1, StopGoalYields
<1>4. Yields(RequestDrive(d), h) /\ RequestDrive(d).agent.at = "inner"
  <2>1. ~StatusIsIdle(d)
    BY <1>1 DEF StatusIsIdle
  <2>2. Quieter(RequestDrive(d), d)
    BY <1>1, <2>1, RequestDriveIsQuieter
  <2>3. QED
    BY <1>1, <2>2, QuieterYields DEF Quieter
<1>5. QED
  BY <1>1, <1>2, <1>3, <1>4

\* A turn that heard its cancel tells the driver, which remembers it or disarms the goal.
LEMMA LeaveYields ==
    ASSUME NEW s, Good(s), NEW h, Yields(s, h), s.agent.at # "leaving",
           NEW reason, s.agent.aborted /\ HearsCancel(s) => reason = "aborted"
    PROVE  Yields(Leave(s, reason), h)
<1> DEFINE e == TurnEnd(s, reason)
           agent2 == [e.agent EXCEPT !.at = "leaving"]
           t == [e EXCEPT !.agent = agent2, !.batch = NoBatch]
<1>1. Good(e) /\ Quieter(e, s)
  BY TurnEndIsGood, TurnEndIsQuieter
<1>2. Leave(s, reason) = t
  BY DEF Leave
<1>3. ASSUME h = e.goal.version, Armed(e)
      PROVE  e.driver.plugin = "gone" \/ e.driver.attempt.cancelled
  <2>1. h = s.goal.version /\ Armed(s)
    BY <1>1, <1>3 DEF Quieter
  <2>2. CASE s.driver.plugin = "gone"
    BY <1>1, <2>2 DEF Quieter
  <2>3. CASE s.driver.plugin # "gone"
    <3>1. s.agent.aborted /\ reason = "aborted"
      BY <2>1, <2>3 DEF Yields, HaltHolds
    <3>2. \/ e = [s EXCEPT !.driver.attempt.cancelled = TRUE]
          \/ e = Disarm(s)
      BY <2>3, <3>1 DEF TurnEnd, Listens
    <3>3. [s EXCEPT !.driver.attempt.cancelled = TRUE].driver.attempt.cancelled
      BY DEF Good, States, Drivers, Attempts
    <3>4. ~Armed(Disarm(s))
      BY DEF Good, States, Goals, Armed, Disarm
    <3> HIDE DEF e
    <3>5. QED
      BY <1>3, <3>2, <3>3, <3>4
  <2>4. QED
    BY <2>2, <2>3
<1> HIDE DEF e
<1>4. /\ t.goal = e.goal /\ t.log = e.log /\ t.inbox = e.inbox /\ t.driver = e.driver
      /\ t.agent.at = "leaving"
  BY <1>1 DEF Good, States, Agents
<1> HIDE DEF t
<1>5. Yields(e, h) /\ (Wanted(e) => Wanted(s))
  BY <1>1, QuieterYields
<1>6. Orderly(t, h) /\ HaltHolds(t, h)
  BY <1>3, <1>4, <1>5 DEF Yields, Orderly, QueuedIsLast, ReservedIsNext, LetGoYields, HaltHolds,
                          Armed
<1>7. WantedIsInHand(t)
  BY <1>4, <1>5 DEF Yields, WantedIsInHand, Wanted, Armed
<1>8. QED
  BY <1>2, <1>6, <1>7 DEF Yields

LEMMA FailYields ==
    ASSUME NEW s, Good(s), NEW h, Yields(s, h), s.agent.at # "leaving"
    PROVE  Yields(Fail(s), h)
<1>1. CASE s.agent.aborted
  BY <1>1, LeaveYields DEF Fail
<1>2. CASE ~s.agent.aborted
  <2>1. Good(Disarm(s)) /\ Disarm(s).agent = s.agent /\ Yields(Disarm(s), h)
    <3>1. Disarm(s).agent = s.agent
      BY DEF Good, States, Disarm
    <3>2. QED
      BY <3>1, DisarmIsGood, DisarmIsQuieter, QuieterYields
  <2>2. PICK u \in {s, Disarm(s)} : Fail(s) = Leave(u, "error")
    BY <1>2 DEF Fail
  <2>3. Good(u) /\ u.agent = s.agent /\ Yields(u, h)
    BY <2>1
  <2>4. QED
    BY <1>2, <2>2, <2>3, LeaveYields
<1>3. QED
  BY <1>1, <1>2

\* The step of a round that was let go: the goal counts it, and nothing is wanted any more.
LEMMA AdmitYields ==
    ASSUME NEW s, Good(s), NEW h, Yields(s, h), s.agent.at = "decided", ~s.agent.aborted,
           s.batch.round # NoRound
    PROVE  Yields(Admit(s), h)
<1> DEFINE round == s.batch.round
           phase == IF s.driver.attempt.round = round THEN "admitted"
                    ELSE s.driver.attempt.phase
           agent2 == [s.agent EXCEPT !.at = "step"]
           attempt2 == [s.driver.attempt EXCEPT !.phase = phase]
           driver2 == [s.driver EXCEPT !.attempt = attempt2]
           t == [s EXCEPT !.agent.at = "step", !.batch = NoBatch, !.driver.attempt.phase = phase]
           refusal == IF ~s.batch.fenced THEN "unfenced"
                      ELSE IF s.batch.fit THEN "late" ELSE "unsound"
<1>1. /\ t = [s EXCEPT !.agent = agent2, !.batch = NoBatch, !.driver = driver2]
      /\ agent2.at = "step"
      /\ driver2.plugin = s.driver.plugin /\ driver2.attempt.phase = phase
      /\ driver2.attempt.round = s.driver.attempt.round
      /\ driver2.attempt.stale = s.driver.attempt.stale
  <2> HIDE DEF phase
  <2>1. QED
    BY DEF Good, States, Agents, Drivers, Attempts
<1>2. t.goal = s.goal /\ t.log = s.log
  <2> HIDE DEF phase
  <2>1. QED
    BY DEF Good, States
<1>3. PICK a : /\ Admit(s) = a
               /\ \/ a = t /\ s.log # "sound"
                  \/ a = [t EXCEPT !.goal.rounds = round.number] /\ Folds(s, round)
                  \/ a = [t EXCEPT !.log = refusal]
  BY Zenon DEF Admit
<1>4. refusal # "sound"
  OBVIOUS
<1> HIDE DEF refusal
<1>5. t.driver = driver2 /\ t.agent = agent2 /\ t.inbox = s.inbox
  BY <1>1 DEF Good, States
<1>6. round.number \in Nat /\ s.goal.rounds \in Nat
  BY DEF Good, States, Goals, Batches, Rounds
<1>7. /\ a.driver = driver2 /\ a.agent.at = "step" /\ a.inbox = s.inbox
      /\ a.goal.version = s.goal.version
      /\ Armed(a) => Armed(s) /\ a.goal.rounds = s.goal.rounds + 1
      /\ a.goal.rounds >= s.goal.rounds /\ a.goal.rounds \in Nat
  <2>1. s.goal \in Goals /\ t = [s EXCEPT !.agent = agent2, !.batch = NoBatch, !.driver = driver2]
    BY <1>1 DEF Good, States
  <2> HIDE DEF t, driver2, agent2
  <2>2. CASE a = t /\ s.log # "sound"
    BY <1>1, <1>2, <1>5, <1>6, <2>2 DEF Armed
  <2>3. CASE a = [t EXCEPT !.goal.rounds = round.number] /\ Folds(s, round)
    BY <1>1, <1>2, <1>5, <1>6, <2>1, <2>3 DEF Armed, Folds, Goals, Good, States
  <2>4. CASE a = [t EXCEPT !.log = refusal]
    BY <1>1, <1>2, <1>4, <1>5, <1>6, <2>1, <2>4 DEF Armed, Good, States
  <2>5. QED
    BY <1>3, <2>2, <2>3, <2>4
<1> HIDE DEF t, driver2, agent2
<1>8. ~Wanted(a)
  <2> SUFFICES ASSUME Wanted(a) PROVE FALSE
    OBVIOUS
  <2> DEFINE own == s.driver.attempt.round
  <2>1. own \in Rounds /\ own.version = s.goal.version /\ own.number = s.goal.rounds + 2
    BY <1>1, <1>6, <1>7 DEF Wanted
  <2>2. own.number <= s.goal.rounds + 1
    BY <2>1 DEF Yields, Orderly, ReservedIsNext
  <2>3. QED
    BY <1>6, <2>1, <2>2
<1>9. s.driver.attempt.phase = "none" <=> phase = "none"
  BY DEF Yields, Orderly, ReservedIsNext
<1>10. phase = "queued" => s.driver.attempt.phase = "queued"
  OBVIOUS
<1> HIDE DEF phase
<1>11. ReservedIsNext(a)
  <2>1. ReservedIsNext(s)
    BY DEF Yields, Orderly
  <2>2. ASSUME s.driver.attempt.round \in Rounds,
               s.driver.attempt.round.number <= s.goal.rounds + 1
        PROVE  s.driver.attempt.round.number <= a.goal.rounds + 1
    BY <1>6, <1>7, <2>2 DEF Rounds
  <2>3. QED
    BY <1>1, <1>7, <1>9, <2>1, <2>2 DEF ReservedIsNext
<1>12. Orderly(a, h)
  BY <1>1, <1>7, <1>10, <1>11 DEF Yields, Orderly, QueuedIsLast, LetGoYields
<1>13. HaltHolds(a, h)
  BY <1>1, <1>7 DEF Yields, HaltHolds, HearsCancel
<1>14. QED
  BY <1>3, <1>8, <1>12, <1>13 DEF Yields, WantedIsInHand

\* A reservation that is broken or cancelled when its turn is over stops its goal.
LEMMA OnIdleYields ==
    ASSUME NEW s, Good(s), NEW h \in Nat, Yields(s, h), s.agent.at = "leaving"
    PROVE  Yields(OnIdle([s EXCEPT !.agent = Calm]), h)
<1> DEFINE c == [s EXCEPT !.agent = Calm]
           driver2 == [s.driver EXCEPT !.competing = FALSE]
           t == [c EXCEPT !.driver = driver2]
           broken == \/ s.driver.attempt.phase \in {"queued", "claimed"}
                     \/ s.driver.attempt.cancelled
<1>1. /\ c.goal = s.goal /\ c.log = s.log /\ c.inbox = s.inbox /\ c.driver = s.driver
      /\ c.agent.at = "idle" /\ Good(c)
  BY CalmIsTyped DEF Good, States, Calm, InCap, LetGoIsFit
<1>2. driver2 \in Drivers /\ driver2.plugin = s.driver.plugin
      /\ driver2.attempt = s.driver.attempt
  BY DEF Good, States, Drivers
<1> HIDE DEF c, driver2
<1>3. /\ t.goal = s.goal /\ t.log = s.log /\ t.inbox = s.inbox /\ t.driver = driver2
      /\ t.agent.at = "idle" /\ Good(t)
  BY <1>1, <1>2, DriverStaysGood DEF Good, States
<1>4. Orderly(c, h) /\ Orderly(t, h)
  BY <1>1, <1>2, <1>3 DEF Yields, Orderly, QueuedIsLast, ReservedIsNext, LetGoYields
<1>5. t = [c EXCEPT !.driver.competing = FALSE]
  BY <1>1 DEF driver2
<1> HIDE DEF t
<1>6. CASE ~Listens(c)
  <2>1. OnIdle(c) = c /\ c.driver.plugin = "gone"
    BY <1>6 DEF OnIdle, Listens
  <2>2. HaltHolds(c, h) /\ WantedIsInHand(c)
    BY <2>1 DEF HaltHolds, WantedIsInHand, Wanted
  <2>3. QED
    BY <1>4, <2>1, <2>2 DEF Yields, c
<1>7. CASE Listens(c) /\ s.log # "sound"
  <2>1. OnIdle(c) = t
    BY <1>1, <1>5, <1>7 DEF OnIdle
  <2>2. HaltHolds(t, h) /\ WantedIsInHand(t)
    BY <1>3, <1>7 DEF HaltHolds, WantedIsInHand, Wanted, Armed
  <2>3. QED
    BY <1>4, <2>1, <2>2 DEF Yields, c
<1>8. CASE Listens(c) /\ s.log = "sound" /\ broken /\ Armed(t)
  <2> DEFINE p == StopGoal(DropAttempt(t), "paused")
  <2>1. OnIdle(c) = RequestDrive(p)
    BY <1>1, <1>5, <1>8, Zenon DEF OnIdle
  <2>2. Good(DropAttempt(t)) /\ Orderly(DropAttempt(t), h)
    BY <1>3, <1>4, DropAttemptIsGood, DropAttemptYields
  <2>3. Good(p) /\ Yields(p, h)
    BY <2>2, StopGoalIsGood, StopGoalYields
  <2> HIDE DEF p
  <2>4. QED
    BY <2>1, <2>3, RequestDriveYields DEF c
<1>9. CASE Listens(c) /\ s.log = "sound" /\ ~(broken /\ Armed(t))
  <2>1. OnIdle(c) = RequestDrive(t)
    BY <1>1, <1>5, <1>9, Zenon DEF OnIdle
  <2>2. HaltHolds(t, h) /\ WantedIsInHand(t)
    BY <1>2, <1>3, <1>9 DEF Yields, HaltHolds, WantedIsInHand, Wanted, Armed, HearsCancel
  <2>3. QED
    BY <1>3, <1>4, <2>1, <2>2, RequestDriveYields DEF Yields, c
<1>10. QED
  BY <1>6, <1>7, <1>8, <1>9

-----------------------------------------------------------------------------
(* The actions again.                                                      *)

LEMMA BecomesYields ==
    ASSUME NEW s, Good(s), NEW h, Yields(s, h), Becomes(s) PROVE Yields(System, h)'
<1>1. System' = s
  BY DEF Good, States, Becomes, System
<1>2. QED
  BY <1>1 DEF Yields, Orderly, QueuedIsLast, ReservedIsNext, LetGoYields, HaltHolds, WantedIsInHand,
              Wanted, Armed, HearsCancel, Same

LEMMA LoopKeepsYields ==
    ASSUME Good(System), NEW h \in Nat, Yields(System, h), LoopStep
    PROVE  Yields(System, h)'
<1> USE DEF System
<1>1. System.driver = driver
  OBVIOUS
<1> DEFINE S == System
<1> HIDE DEF System
<1>2. ASSUME NEW d \in Drivers, d.attempt = S.driver.attempt, d.plugin = S.driver.plugin
      PROVE  /\ Good([S EXCEPT !.driver = d]) /\ Yields([S EXCEPT !.driver = d], h)
  BY <1>2, DriverStaysGood, DriverStaysQuiet, QuieterYields
<1>3. S.driver \in Drivers /\ S \in States
  BY DEF Good, States
<1>4. CASE FlushEnds \/ FlushFails
  <2> DEFINE d == [S.driver EXCEPT !.flushing = @ - 1]
             s == [S EXCEPT !.driver.flushing = @ - 1]
  <2>1. d \in Drivers /\ d.attempt = S.driver.attempt /\ d.plugin = S.driver.plugin
    BY <1>1, <1>3, <1>4 DEF FlushEnds, FlushFails, Drivers
  <2>2. s = [S EXCEPT !.driver = d]
    BY <1>3 DEF States
  <2>3. Good(s) /\ Yields(s, h)
    BY <1>2, <2>1, <2>2
  <2> HIDE DEF s
  <2>4. \/ Becomes(Returned(s))
        \/ Becomes(Returned(AfterCheckpoint(s))) /\ Ready(s)
        \/ Becomes(Returned(Disarm(s)))
    BY <1>4, Zenon DEF FlushEnds, FlushFails, s
  <2>5. /\ Good(Disarm(s)) /\ Yields(Disarm(s), h)
        /\ Ready(s) => Good(AfterCheckpoint(s)) /\ Yields(AfterCheckpoint(s), h)
    BY <2>3, DisarmIsGood, DisarmIsQuieter, QuieterYields, AfterCheckpointIsGood,
       AfterCheckpointYields
  <2>6. PICK u : Good(u) /\ Yields(u, h) /\ Becomes(Returned(u))
    BY <2>3, <2>4, <2>5
  <2>7. Good(Returned(u)) /\ Yields(Returned(u), h)
    BY <2>6, ReturnedIsGood, PassesAreQuieter, QuieterYields
  <2>8. QED
    BY <2>6, <2>7, BecomesYields
<1>5. CASE LoopGoesOn
  <2> DEFINE d == [S.driver EXCEPT !.returned = @ - 1]
             s == [S EXCEPT !.driver.returned = @ - 1]
             ended == s.driver.ended + 1
             e == [s.driver EXCEPT !.ended = ended]
  <2>1. d \in Drivers /\ d.attempt = S.driver.attempt /\ d.plugin = S.driver.plugin
    BY <1>1, <1>3, <1>5 DEF LoopGoesOn, Drivers
  <2>2. s = [S EXCEPT !.driver = d]
    BY <1>3 DEF States
  <2>3. Good(s) /\ Yields(s, h)
    BY <1>2, <2>1, <2>2
  <2>4. \/ Becomes(Drive(Unrequested(s)))
        \/ Becomes([s EXCEPT !.driver = e])
    <3>1. \/ Becomes(Drive(Unrequested(s)))
          \/ Becomes([s EXCEPT !.driver.ended = @ + 1])
      BY <1>5, Zenon DEF LoopGoesOn
    <3>2. [s EXCEPT !.driver.ended = @ + 1] = [s EXCEPT !.driver = e]
      BY <2>3 DEF Good, States
    <3>3. QED
      BY <3>1, <3>2
  <2> HIDE DEF s
  <2>5. Good([s EXCEPT !.driver = e]) /\ Yields([s EXCEPT !.driver = e], h)
    <3>1. s.driver \in Drivers /\ ended \in Nat
      BY <2>3 DEF Good, States, Drivers
    <3> HIDE DEF ended
    <3>2. e \in Drivers /\ e.attempt = s.driver.attempt /\ e.plugin = s.driver.plugin
      BY <3>1 DEF Drivers
    <3>3. QED
      BY <2>3, <3>2, DriverStaysGood, DriverStaysQuiet, QuieterYields
  <2>6. Good(Unrequested(s)) /\ Yields(Unrequested(s), h)
    BY <2>3, UnrequestedIsGood, PassesAreQuieter, QuieterYields
  <2>7. Good(Drive(Unrequested(s))) /\ Yields(Drive(Unrequested(s)), h)
    BY <2>6, DriveIsGood, DriveYields
  <2>8. QED
    BY <2>4, <2>5, <2>7, BecomesYields
<1>6. CASE LoopRetires
  <2> DEFINE ended == S.driver.ended - 1
             d == [S.driver EXCEPT !.ended = ended, !.run = FALSE]
             s == [S EXCEPT !.driver.ended = @ - 1, !.driver.run = FALSE]
  <2>1. ended \in Nat
    BY <1>1, <1>3, <1>6 DEF LoopRetires, Drivers
  <2>2. s = [S EXCEPT !.driver = d]
    BY <1>3 DEF States
  <2> HIDE DEF ended
  <2>3. d \in Drivers /\ d.attempt = S.driver.attempt /\ d.plugin = S.driver.plugin
    BY <1>3, <2>1 DEF Drivers
  <2>4. Good(s) /\ Yields(s, h)
    BY <1>2, <2>2, <2>3
  <2>5. Becomes(Retired(s))
    BY <1>6, Zenon DEF LoopRetires
  <2> HIDE DEF s
  <2>6. QED
    BY <2>4, <2>5, RetiredIsGood, RetiredYields, BecomesYields
<1>7. QED
  BY <1>4, <1>5, <1>6 DEF LoopStep

\* Where nothing is wanted, the agent may go on with its turn or out of it.
LEMMA AgentMovesOn ==
    ASSUME NEW s, Good(s), NEW h, Yields(s, h), ~Wanted(s), s.agent.at # "leaving",
           ~s.agent.aborted \/ ~HearsCancel(s),
           NEW a \in Agents, a.at \notin {"outer", "decided"}, NEW b \in Batches
    PROVE  /\ Good([s EXCEPT !.agent = a, !.batch = b])
           /\ Yields([s EXCEPT !.agent = a, !.batch = b], h)
<1> DEFINE t == [s EXCEPT !.agent = a, !.batch = b]
<1>1. /\ t.goal = s.goal /\ t.log = s.log /\ t.inbox = s.inbox /\ t.driver = s.driver
      /\ t.agent = a /\ t.batch = b
  BY DEF Good, States
<1>2. Good(t)
  BY DEF Good, States, InCap, LetGoIsFit
<1> HIDE DEF t
<1>3. Orderly(t, h) /\ HaltHolds(t, h)
  BY <1>1 DEF Yields, Orderly, QueuedIsLast, ReservedIsNext, LetGoYields, HaltHolds, Armed
<1>4. ~Wanted(t)
  BY <1>1 DEF Wanted, Armed
<1>5. QED
  BY <1>2, <1>3, <1>4 DEF Yields, WantedIsInHand, t

LEMMA TurnKeepsYields ==
    ASSUME Good(System), NEW h \in Nat, Yields(System, h), AgentStep
    PROVE  Yields(System, h)'
<1>1. /\ System.agent = agent /\ System.batch = batch /\ System.inbox = inbox
      /\ System.driver = driver
  BY DEF System
<1>2. agent \in Agents /\ batch \in Batches
  BY <1>1 DEF Good, States
<1>3. ASSUME NEW s, Good(s), Yields(s, h), Becomes(s) PROVE Yields(System, h)'
  BY <1>3, BecomesYields
<1>4. agent.at \notin {"assembling", "inner", "outer", "decided", "leaving"} => ~Wanted(System)
  BY <1>1 DEF Yields, WantedIsInHand
<1>5. CASE PreStep
  BY <1>1, <1>3, <1>5, ReachFenceIsGood, ReachFenceYields DEF PreStep, At
<1>6. CASE PreStepFails
  <2>1. ASSUME agent.at \in {"assembling", "outer"}, Becomes(Fail(System))
        PROVE  Yields(System, h)'
    BY <1>1, <1>3, <2>1, FailIsGood, FailYields
  <2>2. ASSUME agent.at = "inner", Becomes(Fail(Threw(System))) PROVE Yields(System, h)'
    <3>1. /\ Good(Threw(System)) /\ Yields(Threw(System), h)
          /\ Threw(System).agent.at = "inner"
      BY <1>1, <2>2, ThrewIsGood, RefusalsYield
    <3>2. QED
      BY <1>3, <2>2, <3>1, FailIsGood, FailYields
  <2>3. QED
    BY <1>6, <2>1, <2>2 DEF PreStepFails, At
<1>7. CASE InnerEnters
  BY <1>1, <1>3, <1>7, LeaveFenceIsGood, LeaveFenceYields DEF InnerEnters, At
<1>8. CASE InnerRejects
  <2> DEFINE v == Vetoed(System)
  <2>1. Good(v) /\ Yields(v, h) /\ v.agent.at = "inner"
    BY <1>1, <1>8, VetoedIsGood, RefusalsYield DEF InnerRejects, At
  <2>2. Becomes(Decide(v, "reject"))
    BY <1>8 DEF InnerRejects
  <2> HIDE DEF v
  <2>3. Wanted(v) => v.batch.fenced
    BY <2>1 DEF Yields, WantedIsInHand
  <2>4. QED
    BY <1>3, <2>1, <2>2, <2>3, DecideIsGood, DecideYields
<1>9. CASE StepRejected
  <2>1. Becomes(Leave(System, "blocked")) /\ agent.at = "decided" /\ batch.decision = "reject"
    BY <1>9 DEF StepRejected, At
  <2>2. ~HearsCancel(System)
    BY <1>1, <2>1 DEF HearsCancel
  <2>3. QED
    BY <1>1, <1>3, <2>1, <2>2, LeaveIsGood, LeaveYields
<1>10. CASE StepEnters
  <2> DEFINE a == [agent EXCEPT !.at = "step"]
             t == [System EXCEPT !.agent = a, !.batch = NoBatch]
  <2>1. agent.at = "decided" /\ batch.decision = "enter"
    BY <1>10 DEF StepEnters, At
  <2>2. \/ ~agent.aborted /\ batch.round # NoRound /\ Becomes(Admit(System))
        \/ Becomes(Leave(System, "aborted"))
        \/ ~agent.aborted /\ batch.round = NoRound /\ Becomes(t)
    <3>1. [System EXCEPT !.agent.at = "step", !.batch = NoBatch] = t
      BY <1>1
    <3> HIDE DEF t
    <3>2. QED
      BY <1>10, <3>1, Zenon DEF StepEnters
  <2>3. CASE ~agent.aborted /\ batch.round # NoRound /\ Becomes(Admit(System))
    BY <1>1, <1>3, <2>1, <2>3, AdmitIsGood, AdmitYields
  <2>4. CASE Becomes(Leave(System, "aborted"))
    BY <1>1, <1>3, <2>1, <2>4, LeaveIsGood, LeaveYields
  <2>5. CASE ~agent.aborted /\ batch.round = NoRound /\ Becomes(t)
    <3>1. ~Wanted(System)
      BY <1>1, <2>1, <2>5, GoalRoundsAssumption DEF Yields, WantedIsInHand, Same
    <3>2. a \in Agents /\ a.at = "step"
      BY <1>2 DEF Agents
    <3> HIDE DEF a
    <3>3. Good(t) /\ Yields(t, h)
      BY <1>1, <2>1, <2>5, <3>1, <3>2, NoBatchIsTyped, AgentMovesOn
    <3>4. QED
      BY <1>3, <2>5, <3>3
  <2>6. QED
    BY <2>2, <2>3, <2>4, <2>5
<1>11. CASE StepFails
  BY <1>1, <1>3, <1>11, FailIsGood, FailYields DEF StepFails, At
<1>12. CASE StepAgain
  BY <1>1, <1>3, <1>12, ClaimIsGood, ClaimYields DEF StepAgain, At
<1>13. ASSUME NEW reason, TurnCompletes(reason) PROVE Yields(System, h)'
  <2> DEFINE s == TurnEnd(System, reason)
             at == IF HasPending(s) THEN "turning" ELSE "leaving"
             a == [Calm EXCEPT !.at = at]
             t == [s EXCEPT !.agent = a, !.batch = s.batch]
  <2>1. agent.at = "step" /\ ~agent.aborted
    BY <1>13 DEF TurnCompletes, At
  <2>2. Good(s) /\ Quieter(s, System)
    BY TurnEndIsGood, TurnEndIsQuieter
  <2>3. Yields(s, h) /\ ~Wanted(s) /\ s.agent = System.agent
    <3>1. s.agent = System.agent
      BY DEF TurnEnd, Disarm, Good, States
    <3>2. QED
      BY <1>4, <2>1, <2>2, <3>1, QuieterYields
  <2>4. Becomes([s EXCEPT !.agent = a])
    BY <1>13, Zenon DEF TurnCompletes
  <2>5. a \in Agents /\ a.at \notin {"outer", "decided"}
    BY DEF Calm, Agents
  <2> HIDE DEF s, a
  <2>6. s.batch \in Batches /\ t = [s EXCEPT !.agent = a]
    BY <2>2 DEF Good, States
  <2>7. Good(t) /\ Yields(t, h)
    BY <1>1, <2>1, <2>2, <2>3, <2>5, <2>6, AgentMovesOn
  <2>8. QED
    BY <1>3, <2>4, <2>6, <2>7
<1>14. CASE NextTurn
  <2> DEFINE a == [agent EXCEPT !.at = "leaving"]
             t == [System EXCEPT !.agent = a, !.batch = batch]
  <2>1. agent.at = "turning"
    BY <1>14 DEF NextTurn, At
  <2>2. a \in Agents /\ a.at \notin {"outer", "decided"}
    BY <1>2 DEF Agents
  <2>3. t = [System EXCEPT !.agent.at = "leaving"]
    BY <1>1 DEF System
  <2>4. Good(t) /\ Yields(t, h)
    <3> HIDE DEF a
    <3>1. QED
      BY <1>1, <1>2, <1>4, <2>1, <2>2, AgentMovesOn DEF HearsCancel
  <2>5. Good(OpenTurn(System)) /\ Yields(OpenTurn(System), h)
    BY <1>1, <2>1, OpenTurnIsGood, OpenTurnYields
  <2> HIDE DEF t
  <2>6. QED
    BY <1>3, <1>14, <2>3, <2>4, <2>5 DEF NextTurn
<1>15. CASE Retire
  <2> DEFINE c == [System EXCEPT !.agent = Calm]
             i == OnIdle(c)
  <2>1. Good(c)
    BY CalmIsTyped DEF Good, States, Calm, InCap, LetGoIsFit
  <2>2. Yields(i, h)
    BY <1>1, <1>15, OnIdleYields DEF Retire, At
  <2> HIDE DEF c
  <2>3. Good(i)
    BY <2>1, OnIdleIsGood
  <2>4. Becomes(Replay(i, agent.latched))
    BY <1>15 DEF Retire, c
  <2> HIDE DEF i
  <2>5. agent.latched \in BOOLEAN
    BY <1>2 DEF Agents
  <2>6. QED
    BY <1>3, <2>2, <2>3, <2>4, <2>5, ReplayIsGood, ReplayYields
<1>16. CASE PreStepReturns
  <2>1. agent.at = "outer" /\ ~agent.aborted
    BY <1>16 DEF PreStepReturns, At
  <2>2. PICK decision \in {batch.decision, "reject"} :
            Becomes([System EXCEPT !.agent.at = "decided", !.batch.decision = decision])
    BY <1>16 DEF PreStepReturns
  <2> DEFINE agent2 == [agent EXCEPT !.at = "decided"]
             batch2 == [batch EXCEPT !.decision = decision]
             t == [System EXCEPT !.agent = agent2, !.batch = batch2]
  <2>3. Becomes(t)
    BY <1>1, <2>2
  <2>4. agent2 \in Agents /\ agent2.at = "decided" /\ agent2.aborted = agent.aborted
    BY <1>2 DEF Agents
  <2>5. /\ batch2 \in Batches /\ batch2.decision = decision /\ batch2.round = batch.round
        /\ batch2.fenced = batch.fenced /\ batch2.overtakes = batch.overtakes
        /\ batch2.fit = batch.fit
    BY <1>2, <2>2 DEF Batches
  <2> HIDE DEF agent2, batch2
  <2>6. /\ t.goal = System.goal /\ t.log = System.log /\ t.inbox = System.inbox
        /\ t.driver = System.driver /\ t.agent = agent2 /\ t.batch = batch2
    BY DEF Good, States
  <2>7. Good(t)
    BY <1>1, <2>1, <2>2, <2>4, <2>5 DEF Good, States, InCap, LetGoIsFit
  <2> HIDE DEF t
  <2>8. Orderly(t, h)
    BY <1>1, <2>1, <2>2, <2>4, <2>5, <2>6
       DEF Yields, Orderly, QueuedIsLast, ReservedIsNext, LetGoYields
  <2>9. HaltHolds(t, h)
    BY <1>1, <2>1, <2>6 DEF Yields, HaltHolds, Armed
  <2>10. WantedIsInHand(t)
    <3>1. Wanted(t) => Wanted(System)
      BY <2>6 DEF Wanted, Armed
    <3>2. QED
      BY <1>1, <2>1, <2>4, <2>5, <2>6, <3>1 DEF Yields, WantedIsInHand
  <2>11. QED
    BY <1>3, <2>3, <2>7, <2>8, <2>9, <2>10 DEF Yields
<1>17. QED
  BY <1>5, <1>6, <1>7, <1>8, <1>9, <1>10, <1>11, <1>12, <1>13, <1>14, <1>15, <1>16 DEF AgentStep

LEMMA WorldKeepsYields ==
    ASSUME Good(System), NEW h \in Nat, Yields(System, h),
           StartMaintenance \/ EndMaintenance \/ Unload \/ Unloaded \/ Load \/ Restart
    PROVE  Yields(System, h)'
<1>1. /\ System.agent = agent /\ System.driver = driver /\ System.goal = goal
      /\ System.batch = batch /\ System.inbox = inbox /\ System.log = log
  BY DEF System
<1>2. agent \in Agents /\ batch \in Batches /\ driver \in Drivers /\ System \in States
  BY <1>1 DEF Good, States
<1>3. ASSUME NEW s, Good(s), Yields(s, h), Becomes(s) PROVE Yields(System, h)'
  BY <1>3, BecomesYields
<1>4. ASSUME agent.at \in {"idle", "maintenance"},
             NEW a \in Agents, a.at \notin {"outer", "decided"}
      PROVE  Good([System EXCEPT !.agent = a]) /\ Yields([System EXCEPT !.agent = a], h)
  <2> DEFINE t == [System EXCEPT !.agent = a, !.batch = batch]
  <2>1. [System EXCEPT !.agent = a] = t
    BY <1>1, <1>2 DEF States
  <2>2. ~Wanted(System)
    BY <1>1, <1>4 DEF Yields, WantedIsInHand
  <2>3. Good(t) /\ Yields(t, h)
    BY <1>1, <1>2, <1>4, <2>2, AgentMovesOn DEF HearsCancel
  <2> HIDE DEF t
  <2>4. QED
    BY <2>1, <2>3
<1>5. CASE StartMaintenance
  <2> DEFINE a == [Calm EXCEPT !.at = "maintenance"]
  <2>1. a \in Agents /\ a.at \notin {"outer", "decided"}
    BY DEF Calm, Agents
  <2>2. Becomes([System EXCEPT !.agent = a]) /\ agent.at = "idle"
    BY <1>5 DEF StartMaintenance, At
  <2> HIDE DEF a
  <2>3. QED
    BY <1>3, <1>4, <2>1, <2>2
<1>6. CASE EndMaintenance
  <2> DEFINE c == [System EXCEPT !.agent = Calm]
  <2>1. Becomes(Replay(c, agent.latched)) /\ agent.at = "maintenance"
    BY <1>6 DEF EndMaintenance, At
  <2>2. Good(c) /\ Yields(c, h)
    BY <1>4, <2>1, CalmIsTyped DEF Calm
  <2> HIDE DEF c
  <2>3. agent.latched \in BOOLEAN
    BY <1>2 DEF Agents
  <2>4. QED
    BY <1>3, <2>1, <2>2, <2>3, ReplayIsGood, ReplayYields
<1>7. CASE Unload
  <2> DEFINE working == driver.attempt # NoAttempt /\ ~StatusIsIdle(System)
             stale == driver.attempt # NoAttempt
             awaits == {w \in {"agent", "run"} : IF w = "agent" THEN working ELSE driver.run}
             t == Disarm(System)
             attempt2 == [t.driver.attempt EXCEPT !.stale = stale]
             driver2 == [t.driver EXCEPT !.plugin = "stopping", !.attempt = attempt2,
                                         !.awaits = awaits]
             s == [t EXCEPT !.driver.plugin = "stopping", !.driver.attempt.stale = stale,
                            !.driver.awaits = awaits]
  <2>1. /\ stale \in BOOLEAN /\ awaits \in SUBSET {"agent", "run"}
        /\ driver.attempt.stale => stale
    BY DEF NoAttempt
  <2>2. Good(t) /\ Quieter(t, System) /\ t.driver = driver
    <3>1. t.driver = driver
      BY <1>1, <1>2 DEF Disarm, States
    <3>2. QED
      BY <3>1, DisarmIsGood, DisarmIsQuieter
  <2>3. Becomes(Cancel(s, FALSE)) \/ Becomes(s)
    BY <1>7, Zenon DEF Unload
  <2>4. s = [t EXCEPT !.driver = driver2]
    OBVIOUS
  <2> HIDE DEF stale, awaits
  <2>5. driver2 \in Drivers /\ driver2.attempt = attempt2 /\ driver2.plugin = "stopping"
    <3>1. attempt2 \in Attempts
      BY <1>2, <2>1, <2>2 DEF Drivers, Attempts
    <3> HIDE DEF attempt2
    <3>2. QED
      BY <1>2, <2>1, <2>2, <3>1 DEF Drivers
  <2>6. /\ attempt2.round = driver.attempt.round /\ attempt2.phase = driver.attempt.phase
        /\ attempt2.cancelled = driver.attempt.cancelled /\ attempt2.stale = stale
    BY <1>2, <2>2 DEF Drivers, Attempts
  <2>7. driver.plugin = "loaded"
    BY <1>7 DEF Unload
  <2> HIDE DEF t, driver2, attempt2, s
  <2>8. Good(s)
    <3>1. driver2.attempt.round = t.driver.attempt.round
      BY <2>2, <2>5, <2>6
    <3>2. QED
      BY <2>2, <2>4, <2>5, <3>1, DriverStaysGood
  <2>9. Quieter(s, t)
    BY <2>1, <2>2, <2>4, <2>5, <2>6, <2>7 DEF Good, States, Quieter, Armed
  <2>10. Yields(s, h)
    BY <2>2, <2>9, QuieterYields
  <2>11. Good(Cancel(s, FALSE)) /\ Yields(Cancel(s, FALSE), h)
    BY <2>8, <2>10, CancelIsGood, CancelIsQuieter, QuieterYields
  <2>12. QED
    BY <1>3, <2>3, <2>8, <2>10, <2>11
<1>8. ASSUME NEW d \in Drivers, d.attempt = NoAttempt,
             NEW s \in States, s.goal.version = goal.version, s.inbox = inbox, s.driver = d,
             LetGoYields(s, h), d.plugin = "gone" \/ ~Armed(s)
      PROVE  Yields(s, h)
  <2>1. d.attempt.phase = "none" /\ d.attempt.round = NoRound
    BY <1>8 DEF NoAttempt
  <2>2. Orderly(s, h)
    BY <1>1, <1>8, <2>1, GoalRoundsAssumption DEF Yields, Orderly, QueuedIsLast, ReservedIsNext
  <2>3. HaltHolds(s, h) /\ WantedIsInHand(s)
    BY <1>8 DEF HaltHolds, WantedIsInHand, Wanted
  <2>4. QED
    BY <2>2, <2>3 DEF Yields
<1>9. Fresh \in Drivers /\ Fresh.attempt = NoAttempt /\ NoAttempt.round \notin Rounds
  BY FreshIsTyped DEF Fresh
<1>10. CASE Unloaded
  <2> DEFINE gone == [Fresh EXCEPT !.plugin = "gone"]
             s == [System EXCEPT !.driver = gone]
  <2>1. gone \in Drivers /\ gone.attempt = NoAttempt /\ gone.plugin = "gone"
    BY <1>9 DEF Drivers
  <2> HIDE DEF gone
  <2>2. /\ s \in States /\ s.goal = goal /\ s.inbox = inbox /\ s.driver = gone
        /\ s.agent = agent /\ s.batch = batch
    BY <1>1, <1>2, <2>1 DEF States
  <2>3. Good(s)
    BY <1>9, <2>1, <2>2 DEF Good, InCap, LetGoIsFit, System
  <2>4. Becomes(s)
    BY <1>10 DEF Unloaded, Becomes, System, gone
  <2> HIDE DEF s
  <2>5. LetGoYields(s, h)
    BY <1>1, <2>2 DEF Yields, Orderly, LetGoYields
  <2>6. Yields(s, h)
    BY <1>8, <2>1, <2>2, <2>5
  <2>7. QED
    BY <1>3, <2>3, <2>4, <2>6
<1>11. CASE Load
  <2> DEFINE f == [System EXCEPT !.driver = Fresh]
             s == Disarm(f)
  <2>1. /\ f \in States /\ f.goal = goal /\ f.inbox = inbox /\ f.driver = Fresh
        /\ f.agent = agent /\ f.batch = batch /\ f.log = log
    BY <1>1, <1>2, <1>9 DEF States
  <2>2. Good(f)
    BY <1>9, <2>1 DEF Good, InCap, LetGoIsFit, System
  <2>3. Becomes(s)
    BY <1>11 DEF Load
  <2> HIDE DEF f
  <2>4. /\ Good(s) /\ s.goal.version = goal.version /\ s.inbox = inbox /\ s.driver = Fresh
        /\ s.agent = agent /\ s.batch = batch /\ ~Armed(s)
    BY <1>1, <2>1, <2>2, DisarmIsGood DEF Disarm, States, Goals, Armed
  <2> HIDE DEF s
  <2>5. LetGoYields(s, h)
    BY <1>1, <2>4 DEF Yields, Orderly, LetGoYields
  <2>6. Yields(s, h)
    BY <1>8, <1>9, <2>4, <2>5 DEF Good
  <2>7. QED
    BY <1>3, <2>3, <2>4, <2>6
<1>12. CASE Restart
  <2> DEFINE s == [System EXCEPT !.goal.armed = FALSE, !.agent = Calm, !.batch = NoBatch,
                                 !.driver = Fresh]
  <2>1. /\ s \in States /\ s.goal.version = goal.version /\ s.inbox = inbox /\ s.driver = Fresh
        /\ s.agent.at = "idle" /\ ~Armed(s) /\ s.log = log
    BY <1>1, <1>2, <1>9, CalmIsTyped, NoBatchIsTyped DEF States, Goals, Calm, Armed
  <2>2. Becomes(s)
    BY <1>12 DEF Restart
  <2> HIDE DEF s
  <2>3. Good(s)
    BY <1>1, <1>9, <2>1 DEF Good, InCap, LetGoIsFit
  <2>4. LetGoYields(s, h)
    BY <2>1 DEF LetGoYields
  <2>5. Yields(s, h)
    BY <1>8, <1>9, <2>1, <2>4
  <2>6. QED
    BY <1>3, <2>2, <2>3, <2>5
<1>13. QED
  BY <1>5, <1>6, <1>7, <1>10, <1>11, <1>12

\* A cancel of a turn is the only step that moves the mark, and it stops what was let go.
LEMMA UsersKeepYields ==
    ASSUME Good(System), halted \in Nat, Yields(System, halted),
           \/ \E m \in Messages : UserSends(m)
           \/ \E keepInbox \in BOOLEAN : UserCancels(keepInbox)
           \/ ChangeGoal
    PROVE  Yields(System, halted)'
<1>1. System.goal = goal /\ System.agent = agent
  BY DEF System
<1>2. agent \in Agents /\ goal \in Goals
  BY <1>1 DEF Good, States
<1>3. ASSUME NEW s, Good(s), NEW h, Yields(s, h), Becomes(s), halted' = h
      PROVE  Yields(System, halted)'
  <2>1. Yields(System, h)'
    BY <1>3, BecomesYields
  <2>2. QED
    BY <1>3, <2>1 DEF Yields, Orderly, LetGoYields, HaltHolds
<1>4. ASSUME NEW m \in Messages, NEW target \in {"turn", "step"}, NEW wakeup \in BOOLEAN,
             Send(m, target, wakeup)
      PROVE  Yields(System, halted)'
  <2> DEFINE afterAbort == wakeup /\ agent.at # "idle" /\ agent.aborted
             s == IF target = "turn" \/ afterAbort THEN NoticeInput(Insert(System, m, "turn"))
                  ELSE Insert(System, m, "step")
  <2>1. Good(s)
    BY InsertIsGood, NoticeInputIsGood
  <2>2. Yields(s, halted)
    BY MessageYields
  <2>3. halted' = halted /\ (Becomes(Wake(s, afterAbort)) \/ Becomes(s))
    BY <1>4, Zenon DEF Send
  <2>4. afterAbort \in BOOLEAN
    BY <1>2 DEF Agents
  <2> HIDE DEF s, afterAbort
  <2>5. Good(Wake(s, afterAbort)) /\ Yields(Wake(s, afterAbort), halted)
    BY <2>1, <2>2, <2>4, WakeIsGood, WakeYields
  <2>6. QED
    BY <1>3, <2>1, <2>2, <2>3, <2>5
<1>5. ASSUME NEW keepInbox \in BOOLEAN, UserCancels(keepInbox) PROVE Yields(System, halted)'
  <2> DEFINE s == Cancel(System, keepInbox)
  <2>1. Good(s) /\ Quieter(s, System) /\ (s.agent.aborted <=> agent.at # "idle")
    BY <1>1, CancelIsGood, CancelIsQuieter
  <2>2. Becomes(s) /\ halted' = IF HearsCancel(System) THEN goal.version ELSE halted
    BY <1>5 DEF UserCancels
  <2> HIDE DEF s
  <2>3. Yields(s, halted)
    BY <2>1, QuieterYields
  <2>4. ASSUME HearsCancel(System) PROVE Yields(s, goal.version)
    <3>1. s.agent.aborted /\ HearsCancel(s) /\ s.goal.version = goal.version
      BY <1>1, <2>1, <2>4 DEF Quieter, HearsCancel
    <3>2. goal.version <= s.goal.version
      BY <1>2, <3>1 DEF Goals
    <3>3. QED
      BY <2>3, <3>1, <3>2 DEF Yields, Orderly, LetGoYields, HaltHolds
  <2>5. QED
    BY <1>3, <2>1, <2>2, <2>3, <2>4
<1>6. ASSUME ChangeGoal PROVE Yields(System, halted)'
  <2>1. ASSUME NEW g \in Goals, g.version = goal.version, Mutate(g) PROVE Yields(System, halted)'
    <3>1. Becomes(SetGoal(System, g)) /\ halted' = halted
      BY <2>1 DEF Mutate, humans
    <3>2. Good(SetGoal(System, g)) /\ Yields(SetGoal(System, g), halted)
      BY <1>1, <2>1, SetGoalIsGood, SetGoalYields DEF Yields
    <3>3. QED
      BY <1>3, <3>1, <3>2
  <2>2. PICK g \in Goals : g.version = goal.version /\ Mutate(g)
    BY <1>2, <1>6, ChangesAreMutations
  <2>3. QED
    BY <2>1, <2>2
<1>7. QED
  BY <1>4, <1>5, <1>6 DEF UserSends

YieldInv == Inv /\ Yields(System, halted)

LEMMA InitYields == Init => YieldInv
<1> SUFFICES ASSUME Init PROVE YieldInv
  OBVIOUS
<1>1. Inv
  BY InitIsGood
<1>2. /\ System.goal = NoGoal /\ System.driver.attempt = NoAttempt
      /\ System.driver.plugin = "loaded" /\ System.agent.at = "idle" /\ halted = 0
  BY DEF Init, System, Fresh, Calm
<1>3. Yields(System, halted)
  BY <1>2, GoalRoundsAssumption DEF Yields, Orderly, QueuedIsLast, ReservedIsNext, LetGoYields,
     HaltHolds, WantedIsInHand, Wanted, Armed, NoGoal, NoAttempt
<1>4. QED
  BY <1>1, <1>3 DEF YieldInv

LEMMA StepYields == YieldInv /\ [Next]_vars => YieldInv'
<1> SUFFICES ASSUME YieldInv, [Next]_vars PROVE YieldInv'
  OBVIOUS
<1>1. Inv /\ Inv' /\ Good(System) /\ halted \in Nat /\ Yields(System, halted)
  BY StepIsGood DEF YieldInv, Inv
<1>2. ASSUME NEW h, Yields(System, h)', halted' = h PROVE Yields(System, halted)'
  BY <1>2 DEF Yields, Orderly, LetGoYields, HaltHolds
<1>3. Yields(System, halted)'
  <2>1. CASE UNCHANGED vars
    BY <1>1, <2>1 DEF vars, humans, Yields, Orderly, QueuedIsLast, ReservedIsNext, LetGoYields,
                      HaltHolds, WantedIsInHand, Wanted, Armed, Same, HearsCancel, System
  <2>2. CASE AgentStep \/ LoopStep \/ StartMaintenance \/ EndMaintenance
             \/ Unload \/ Unloaded \/ Load \/ Restart
    <3>1. halted' = halted
      BY <2>2 DEF AgentStep, LoopStep, humans, At, PreStep, PreStepFails, InnerEnters,
         InnerRejects, PreStepReturns, StepRejected, StepEnters, StepFails, StepAgain,
         TurnCompletes, NextTurn, Retire, StartMaintenance, EndMaintenance, FlushEnds,
         FlushFails, LoopGoesOn, LoopRetires, Unload, Unloaded, Load, Restart
    <3>2. PICK h : h = halted
      OBVIOUS
    <3>3. Yields(System, h)'
      BY <1>1, <2>2, <3>2, LoopKeepsYields, TurnKeepsYields, WorldKeepsYields
    <3>4. QED
      BY <1>2, <3>1, <3>2, <3>3
  <2>3. CASE \/ \E m \in Messages : UserSends(m)
             \/ \E keepInbox \in BOOLEAN : UserCancels(keepInbox)
             \/ ChangeGoal
    BY <1>1, <2>3, UsersKeepYields
  <2>4. QED
    BY <2>1, <2>2, <2>3 DEF Next
<1>4. QED
  BY <1>1, <1>3 DEF YieldInv

\* Between preStep()'s return and turn()'s resumption nothing but the decision starts the step.
LEMMA OnlyStepEntersAdmits ==
    ASSUME YieldInv, Next, agent.at = "decided", agent'.at = "step" PROVE StepEnters
<1>1. /\ System.agent = agent /\ System.goal = goal /\ System.driver = driver
      /\ Good(System) /\ System \in States /\ halted \in Nat /\ Orderly(System, halted)
  BY DEF System, YieldInv, Inv, Good, Yields
<1>2. ASSUME NEW s, Becomes(s), s.agent.at \in {"decided", "leaving", "idle"} PROVE FALSE
  BY <1>2 DEF Becomes
<1>3. ASSUME NEW s, Good(s), NEW reason PROVE Leave(s, reason).agent.at = "leaving"
  BY <1>3, TurnEndIsGood DEF Leave, Good, States, Agents
<1>4. CASE AgentStep
  <2>1. PreStepFails => FALSE
    <3>1. Fail(System).agent.at = "leaving"
      BY <1>1, <1>3, DisarmIsGood DEF Fail
    <3>2. QED
      BY <1>2, <3>1 DEF PreStepFails, At
  <2>2. StepRejected => FALSE
    BY <1>1, <1>2, <1>3 DEF StepRejected
  <2>3. QED
    BY <1>4, <2>1, <2>2 DEF AgentStep, At, PreStep, InnerEnters, InnerRejects, PreStepReturns,
       StepFails, StepAgain, TurnCompletes, NextTurn, Retire
\* Of what the loops and the users change here, nothing is the agent's.
<1> DEFINE Aside(s) == s = [goal |-> s.goal, log |-> log, agent |-> agent, inbox |-> s.inbox,
                            batch |-> batch, driver |-> s.driver]
<1>5. /\ Aside(System)
      /\ \A s : Aside(s) => /\ s.agent = agent /\ ~Ready(s)
                           /\ \A x : /\ Aside([s EXCEPT !.goal = x])
                                    /\ Aside([s EXCEPT !.inbox = x])
                                    /\ Aside([s EXCEPT !.driver = x])
  <2>1. Aside(System)
    BY DEF System
  <2>2. ASSUME NEW s, Aside(s), NEW x
        PROVE  /\ s.agent = agent /\ ~Ready(s)
               /\ Aside([s EXCEPT !.goal = x]) /\ Aside([s EXCEPT !.inbox = x])
               /\ Aside([s EXCEPT !.driver = x])
    BY <2>2 DEF Ready, StatusIsIdle
  <2> HIDE DEF Aside
  <2>3. QED
    BY <2>1, <2>2
<1> HIDE DEF Aside
<1>6. ASSUME NEW s, Aside(s)
      PROVE  /\ Aside(Disarm(s)) /\ Aside(Returned(s)) /\ Aside(Unrequested(s))
             /\ Aside(Drive(s))
             /\ \A m, target : Aside(Insert(s, m, target)) /\ Aside(NoticeInput(s))
  BY <1>5, <1>6 DEF Disarm, Returned, Unrequested, Drive, Insert, NoticeInput
<1>7. CASE LoopStep
  <2>1. ASSUME NEW s, Aside(s) PROVE Aside(RequestDrive(s))
    BY <1>5, <1>6, <2>1 DEF RequestDrive, Request
  <2>2. \E s : Aside(s) /\ Becomes(s)
    BY <1>1, <1>5, <1>6, <1>7, <2>1
       DEF LoopStep, FlushEnds, FlushFails, LoopGoesOn, LoopRetires, Retired
  <2>3. QED
    BY <1>2, <1>5, <2>2
<1>8. CASE \E m \in Messages : UserSends(m)
  <2>1. PICK s : Aside(s) /\ (Becomes(s) \/ \E abort \in BOOLEAN : Becomes(Wake(s, abort)))
    BY <1>5, <1>6, <1>8 DEF UserSends, Send
  <2>2. ASSUME NEW abort PROVE Wake(s, abort).agent.at = "decided"
    BY <1>1, <1>5, <2>1 DEF Wake, States, Agents
  <2>3. QED
    BY <1>2, <1>5, <2>1, <2>2
<1>9. CASE \E keepInbox \in BOOLEAN : UserCancels(keepInbox)
  BY <1>1, <1>2, <1>9, CancelIsQuieter DEF UserCancels, Quieter
<1>10. CASE ChangeGoal
  <2>1. PICK g \in Goals : g.version = goal.version /\ Mutate(g)
    BY <1>1, <1>10, ChangesAreMutations DEF States
  <2>2. SetGoal(System, g).agent.at = "decided"
    BY <1>1, <2>1, SetGoalYields
  <2>3. QED
    BY <1>2, <2>1, <2>2 DEF Mutate
<1>11. CASE Unload
  <2>1. PICK s : Aside(s) /\ (Becomes(s) \/ Becomes(Cancel(s, FALSE)))
    BY <1>5, <1>6, <1>11 DEF Unload
  <2>2. Cancel(s, FALSE).agent.at = "decided"
    <3>1. agent \in Agents
      BY <1>1 DEF States
    <3>2. s = [goal |-> s.goal, log |-> log, agent |-> agent, inbox |-> s.inbox,
               batch |-> batch, driver |-> s.driver]
      BY <2>1 DEF Aside
    <3>3. PICK i, d, latched :
              Cancel(s, FALSE) = [s EXCEPT !.inbox = i, !.agent.latched = latched, !.driver = d,
                                           !.agent.aborted = s.agent.at # "idle"]
      BY <3>2 DEF Cancel
    <3> DEFINE aborted == s.agent.at # "idle"
               agent2 == [agent EXCEPT !.latched = latched, !.aborted = aborted]
    <3>4. Cancel(s, FALSE).agent = agent2
      <4>1. s.agent = agent
        BY <1>5, <2>1
      <4> HIDE DEF aborted
      <4>2. Cancel(s, FALSE) = [s EXCEPT !.inbox = i, !.agent.latched = latched, !.driver = d,
                                         !.agent.aborted = aborted]
        BY <3>3, Zenon DEF aborted
      <4>3. QED
        BY <3>2, <4>1, <4>2
    <3> HIDE DEF aborted
    <3>5. QED
      BY <3>1, <3>4 DEF Agents
  <2>3. QED
    BY <1>2, <1>5, <2>1, <2>2
<1>12. CASE Unloaded \/ Load \/ Restart \/ StartMaintenance \/ EndMaintenance
  <2>1. Unloaded => agent' = agent
    BY DEF Unloaded
  <2>2. Load => \E s : Aside(s) /\ Becomes(s)
    BY <1>5, <1>6 DEF Load
  <2>3. Restart => agent' = Calm
    BY DEF Restart, Becomes, System
  <2>4. QED
    BY <1>2, <1>5, <1>12, <2>1, <2>2, <2>3 DEF StartMaintenance, EndMaintenance, At, Calm
<1>13. QED
  BY <1>4, <1>7, <1>8, <1>9, <1>10, <1>11, <1>12 DEF Next

-----------------------------------------------------------------------------

\* The types of the whole state: what handlers compute is again a state.
THEOREM TypeCorrect == Spec => []TypeOK
<1>1. Inv => TypeOK
  BY DEF Inv, Good, TypeOK
<1>2. QED
  BY <1>1, InitIsGood, StepIsGood, PTL DEF Spec

\* For any number of humans, goals and rounds: what the fence lets go, the fold accepts, unless
\* the goal was changed behind the fence.
THEOREM OnlyTheNextRoundIsLetGo == Spec => []FenceIsSound
<1>1. Inv => FenceIsSound
  BY DEF Inv, Good, FenceIsSound, System
<1>2. QED
  BY <1>1, InitIsGood, StepIsGood, PTL DEF Spec

\* For any number of humans, goals and rounds: no round that met the fence enters at the version
\* of the last cancel that a turn could still hear, nor one that was claimed from before what only
\* humans had queued.  Cancels behind preStep()'s return that a rejected step never hears are not
\* covered, because the code does not keep rounds from the log after them.
THEOREM HumansComeFirst == Spec => RoundsYield
<1> DEFINE Yielding == Admits /\ batch.fenced => ~batch.overtakes /\ batch.round.version # halted
<1>1. YieldInv /\ [Next]_vars => [Yielding]_vars
  <2> SUFFICES ASSUME YieldInv, Next, Admits, batch.fenced
               PROVE  ~batch.overtakes /\ batch.round.version # halted
    OBVIOUS
  <2>1. StepEnters
    BY OnlyStepEntersAdmits DEF Admits
  <2>2. System.agent = agent /\ System.batch = batch
    BY DEF System
  <2>3. agent.at = "decided" /\ batch.decision = "enter"
    BY <2>1 DEF StepEnters, At
  <2>4. ~agent.aborted
    <3>1. Leave(System, "aborted").agent.at = "leaving"
      BY TurnEndIsGood DEF YieldInv, Inv, Leave, Good, States, Agents
    <3>2. QED
      BY <2>1, <3>1 DEF StepEnters, Becomes, Admits
  <2>5. QED
    BY <2>2, <2>3, <2>4 DEF YieldInv, Yields, Orderly, LetGoYields
<1>2. QED
  BY <1>1, InitYields, StepYields, PTL DEF Spec, RoundsYield
=============================================================================
