--------------------------- MODULE ToolCalls_proofs ---------------------------
(***************************************************************************)
(* Theorems about ToolCalls, for any number of calls and any size of the   *)
(* pool: exclusive calls are barriers, a batch is settled when it ends,    *)
(* results say truthfully what ran, and the log accepts every append.      *)
(***************************************************************************)
EXTENDS ToolCalls, SequenceTheorems, FiniteSetTheorems, TLAPS

-----------------------------------------------------------------------------
(***************************************************************************)
(* The inductive invariant.                                                *)
(***************************************************************************)

\* The points of a group whose calls are started, answered or drained.
InGroup == pc \in {"fill", "preparing", "launched", "committing", "finalizing", "committed",
                   "racing", "draining"}
Skips == pc \in {"skipping", "answering"}

\* The log of the open step while the calls of `pending' have no result.
OpenWith(pending) == [OpenStepTrace EXCEPT !.pendingCalls = pending]

\* How far groups, answers and starts have come.  The log holds the calls that were started
\* and not answered.
Progress ==
    /\ base <= committed /\ committed <= started
    /\ \A k \in DOMAIN answered : answered[k] = k
    /\ trace = OpenWith((committed + 1) .. started)
    /\ InGroup => base < NumCalls
    /\ pc = "classify" => committed = started /\ base = started
    /\ pc = "preparing" => committed < started
    /\ pc = "skipping" => committed = started
    /\ pc = "answering" => committed + 1 = started
    /\ pc = "finalizing" => committed < started /\ slot[committed + 1] # "empty"
    /\ pc = "returned" => committed = NumCalls

\* What a call has by its stage.
Pipeline ==
    \A c \in Calls :
        /\ c > started => stage[c] = "idle" /\ outcome[c] = "none"
        /\ stage[c] \in {"idle", "preparing", "wrapper"} => c \notin invoked
        /\ stage[c] = "body" => c \in invoked
        /\ stage[c] # "settled" => slot[c] = "empty" /\ outcome[c] \in {"none", "skipped"}
        /\ stage[c] = "settled" => outcome[c] # "skipped"
        /\ stage[c] = "settled" /\ slot[c] = "empty" => failed
        /\ outcome[c] = "aborted" => c \in invoked
        /\ outcome[c] = "before" => c \notin invoked

\* The pool holds what runs, of the group under way.
Pool ==
    /\ \A c \in Calls : Running(c) => c \in inFlight
    /\ \A c \in inFlight : base < c /\ c <= started /\ stage[c] \notin {"idle", "preparing"}
    /\ \A c \in Calls : stage[c] = "preparing" <=> pc = "preparing" /\ c = started
    /\ pc \in {"classify", "returned"} \/ Skips => inFlight = {}
    /\ Over => \A c \in Calls : ~Running(c)
    /\ pc \in {"committed", "fill"} /\ ~failed /\ committed < started =>
          committed + 1 \in inFlight
    /\ pc = "fill" => ~failed

\* A group has one mode, and an exclusive one has one call.
Groups ==
    /\ \A c \in Calls : stage[c] # "idle" /\ base < c => startedAs[c] = mode
    /\ mode = "exclusive" => \A c \in Calls : stage[c] # "idle" => c <= base + 1
    /\ GroupEnd < started => stopped /\ ~InGroup
    /\ InGroup \/ pc = "classify" => \A c \in 1 .. started : stage[c] # "idle"

\* Calls are skipped only when no dispatch failed.
Skipped ==
    /\ \A c \in Calls : outcome[c] = "skipped" => stage[c] = "idle" /\ ~failed /\ ~InGroup
    /\ pc = "classify" \/ Skips => ~failed
    /\ Skips => stopped
    /\ pc = "classify" => \A c \in Calls : outcome[c] # "skipped"
    /\ pc = "answering" => stage[started] = "idle"

Inv == TypeOK /\ Progress /\ Pipeline /\ Pool /\ Groups /\ Skipped

-----------------------------------------------------------------------------
(***************************************************************************)
(* The log.                                                                *)
(***************************************************************************)

LEMMA OpenFields ==
    ASSUME NEW pending
    PROVE  OpenWith(pending) = [openTurn |-> 1, openStep |-> 1, nextTurn |-> 1,
                                nextStep |-> 1, pendingCalls |-> pending]
<1>1. FreshTrace = [openTurn |-> 0, openStep |-> 0, nextTurn |-> 1, nextStep |-> 1,
                    pendingCalls |-> {}]
  BY DEF FreshTrace, None
<1> DEFINE openTurn == [FreshTrace EXCEPT !.openTurn = TurnOf]
<1>3. openTurn = [openTurn |-> 1, openStep |-> 0, nextTurn |-> 1, nextStep |-> 1,
                  pendingCalls |-> {}]
  BY <1>1 DEF TurnOf
<1>4. OpenStepTrace = [openTurn EXCEPT !.openStep = StepOf]
  BY DEF OpenStepTrace
<1> HIDE DEF openTurn
<1>2. OpenStepTrace = [openTurn |-> 1, openStep |-> 1, nextTurn |-> 1, nextStep |-> 1,
                       pendingCalls |-> {}]
  BY <1>3, <1>4 DEF StepOf
<1> QED BY <1>2 DEF OpenWith

\* Recording a call adds it to what is pending, and its result takes it away.
LEMMA OpenLog ==
    ASSUME NEW pending \in SUBSET Calls, NEW c \in Calls
    PROVE  /\ OpenWith(pending) \in Trace
           /\ Accepts(OpenWith(pending), ToolEvent("tool/call", TurnOf, StepOf, c, FALSE))
           /\ Appended(OpenWith(pending), ToolEvent("tool/call", TurnOf, StepOf, c, FALSE))
                = OpenWith(pending \cup {c})
           /\ c \in pending =>
                /\ Accepts(OpenWith(pending), ToolEvent("tool/result", TurnOf, StepOf, c, FALSE))
                /\ Appended(OpenWith(pending), ToolEvent("tool/result", TurnOf, StepOf, c, FALSE))
                     = OpenWith(pending \ {c})
<1> DEFINE log == OpenWith(pending)
           call == ToolEvent("tool/call", TurnOf, StepOf, c, FALSE)
           result == ToolEvent("tool/result", TurnOf, StepOf, c, FALSE)
<1>1. log = [openTurn |-> 1, openStep |-> 1, nextTurn |-> 1, nextStep |-> 1,
             pendingCalls |-> pending]
  BY OpenFields
<1>2. /\ call.type = "tool/call" /\ call.turn = 1 /\ call.step = 1 /\ call.calls = {c}
      /\ result.type = "tool/result" /\ result.turn = 1 /\ result.step = 1
      /\ result.calls = {c}
  BY DEF ToolEvent, TurnOf, StepOf
<1> HIDE DEF call, result
<1>3. log \in Trace BY <1>1 DEF Trace
<1>4. InOpenStep(log, call) /\ InOpenStep(log, result)
  BY <1>1, <1>2 DEF InOpenStep, None
<1>5. Accepts(log, call) BY <1>2, <1>4 DEF Accepts
<1>6. c \in pending => Accepts(log, result)
  <2>1. c \in pending => AnswersCall(log, result) BY <1>1, <1>2 DEF AnswersCall
  <2> QED BY <1>2, <1>4, <2>1 DEF Accepts
<1>7. Advance(log, call) = OpenWith(pending \cup {c})
  <2>1. Advance(log, call) = [log EXCEPT !.pendingCalls = @ \cup {c}] BY <1>2 DEF Advance
  <2> QED BY <1>1, <2>1, OpenFields
<1>8. Advance(log, result) = OpenWith(pending \ {c})
  <2>1. Advance(log, result) = [log EXCEPT !.pendingCalls = @ \ {c}] BY <1>2 DEF Advance
  <2> QED BY <1>1, <2>1, OpenFields
<1> QED BY <1>3, <1>5, <1>6, <1>7, <1>8 DEF Appended, call, result

\* The positions the counters of the batch may have.
LEMMA Positions ==
    ASSUME TypeOK, Progress
    PROVE  /\ NumCalls \in Nat /\ Calls = 1 .. NumCalls
           /\ base \in Nat /\ started \in Nat /\ committed \in Nat
           /\ base <= committed /\ committed <= started /\ started <= NumCalls
           /\ InGroup => base < NumCalls
<1>1. committed \in Nat BY LenProperties DEF TypeOK, committed
<1> QED BY <1>1, ToolCallsAssumption DEF TypeOK, Progress

\* A recorded call is pending.
LEMMA CallRecorded ==
    ASSUME TypeOK, Progress, started < NumCalls, RecordCall(started + 1)
    PROVE  /\ started + 1 \in Calls
           /\ trace' = OpenWith((committed + 1) .. (started + 1))
           /\ trace' \in Trace
<1> DEFINE pending == (committed + 1) .. started
<1>1. started + 1 \in Calls /\ pending \in SUBSET Calls BY Positions
<1>2. trace' = OpenWith(pending \cup {started + 1})
  BY <1>1, OpenLog DEF RecordCall, Progress
<1>3. pending \cup {started + 1} = (committed + 1) .. (started + 1) BY Positions
<1>4. OpenWith(pending \cup {started + 1}) \in Trace BY <1>1, OpenLog
<1> QED BY <1>1, <1>2, <1>3, <1>4

\* The result of the first call that has none, in its place.
LEMMA ResultRecorded ==
    ASSUME TypeOK, Progress, committed < started, RecordResult(committed + 1)
    PROVE  /\ committed + 1 \in Calls
           /\ answered' \in Seq(Calls) /\ committed' = committed + 1
           /\ \A k \in DOMAIN answered' : answered'[k] = k
           /\ trace' = OpenWith((committed + 2) .. started)
           /\ trace' \in Trace
<1> DEFINE pending == (committed + 1) .. started
           c == committed + 1
<1>1. c \in Calls /\ c \in pending /\ pending \in SUBSET Calls BY Positions
<1>2. trace' = OpenWith(pending \ {c})
  BY <1>1, OpenLog DEF RecordResult, Progress
<1>3. pending \ {c} = (committed + 2) .. started BY Positions
<1>4. OpenWith(pending \ {c}) \in Trace BY <1>1, OpenLog
<1>5. answered \in Seq(Calls) BY DEF TypeOK
<1>6. answered' = Append(answered, c) BY DEF RecordResult
<1>7. /\ answered' \in Seq(Calls) /\ Len(answered') = Len(answered) + 1
      /\ \A k \in 1 .. Len(answered) : answered'[k] = answered[k]
      /\ answered'[Len(answered) + 1] = c
  BY <1>1, <1>5, <1>6, AppendProperties
<1>8. \A k \in DOMAIN answered' : answered'[k] = k
  <2> SUFFICES ASSUME NEW k \in 1 .. (Len(answered) + 1) PROVE answered'[k] = k
    BY <1>7, LenProperties
  <2>1. CASE k = Len(answered) + 1 BY <1>7, <2>1 DEF committed
  <2>2. CASE k \in 1 .. Len(answered)
    BY <1>5, <1>7, <2>2, LenProperties DEF Progress
  <2>3. Len(answered) \in Nat BY <1>5, LenProperties
  <2> QED BY <2>1, <2>2, <2>3
<1> QED BY <1>1, <1>2, <1>3, <1>4, <1>7, <1>8 DEF committed

\* What is ready to be answered was started.
LEMMA ReadyIsStarted ==
    ASSUME Inv, InGroup, Ready
    PROVE  committed < started
<1>1. GroupEnd <= NumCalls BY Positions DEF Inv, GroupEnd
<1>2. committed + 1 \in Calls BY <1>1, Positions DEF Inv, Ready, GroupEnd
<1>3. stage[committed + 1] # "idle"
  BY <1>2 DEF Inv, Ready, Pipeline
<1>4. ~(committed + 1 > started) BY <1>2, <1>3 DEF Inv, Pipeline
<1> QED BY <1>4, Positions DEF Inv
-----------------------------------------------------------------------------
(***************************************************************************)
(* The actions keep the invariant.                                         *)
(***************************************************************************)

\* A group begins, or the batch is over.
LEMMA ClassifyKeeps == Inv /\ Classify => Inv'
<1> SUFFICES ASSUME Inv, Classify PROVE Inv' OBVIOUS
<1>1. TypeOK /\ Progress /\ Pipeline /\ Pool /\ Groups /\ Skipped BY DEF Inv
<1>2. /\ NumCalls \in Nat /\ Calls = 1 .. NumCalls
      /\ base \in Nat /\ started \in Nat /\ committed \in Nat
      /\ base <= committed /\ committed <= started /\ started <= NumCalls
  BY <1>1, Positions
<1>3. pc = "classify" /\ committed = started /\ base = started /\ inFlight = {} /\ ~failed
  BY <1>1 DEF Classify, Progress, Pool, Skipped
<1>4. /\ UNCHANGED <<signal, base, started, startedAs, failed, inFlight, stage, slot, outcome,
                     invoked, answered, trace>>
      /\ \/ base = NumCalls /\ pc' = "returned" /\ UNCHANGED <<mode, stopped>>
         \/ base < NumCalls /\ mode' \in Modes /\ stopped' = signal /\ pc' = "fill"
  BY DEF Classify, poolVars
<1>5. \A c \in Calls : ~Running(c) /\ stage[c] # "preparing" BY <1>1, <1>3 DEF Pool
<1>6. \A c \in Calls : stage[c] # "idle" => c <= started
  <2> SUFFICES ASSUME NEW c \in Calls, stage[c] # "idle" PROVE ~(c > started)
    BY <1>2
  <2> QED BY <1>1 DEF Pipeline
<1>7. TypeOK' BY <1>1, <1>4 DEF TypeOK, Points, AwaitPoints
<1>8. Progress' BY <1>1, <1>2, <1>3, <1>4 DEF Progress, InGroup, committed
<1>9. Pipeline' BY <1>1, <1>4 DEF Pipeline
<1>10. Pool' BY <1>2, <1>3, <1>4, <1>5 DEF Pool, Running, Skips, Over, committed
<1>11. Groups'
  <2>1. CASE pc' = "returned" BY <1>1, <1>2, <1>3, <1>4, <2>1 DEF Groups, GroupEnd, InGroup
  <2>2. CASE pc' = "fill"
    BY <1>1, <1>2, <1>3, <1>4, <1>6, <2>2 DEF Groups, GroupEnd, InGroup, Modes
  <2> QED BY <1>4, <2>1, <2>2
<1>12. Skipped' BY <1>1, <1>3, <1>4 DEF Skipped, InGroup, Skips
<1> QED BY <1>7, <1>8, <1>9, <1>10, <1>11, <1>12 DEF Inv

\* One more call of the group is recorded, or its append is vetoed.
LEMMA StartCallKeeps == Inv /\ StartCall => Inv'
<1> SUFFICES ASSUME Inv, StartCall PROVE Inv' OBVIOUS
<1>1. TypeOK /\ Progress /\ Pipeline /\ Pool /\ Groups /\ Skipped BY DEF Inv
<1>2. /\ NumCalls \in Nat /\ Calls = 1 .. NumCalls
      /\ base \in Nat /\ started \in Nat /\ committed \in Nat
      /\ base <= committed /\ committed <= started /\ started <= NumCalls
  BY <1>1, Positions
<1>3. pc = "fill" /\ ~failed /\ base < NumCalls /\ started < GroupEnd /\ ~stopped
  BY <1>1 DEF StartCall, MayStart, Pool, Progress, InGroup
<1>4. started < NumCalls /\ started + 1 \in Calls BY <1>2, <1>3 DEF GroupEnd
<1>5. CASE started' = started
  <2>1. /\ pc' = "draining" /\ failed'
        /\ UNCHANGED <<signal, base, mode, stopped, started, startedAs, inFlight, stage, slot,
                       outcome, invoked, answered, trace>>
    BY <1>2, <1>5 DEF StartCall, Drain
  <2>2. TypeOK' BY <1>1, <2>1 DEF TypeOK, Points, AwaitPoints
  <2>3. Progress' BY <1>1, <1>3, <2>1 DEF Progress, committed
  <2>4. Pipeline' BY <1>1, <2>1 DEF Pipeline
  <2>5. Pool' BY <1>1, <1>3, <2>1 DEF Pool, Running, Skips, Over, committed
  <2>6. Groups' BY <1>1, <1>3, <2>1 DEF Groups, GroupEnd, InGroup
  <2>7. Skipped' BY <1>1, <1>3, <2>1 DEF Skipped, InGroup, Skips
  <2> QED BY <2>2, <2>3, <2>4, <2>5, <2>6, <2>7 DEF Inv
<1>6. CASE started' = started + 1
  <2>1. /\ pc' = "preparing" /\ RecordCall(started + 1)
        /\ startedAs' = [startedAs EXCEPT ![started + 1] = mode]
        /\ stage' = [stage EXCEPT ![started + 1] = "preparing"]
        /\ UNCHANGED <<signal, base, mode, stopped, failed, inFlight, slot, outcome, invoked,
                       answered>>
    BY <1>2, <1>6 DEF StartCall, Drain
  <2>2. trace' = OpenWith((committed + 1) .. (started + 1)) /\ trace' \in Trace
    BY <1>1, <1>4, <2>1, CallRecorded
  <2>3. \A d \in Calls :
          /\ stage'[d] = IF d = started + 1 THEN "preparing" ELSE stage[d]
          /\ startedAs'[d] = IF d = started + 1 THEN mode ELSE startedAs[d]
    BY <1>1, <2>1 DEF TypeOK
  <2>4. stage[started + 1] = "idle" BY <1>1, <1>2, <1>4 DEF Pipeline
  <2>5. TypeOK'
    <3>1. startedAs' \in [Calls -> Modes] BY <1>1, <2>1 DEF TypeOK
    <3>2. stage' \in [Calls -> Stages] BY <1>1, <2>1 DEF TypeOK, Stages
    <3>3. started' \in 0 .. NumCalls BY <1>2, <1>4, <1>6
    <3> QED BY <1>1, <2>1, <2>2, <3>1, <3>2, <3>3 DEF TypeOK, Points, AwaitPoints
  <2>6. Progress' BY <1>1, <1>2, <1>3, <1>6, <2>1, <2>2 DEF Progress, committed
  <2>7. Pipeline' BY <1>1, <1>2, <1>4, <1>6, <2>1, <2>3, <2>4 DEF Pipeline
  <2>8. Pool'
    <3>1. \A d \in Calls : stage[d] # "preparing" BY <1>1, <1>3 DEF Pool
    <3>2. \A d \in Calls : Running(d)' => d \in inFlight'
      BY <1>1, <2>1, <2>3 DEF Pool, Running
    <3>3. \A d \in inFlight' : base' < d /\ d <= started' /\ stage'[d] \notin {"idle", "preparing"}
      <4> SUFFICES ASSUME NEW d \in inFlight
                   PROVE  base < d /\ d <= started + 1 /\ stage'[d] \notin {"idle", "preparing"}
        BY <1>6, <2>1
      <4>1. d \in Calls /\ base < d /\ d <= started /\ stage[d] \notin {"idle", "preparing"}
        BY <1>1 DEF Pool, TypeOK
      <4> QED BY <1>2, <2>3, <4>1
    <3>4. \A d \in Calls : stage'[d] = "preparing" <=> pc' = "preparing" /\ d = started'
      BY <1>6, <2>1, <2>3, <3>1
    <3> QED BY <2>1, <3>2, <3>3, <3>4 DEF Pool, Skips, Over
  <2>9. Groups' BY <1>1, <1>2, <1>3, <1>4, <1>6, <2>1, <2>3, <2>4
                   DEF Groups, GroupEnd, InGroup
  <2>10. Skipped' BY <1>1, <1>2, <1>3, <1>4, <2>1, <2>3 DEF Skipped, InGroup, Skips
  <2> QED BY <2>5, <2>6, <2>7, <2>8, <2>9, <2>10 DEF Inv
<1> QED BY <1>5, <1>6 DEF StartCall

\* The pool is full, the group exhausted, or its turn over.
LEMMA LeavePoolKeeps == Inv /\ LeavePool => Inv'
<1> SUFFICES ASSUME Inv, LeavePool PROVE Inv' OBVIOUS
<1>1. TypeOK /\ Progress /\ Pipeline /\ Pool /\ Groups /\ Skipped BY DEF Inv
<1>2. /\ NumCalls \in Nat /\ Calls = 1 .. NumCalls
      /\ base \in Nat /\ started \in Nat /\ committed \in Nat
      /\ base <= committed /\ committed <= started /\ started <= NumCalls
  BY <1>1, Positions
<1>3. pc = "fill" /\ ~failed /\ base < NumCalls
  BY <1>1 DEF LeavePool, Pool, Progress, InGroup
<1>4. /\ UNCHANGED <<signal, mode, started, stopped, startedAs, failed, inFlight, stage, slot,
                     outcome, invoked, answered, trace>>
      /\ \/ inFlight # {} /\ pc' = "racing" /\ base' = base
         \/ inFlight = {} /\ stopped /\ pc' = "skipping" /\ base' = base
         \/ inFlight = {} /\ pc' = "classify" /\ base' = started
  BY <1>1, <1>2, <1>3 DEF LeavePool, poolVars, Pool
<1>5. inFlight = {} => committed = started BY <1>1, <1>2, <1>3 DEF Pool
<1>6. pc' = "classify" \/ pc' = "skipping" => \A c \in Calls : outcome[c] # "skipped"
  BY <1>1, <1>3 DEF Skipped, InGroup
<1>7. TypeOK' BY <1>1, <1>2, <1>3, <1>4, <1>5, <1>6 DEF TypeOK, Points, AwaitPoints
<1>8. Progress' BY <1>1, <1>2, <1>3, <1>4, <1>5, <1>6 DEF Progress, InGroup, committed
<1>9. Pipeline' BY <1>1, <1>2, <1>3, <1>4, <1>5, <1>6 DEF Pipeline, InGroup
<1>10. Pool'
  BY <1>1, <1>2, <1>3, <1>4, <1>5, <1>6 DEF Pool, Running, InGroup, Skips, Over, committed
<1>11. Groups' BY <1>1, <1>2, <1>3, <1>4, <1>5, <1>6 DEF Groups, GroupEnd, InGroup
<1>12. Skipped' BY <1>1, <1>2, <1>3, <1>4, <1>5, <1>6 DEF Skipped, InGroup, Skips
<1> QED BY <1>7, <1>8, <1>9, <1>10, <1>11, <1>12 DEF Inv

\* A call that settles.
LEMMA SettleFields ==
    ASSUME TypeOK, NEW c \in Calls, NEW kind \in {"post", "final"}, NEW result \in Outcomes,
           Settle(c, kind, result)
    PROVE  /\ stage' \in [Calls -> Stages] /\ slot' \in [Calls -> Slots]
           /\ outcome' \in [Calls -> Outcomes]
           /\ \A d \in Calls \ {c} : /\ stage'[d] = stage[d] /\ slot'[d] = slot[d]
                                     /\ outcome'[d] = outcome[d]
           /\ stage'[c] = "settled" /\ slot'[c] = kind /\ outcome'[c] = result
<1>1. stage' \in [Calls -> Stages] BY DEF TypeOK, Settle, Stages
<1>2. slot' \in [Calls -> Slots] BY DEF TypeOK, Settle, Slots
<1>3. outcome' \in [Calls -> Outcomes] BY DEF TypeOK, Settle
<1>4. /\ \A d \in Calls \ {c} : /\ stage'[d] = stage[d] /\ slot'[d] = slot[d]
                                /\ outcome'[d] = outcome[d]
      /\ stage'[c] = "settled" /\ slot'[c] = kind /\ outcome'[c] = result
  BY DEF TypeOK, Settle
<1> QED BY <1>1, <1>2, <1>3, <1>4

\* The call of the pool's last place is launched, settled or lost.
LEMMA PreparedKeeps == Inv /\ Prepared => Inv'
<1> SUFFICES ASSUME Inv, Prepared PROVE Inv' OBVIOUS
<1>1. TypeOK /\ Progress /\ Pipeline /\ Pool /\ Groups /\ Skipped BY DEF Inv
<1>2. /\ NumCalls \in Nat /\ Calls = 1 .. NumCalls
      /\ base \in Nat /\ started \in Nat /\ committed \in Nat
      /\ base <= committed /\ committed <= started /\ started <= NumCalls
  BY <1>1, Positions
<1>3. /\ pc = "preparing" /\ committed < started /\ started \in Calls /\ base < NumCalls
      /\ base < started /\ stage[started] = "preparing" /\ started \notin invoked
      /\ slot[started] = "empty" /\ outcome[started] = "none" /\ started \notin inFlight
  <2>1. pc = "preparing" /\ committed < started BY <1>1 DEF Prepared, Progress
  <2>2. started \in Calls /\ base < started BY <1>2, <2>1
  <2>3. stage[started] = "preparing" BY <1>1, <2>1, <2>2 DEF Pool
  <2>4. outcome[started] # "skipped" BY <1>1, <2>2, <2>3 DEF Skipped
  <2> QED BY <1>1, <2>1, <2>2, <2>3, <2>4 DEF Pipeline, Pool, Progress, InGroup
<1>4. CASE failed
  <2>1. /\ pc' = "draining" /\ failed' /\ stage' = [stage EXCEPT ![started] = "settled"]
        /\ UNCHANGED <<signal, base, mode, started, stopped, startedAs, inFlight, slot, outcome,
                       invoked, answered, trace>>
    BY <1>4 DEF Prepared, Drain, groupVars
  <2>2. stage' \in [Calls -> Stages] BY <1>1, <2>1 DEF TypeOK, Stages
  <2>3. \A d \in Calls : stage'[d] = IF d = started THEN "settled" ELSE stage[d]
    BY <1>1, <2>1 DEF TypeOK
  <2>4. TypeOK' BY <1>1, <2>1, <2>2 DEF TypeOK, Points, AwaitPoints
  <2>5. Progress' BY <1>1, <1>3, <2>1 DEF Progress, committed
  <2>6. Pipeline' BY <1>1, <1>3, <2>1, <2>3 DEF Pipeline
  <2>7. Pool' BY <1>1, <1>3, <2>1, <2>3 DEF Pool, Running, Skips, Over
  <2>8. Groups' BY <1>1, <1>2, <1>3, <2>1, <2>3 DEF Groups, GroupEnd, InGroup
  <2>9. Skipped' BY <1>1, <1>3, <2>1, <2>3 DEF Skipped, InGroup, Skips
  <2> QED BY <2>4, <2>5, <2>6, <2>7, <2>8, <2>9 DEF Inv
<1>5. CASE ~failed /\ inFlight' # inFlight
  <2>1. /\ pc' = "launched" /\ ~failed' /\ stage' = [stage EXCEPT ![started] = "wrapper"]
        /\ inFlight' = inFlight \cup {started}
        /\ UNCHANGED <<signal, base, mode, started, stopped, startedAs, slot, outcome,
                       invoked, answered, trace, failed>>
    BY <1>5 DEF Prepared, groupVars
  <2>2. stage' \in [Calls -> Stages] BY <1>1, <2>1 DEF TypeOK, Stages
  <2>3. \A d \in Calls : stage'[d] = IF d = started THEN "wrapper" ELSE stage[d]
    BY <1>1, <2>1 DEF TypeOK
  <2>4. TypeOK'
    <3>1. inFlight' \in SUBSET Calls BY <1>1, <1>3, <2>1 DEF TypeOK
    <3> QED BY <1>1, <2>1, <2>2, <3>1 DEF TypeOK, Points, AwaitPoints
  <2>5. Progress' BY <1>1, <1>3, <2>1 DEF Progress, committed
  <2>6. Pipeline' BY <1>1, <1>3, <2>1, <2>3 DEF Pipeline
  <2>7. Pool' BY <1>1, <1>2, <1>3, <2>1, <2>3 DEF Pool, Running, Skips, Over
  <2>8. Groups' BY <1>1, <1>2, <1>3, <2>1, <2>3 DEF Groups, GroupEnd, InGroup
  <2>9. Skipped' BY <1>1, <1>3, <2>1, <2>3 DEF Skipped, InGroup, Skips
  <2> QED BY <2>4, <2>5, <2>6, <2>7, <2>8, <2>9 DEF Inv
<1>6. CASE ~failed /\ inFlight' = inFlight
  <2>1. /\ pc' = "launched" /\ ~failed'
        /\ UNCHANGED <<signal, base, mode, started, stopped, startedAs, inFlight,
                       invoked, answered, trace, failed>>
    BY <1>6 DEF Prepared, groupVars
  <2>2. PICK kind \in {"post", "final"}, result \in {"error", "before"} :
           Settle(started, kind, result)
    BY <1>3, <1>6 DEF Prepared
  <2>3. /\ stage' \in [Calls -> Stages] /\ slot' \in [Calls -> Slots]
        /\ outcome' \in [Calls -> Outcomes]
        /\ \A d \in Calls \ {started} : /\ stage'[d] = stage[d] /\ slot'[d] = slot[d]
                                        /\ outcome'[d] = outcome[d]
        /\ stage'[started] = "settled" /\ slot'[started] = kind /\ outcome'[started] = result
    BY <1>1, <1>3, <2>2, SettleFields DEF Outcomes
  <2>4. TypeOK' BY <1>1, <2>1, <2>3 DEF TypeOK, Points, AwaitPoints
  <2>5. Progress' BY <1>1, <1>3, <2>1 DEF Progress, committed
  <2>6. Pipeline' BY <1>1, <1>3, <2>1, <2>3 DEF Pipeline
  <2>7. Pool'
    <3>1. \A d \in Calls : stage'[d] # "preparing" BY <1>1, <1>3, <2>3 DEF Pool
    <3>2. \A d \in Calls : Running(d)' => d \in inFlight'
      BY <1>1, <2>1, <2>3 DEF Pool, Running
    <3>3. \A d \in inFlight : base < d /\ d <= started /\ stage'[d] \notin {"idle", "preparing"}
      BY <1>1, <2>3 DEF Pool, TypeOK
    <3> QED BY <2>1, <3>1, <3>2, <3>3 DEF Pool, Skips, Over
  <2>8. Groups' BY <1>1, <1>2, <1>3, <2>1, <2>3 DEF Groups, GroupEnd, InGroup
  <2>9. Skipped' BY <1>1, <1>3, <2>1, <2>3 DEF Skipped, InGroup, Skips
  <2> QED BY <2>4, <2>5, <2>6, <2>7, <2>8, <2>9 DEF Inv
<1> QED BY <1>4, <1>5, <1>6

\* The scheduler looks for failures after a launch.
LEMMA LaunchedKeeps == Inv /\ Launched => Inv'
<1> SUFFICES ASSUME Inv, Launched PROVE Inv' OBVIOUS
<1>1. TypeOK /\ Progress /\ Pipeline /\ Pool /\ Groups /\ Skipped BY DEF Inv
<1>2. /\ NumCalls \in Nat /\ Calls = 1 .. NumCalls
      /\ base \in Nat /\ started \in Nat /\ committed \in Nat
      /\ base <= committed /\ committed <= started /\ started <= NumCalls
  BY <1>1, Positions
<1>3. TypeOK'
  BY <1>1, <1>2 DEF Launched, groupVars, poolVars, Drain, TypeOK, Points, AwaitPoints
<1>4. Progress'
  BY <1>1, <1>2 DEF Launched, groupVars, poolVars, Drain, Progress, InGroup, committed
<1>5. Pipeline' BY <1>1, <1>2 DEF Launched, groupVars, poolVars, Drain, Pipeline, InGroup
<1>6. Pool'
  BY <1>1, <1>2 DEF Launched, groupVars, poolVars, Drain, Pool, Running, InGroup, Skips,
      Over, committed
<1>7. Groups' BY <1>1, <1>2 DEF Launched, groupVars, poolVars, Drain, Groups, GroupEnd, InGroup
<1>8. Skipped' BY <1>1, <1>2 DEF Launched, groupVars, poolVars, Drain, Skipped, InGroup, Skips
<1> QED BY <1>3, <1>4, <1>5, <1>6, <1>7, <1>8 DEF Inv

\* The next settled call is answered, or its finalizer begins.
LEMMA CommitNextKeeps == Inv /\ CommitNext => Inv'
<1> SUFFICES ASSUME Inv, CommitNext PROVE Inv' OBVIOUS
<1>1. TypeOK /\ Progress /\ Pipeline /\ Pool /\ Groups /\ Skipped BY DEF Inv
<1>2. /\ NumCalls \in Nat /\ Calls = 1 .. NumCalls
      /\ base \in Nat /\ started \in Nat /\ committed \in Nat
      /\ base <= committed /\ committed <= started /\ started <= NumCalls
  BY <1>1, Positions
<1>3. /\ pc = "committing" /\ Ready /\ committed < started /\ committed + 1 \in Calls
      /\ UNCHANGED <<signal, base, mode, started, stopped, startedAs, inFlight, stage, slot,
                     outcome, invoked>>
      /\ \/ pc' = "finalizing" /\ UNCHANGED <<failed, answered, trace>>
         \/ RecordResult(committed + 1) /\ UNCHANGED <<pc, failed>>
         \/ pc' = "draining" /\ failed' /\ UNCHANGED <<answered, trace>>
  <2>1. Inv /\ InGroup /\ Ready BY DEF CommitNext, InGroup
  <2> QED BY <1>2, <2>1, ReadyIsStarted DEF CommitNext, groupVars, poolVars, Drain
<1>4. CASE RecordResult(committed + 1) /\ UNCHANGED <<pc, failed>>
  <2>1. /\ answered' \in Seq(Calls) /\ committed' = committed + 1
        /\ \A k \in DOMAIN answered' : answered'[k] = k
        /\ trace' = OpenWith((committed + 2) .. started) /\ trace' \in Trace
    BY <1>1, <1>3, <1>4, ResultRecorded
  <2>2. trace' = OpenWith((committed' + 1) .. started') BY <1>2, <1>3, <2>1
  <2>3. TypeOK' BY <1>1, <1>3, <1>4, <2>1 DEF TypeOK
  <2>4. Progress' BY <1>1, <1>2, <1>3, <1>4, <2>1, <2>2 DEF Progress, InGroup
  <2>5. Pipeline' BY <1>1, <1>3, <1>4 DEF Pipeline
  <2>6. Pool' BY <1>1, <1>3, <1>4 DEF Pool, Running, Skips, Over
  <2>7. Groups' BY <1>1, <1>3, <1>4 DEF Groups, GroupEnd, InGroup
  <2>8. Skipped' BY <1>1, <1>3, <1>4 DEF Skipped, InGroup, Skips
  <2> QED BY <2>3, <2>4, <2>5, <2>6, <2>7, <2>8 DEF Inv
<1>5. CASE UNCHANGED <<answered, trace>> /\ pc' \in {"finalizing", "draining"}
           /\ \/ failed' = failed
              \/ pc' = "draining" /\ failed'
  <2>3. TypeOK' BY <1>1, <1>3, <1>5 DEF TypeOK, Points, AwaitPoints
  <2>4. Progress' BY <1>1, <1>3, <1>5 DEF Progress, InGroup, committed, Ready
  <2>5. Pipeline' BY <1>1, <1>3, <1>5 DEF Pipeline
  <2>6. Pool' BY <1>1, <1>3, <1>5 DEF Pool, Running, Skips, Over
  <2>7. Groups' BY <1>1, <1>3, <1>5 DEF Groups, GroupEnd, InGroup
  <2>8. Skipped' BY <1>1, <1>3, <1>5 DEF Skipped, InGroup, Skips
  <2> QED BY <2>3, <2>4, <2>5, <2>6, <2>7, <2>8 DEF Inv
<1> QED
  <2>1. \/ pc' = "finalizing" /\ UNCHANGED <<failed, answered, trace>>
        \/ RecordResult(committed + 1) /\ UNCHANGED <<pc, failed>>
        \/ pc' = "draining" /\ failed' /\ UNCHANGED <<answered, trace>>
    BY <1>3
  <2> QED BY <1>4, <1>5, <2>1

\* The finalizer answers its call, or fails.
LEMMA FinalizeKeeps == Inv /\ Finalize => Inv'
<1> SUFFICES ASSUME Inv, Finalize PROVE Inv' OBVIOUS
<1>1. TypeOK /\ Progress /\ Pipeline /\ Pool /\ Groups /\ Skipped BY DEF Inv
<1>2. /\ NumCalls \in Nat /\ Calls = 1 .. NumCalls
      /\ base \in Nat /\ started \in Nat /\ committed \in Nat
      /\ base <= committed /\ committed <= started /\ started <= NumCalls
  BY <1>1, Positions
<1>3. /\ pc = "finalizing" /\ committed < started /\ committed + 1 \in Calls
      /\ stage[committed + 1] = "settled"
  <2>1. /\ pc = "finalizing" /\ committed < started /\ slot[committed + 1] # "empty"
    BY <1>1 DEF Finalize, Progress
  <2>2. committed + 1 \in Calls BY <1>2, <2>1
  <2> QED BY <1>1, <2>1, <2>2 DEF Pipeline
<1>4. UNCHANGED <<signal, base, mode, started, stopped, startedAs, inFlight, stage, slot, invoked>>
  BY DEF Finalize, groupVars
<1>5. CASE pc' = "committing"
  <2>1. RecordResult(committed + 1) /\ failed' = failed
    BY <1>5 DEF Finalize, Drain
  <2>2. PICK result \in Outcomes :
          /\ outcome' = [outcome EXCEPT ![committed + 1] = result]
          /\ result = "aborted" => committed + 1 \in invoked
          /\ result = "before" => committed + 1 \notin invoked
          /\ result # "skipped"
    <3> DEFINE c == committed + 1
               cancelled == IF c \in invoked THEN "aborted" ELSE "before"
    <3>1. PICK found \in {outcome[c], "ok", "error"} :
            outcome' = [outcome EXCEPT ![c] = IF signal /\ found = "ok" THEN cancelled
                                                                      ELSE found]
      BY <1>5 DEF Finalize, Drain
    <3>2. outcome[c] \in Outcomes BY <1>1, <1>3 DEF TypeOK
    <3>3. /\ outcome[c] = "aborted" => c \in invoked
          /\ outcome[c] = "before" => c \notin invoked
          /\ outcome[c] # "skipped"
      BY <1>1, <1>3 DEF Pipeline
    <3> DEFINE result == IF signal /\ found = "ok" THEN cancelled ELSE found
    <3>4. /\ result \in Outcomes /\ result # "skipped"
          /\ result = "aborted" => c \in invoked
          /\ result = "before" => c \notin invoked
      BY <3>2, <3>3 DEF Outcomes
    <3> QED BY <3>1, <3>4
  <2>3. \A d \in Calls : outcome'[d] = IF d = committed + 1 THEN result ELSE outcome[d]
    BY <1>1, <2>2 DEF TypeOK
  <2>4. /\ answered' \in Seq(Calls) /\ committed' = committed + 1
        /\ \A k \in DOMAIN answered' : answered'[k] = k
        /\ trace' = OpenWith((committed + 2) .. started) /\ trace' \in Trace
    BY <1>1, <1>3, <2>1, ResultRecorded
  <2>5. trace' = OpenWith((committed' + 1) .. started') BY <1>2, <1>4, <2>4
  <2>6. outcome' \in [Calls -> Outcomes] BY <1>1, <2>2 DEF TypeOK
  <2>7. TypeOK' BY <1>1, <1>4, <1>5, <2>1, <2>4, <2>6 DEF TypeOK, Points
  <2>8. Progress' BY <1>1, <1>2, <1>3, <1>4, <1>5, <2>4, <2>5 DEF Progress, InGroup
  <2>9. Pipeline' BY <1>1, <1>2, <1>3, <1>4, <2>1, <2>2, <2>3 DEF Pipeline
  <2>10. Pool' BY <1>1, <1>3, <1>4, <1>5 DEF Pool, Running, Skips, Over
  <2>11. Groups' BY <1>1, <1>3, <1>4, <1>5 DEF Groups, GroupEnd, InGroup
  <2>12. Skipped' BY <1>1, <1>3, <1>4, <1>5, <2>1, <2>2, <2>3 DEF Skipped, InGroup, Skips
  <2> QED BY <2>7, <2>8, <2>9, <2>10, <2>11, <2>12 DEF Inv
<1>6. CASE pc' # "committing"
  <2>1. /\ pc' = "draining" /\ failed'
        /\ UNCHANGED <<outcome, answered, trace>>
    BY <1>6 DEF Finalize, Drain
  <2>7. TypeOK' BY <1>1, <1>4, <2>1 DEF TypeOK, Points, AwaitPoints
  <2>8. Progress' BY <1>1, <1>3, <1>4, <2>1 DEF Progress, InGroup, committed
  <2>9. Pipeline' BY <1>1, <1>4, <2>1 DEF Pipeline
  <2>10. Pool' BY <1>1, <1>3, <1>4, <2>1 DEF Pool, Running, Skips, Over
  <2>11. Groups' BY <1>1, <1>3, <1>4, <2>1 DEF Groups, GroupEnd, InGroup
  <2>12. Skipped' BY <1>1, <1>3, <1>4, <2>1 DEF Skipped, InGroup, Skips
  <2> QED BY <2>7, <2>8, <2>9, <2>10, <2>11, <2>12 DEF Inv
<1> QED BY <1>5, <1>6

\* Nothing more is ready: the next call, if there is one, still runs.
LEMMA CommitStopsKeeps == Inv /\ CommitStops => Inv'
<1> SUFFICES ASSUME Inv, CommitStops PROVE Inv' OBVIOUS
<1>1. TypeOK /\ Progress /\ Pipeline /\ Pool /\ Groups /\ Skipped BY DEF Inv
<1>2. /\ NumCalls \in Nat /\ Calls = 1 .. NumCalls
      /\ base \in Nat /\ started \in Nat /\ committed \in Nat
      /\ base <= committed /\ committed <= started /\ started <= NumCalls
  BY <1>1, Positions
<1>3. TypeOK' BY <1>1, <1>2 DEF CommitStops, groupVars, poolVars, TypeOK, Points, AwaitPoints
<1>4. Progress' BY <1>1, <1>2 DEF CommitStops, groupVars, poolVars, Progress, InGroup, committed
<1>5. Pipeline' BY <1>1, <1>2 DEF CommitStops, groupVars, poolVars, Pipeline, InGroup
<1>6. Pool'
  <2>1. /\ pc = "committing" /\ pc' = "committed" /\ ~Ready
        /\ UNCHANGED <<base, started, failed, inFlight, stage, answered>>
    BY DEF CommitStops, groupVars, poolVars
  <2>2. ASSUME ~failed, committed < started PROVE committed + 1 \in inFlight
    <3> DEFINE c == committed + 1
    <3>1. c \in Calls /\ c \in 1 .. started BY <1>2, <2>2
    <3>2. started <= GroupEnd BY <1>1, <1>2, <2>1 DEF Groups, InGroup, GroupEnd
    <3>3. slot[c] = "empty" BY <1>2, <2>1, <2>2, <3>2 DEF Ready, GroupEnd
    <3>4. stage[c] # "idle" BY <1>1, <2>1, <3>1 DEF Groups, InGroup
    <3>5. stage[c] # "preparing" BY <1>1, <2>1, <3>1 DEF Pool
    <3>6. stage[c] # "settled" BY <1>1, <2>2, <3>1, <3>3 DEF Pipeline
    <3>7. stage[c] \in Stages BY <1>1, <3>1 DEF TypeOK
    <3> QED BY <1>1, <3>1, <3>4, <3>5, <3>6, <3>7 DEF Pool, Running, Stages
  <2> QED BY <1>1, <2>1, <2>2 DEF Pool, Running, Skips, Over, committed
<1>7. Groups' BY <1>1, <1>2 DEF CommitStops, groupVars, poolVars, Groups, GroupEnd, InGroup
<1>8. Skipped' BY <1>1, <1>2 DEF CommitStops, groupVars, poolVars, Skipped, InGroup, Skips
<1> QED BY <1>3, <1>4, <1>5, <1>6, <1>7, <1>8 DEF Inv

\* The pool may take calls again.
LEMMA RefillKeeps == Inv /\ Refill => Inv'
<1> SUFFICES ASSUME Inv, Refill PROVE Inv' OBVIOUS
<1>1. TypeOK /\ Progress /\ Pipeline /\ Pool /\ Groups /\ Skipped BY DEF Inv
<1>2. /\ NumCalls \in Nat /\ Calls = 1 .. NumCalls
      /\ base \in Nat /\ started \in Nat /\ committed \in Nat
      /\ base <= committed /\ committed <= started /\ started <= NumCalls
  BY <1>1, Positions
<1>3. TypeOK' BY <1>1, <1>2 DEF Refill, groupVars, poolVars, Drain, TypeOK, Points, AwaitPoints
<1>4. Progress'
  BY <1>1, <1>2 DEF Refill, groupVars, poolVars, Drain, Progress, InGroup, committed
<1>5. Pipeline' BY <1>1, <1>2 DEF Refill, groupVars, poolVars, Drain, Pipeline, InGroup
<1>6. Pool'
  BY <1>1, <1>2 DEF Refill, groupVars, poolVars, Drain, Pool, Running, InGroup, Skips, Over,
      committed
<1>7. Groups' BY <1>1, <1>2 DEF Refill, groupVars, poolVars, Drain, Groups, GroupEnd, InGroup
<1>8. Skipped' BY <1>1, <1>2 DEF Refill, groupVars, poolVars, Drain, Skipped, InGroup, Skips
<1> QED BY <1>3, <1>4, <1>5, <1>6, <1>7, <1>8 DEF Inv

\* A settled call leaves the pool.
LEMMA RaceKeeps == Inv /\ Race => Inv'
<1> SUFFICES ASSUME Inv, Race PROVE Inv' OBVIOUS
<1>1. TypeOK /\ Progress /\ Pipeline /\ Pool /\ Groups /\ Skipped BY DEF Inv
<1>2. /\ NumCalls \in Nat /\ Calls = 1 .. NumCalls
      /\ base \in Nat /\ started \in Nat /\ committed \in Nat
      /\ base <= committed /\ committed <= started /\ started <= NumCalls
  BY <1>1, Positions
<1>3. TypeOK' BY <1>1, <1>2 DEF Race, groupVars, poolVars, Drain, TypeOK, Points, AwaitPoints
<1>4. Progress' BY <1>1, <1>2 DEF Race, groupVars, poolVars, Drain, Progress, InGroup, committed
<1>5. Pipeline' BY <1>1, <1>2 DEF Race, groupVars, poolVars, Drain, Pipeline, InGroup
<1>6. Pool'
  BY <1>1, <1>2 DEF Race, groupVars, poolVars, Drain, Pool, Running, InGroup, Skips, Over,
      committed
<1>7. Groups' BY <1>1, <1>2 DEF Race, groupVars, poolVars, Drain, Groups, GroupEnd, InGroup
<1>8. Skipped' BY <1>1, <1>2 DEF Race, groupVars, poolVars, Drain, Skipped, InGroup, Skips
<1> QED BY <1>3, <1>4, <1>5, <1>6, <1>7, <1>8 DEF Inv

\* The last dispatch of a failed batch has settled.
LEMMA DrainedKeeps == Inv /\ Drained => Inv'
<1> SUFFICES ASSUME Inv, Drained PROVE Inv' OBVIOUS
<1>1. TypeOK /\ Progress /\ Pipeline /\ Pool /\ Groups /\ Skipped BY DEF Inv
<1>2. /\ NumCalls \in Nat /\ Calls = 1 .. NumCalls
      /\ base \in Nat /\ started \in Nat /\ committed \in Nat
      /\ base <= committed /\ committed <= started /\ started <= NumCalls
  BY <1>1, Positions
<1>3. TypeOK' BY <1>1, <1>2 DEF Drained, groupVars, poolVars, TypeOK, Points, AwaitPoints
<1>4. Progress' BY <1>1, <1>2 DEF Drained, groupVars, poolVars, Progress, InGroup, committed
<1>5. Pipeline' BY <1>1, <1>2 DEF Drained, groupVars, poolVars, Pipeline, InGroup
<1>6. Pool'
  BY <1>1, <1>2 DEF Drained, groupVars, poolVars, Pool, Running, InGroup, Skips, Over, committed
<1>7. Groups' BY <1>1, <1>2 DEF Drained, groupVars, poolVars, Groups, GroupEnd, InGroup
<1>8. Skipped' BY <1>1, <1>2 DEF Drained, groupVars, poolVars, Skipped, InGroup, Skips
<1> QED BY <1>3, <1>4, <1>5, <1>6, <1>7, <1>8 DEF Inv

\* A call an abort left unstarted is recorded.
LEMMA SkipKeeps == Inv /\ Skip => Inv'
<1> SUFFICES ASSUME Inv, Skip PROVE Inv' OBVIOUS
<1>1. TypeOK /\ Progress /\ Pipeline /\ Pool /\ Groups /\ Skipped BY DEF Inv
<1>2. /\ NumCalls \in Nat /\ Calls = 1 .. NumCalls
      /\ base \in Nat /\ started \in Nat /\ committed \in Nat
      /\ base <= committed /\ committed <= started /\ started <= NumCalls
  BY <1>1, Positions
<1>3. /\ pc = "skipping" /\ committed = started /\ ~failed /\ stopped
      /\ UNCHANGED <<signal, base, mode, stopped, startedAs, failed, inFlight, stage, slot, outcome,
                     invoked, answered>>
      /\ \/ started = NumCalls /\ pc' = "returned" /\ UNCHANGED <<started, trace>>
         \/ started < NumCalls /\ started' = started + 1 /\ RecordCall(started + 1)
            /\ pc' = "answering"
         \/ pc' = "thrown" /\ UNCHANGED <<started, trace>>
  BY <1>1 DEF Skip, poolVars, Progress, Skipped, Skips
<1>4. \A c \in Calls : ~Running(c) /\ stage[c] # "preparing" BY <1>1, <1>3 DEF Pool, Skips
<1>5. CASE pc' = "answering"
  <2>1. started < NumCalls /\ started' = started + 1 /\ RecordCall(started + 1) BY <1>3, <1>5
  <2>2. /\ started + 1 \in Calls /\ trace' = OpenWith((committed + 1) .. (started + 1))
        /\ trace' \in Trace
    BY <1>1, <2>1, CallRecorded
  <2>3. stage[started + 1] = "idle" BY <1>1, <1>2, <2>2 DEF Pipeline
  <2>4. TypeOK' BY <1>1, <1>2, <1>3, <1>5, <2>1, <2>2 DEF TypeOK, Points
  <2>5. Progress'
    <3>1. committed' = committed BY <1>3 DEF committed
    <3>2. trace' = OpenWith((committed' + 1) .. started') BY <2>1, <2>2, <3>1
    <3>3. base' <= committed' /\ committed' <= started' /\ committed' + 1 = started'
      BY <1>1, <1>2, <1>3, <2>1, <3>1
    <3> QED BY <1>1, <1>3, <1>5, <3>2, <3>3 DEF Progress, InGroup
  <2>6. Pipeline'
    <3>1. \A c \in Calls : c > started' => c > started BY <1>2, <2>1
    <3>2. UNCHANGED <<stage, slot, outcome, invoked, failed>> BY <1>3
    <3> QED BY <1>1, <3>1, <3>2 DEF Pipeline
  <2>7. Pool' BY <1>1, <1>2, <1>3, <1>4, <1>5, <2>1 DEF Pool, Running, Skips, Over
  <2>8. Groups' BY <1>1, <1>3, <1>5 DEF Groups, GroupEnd, InGroup
  <2>9. Skipped' BY <1>1, <1>3, <1>5, <2>1, <2>3 DEF Skipped, InGroup, Skips
  <2> QED BY <2>4, <2>5, <2>6, <2>7, <2>8, <2>9 DEF Inv
<1>6. CASE pc' \in {"returned", "thrown"}
  <2>1. UNCHANGED <<started, trace>> BY <1>3, <1>6
  <2>4. TypeOK' BY <1>1, <1>3, <1>6, <2>1 DEF TypeOK, Points
  <2>5. Progress' BY <1>1, <1>2, <1>3, <1>6, <2>1 DEF Progress, InGroup, committed
  <2>6. Pipeline' BY <1>1, <1>3, <2>1 DEF Pipeline
  <2>7. Pool' BY <1>1, <1>3, <1>4, <1>6, <2>1 DEF Pool, Running, Skips, Over
  <2>8. Groups' BY <1>1, <1>3, <1>6, <2>1 DEF Groups, GroupEnd, InGroup
  <2>9. Skipped' BY <1>1, <1>3, <1>6, <2>1 DEF Skipped, InGroup, Skips
  <2> QED BY <2>4, <2>5, <2>6, <2>7, <2>8, <2>9 DEF Inv
<1> QED BY <1>3, <1>5, <1>6

\* It is answered in the same breath.
LEMMA AnswerSkippedKeeps == Inv /\ AnswerSkipped => Inv'
<1> SUFFICES ASSUME Inv, AnswerSkipped PROVE Inv' OBVIOUS
<1>1. TypeOK /\ Progress /\ Pipeline /\ Pool /\ Groups /\ Skipped BY DEF Inv
<1>2. /\ NumCalls \in Nat /\ Calls = 1 .. NumCalls
      /\ base \in Nat /\ started \in Nat /\ committed \in Nat
      /\ base <= committed /\ committed <= started /\ started <= NumCalls
  BY <1>1, Positions
<1>3. /\ pc = "answering" /\ committed + 1 = started /\ started \in Calls /\ ~failed /\ stopped
      /\ stage[started] = "idle"
      /\ UNCHANGED <<signal, base, mode, started, stopped, startedAs, failed, inFlight, stage, slot,
                     invoked>>
      /\ \/ outcome' = [outcome EXCEPT ![started] = "skipped"] /\ RecordResult(started)
            /\ pc' = "skipping"
         \/ pc' = "thrown" /\ UNCHANGED <<outcome, answered, trace>>
  BY <1>1, <1>2 DEF AnswerSkipped, groupVars, Progress, Skipped, Skips
<1>4. \A c \in Calls : ~Running(c) /\ stage[c] # "preparing" BY <1>1, <1>3 DEF Pool, Skips
<1>5. CASE pc' = "skipping"
  <2>1. outcome' = [outcome EXCEPT ![started] = "skipped"] /\ RecordResult(committed + 1)
    BY <1>3, <1>5
  <2>2. /\ answered' \in Seq(Calls) /\ committed' = committed + 1
        /\ \A k \in DOMAIN answered' : answered'[k] = k
        /\ trace' = OpenWith((committed + 2) .. started) /\ trace' \in Trace
    BY <1>1, <1>2, <1>3, <2>1, ResultRecorded
  <2>3. \A d \in Calls : outcome'[d] = IF d = started THEN "skipped" ELSE outcome[d]
    BY <1>1, <2>1 DEF TypeOK
  <2>4. TypeOK'
    <3>1. outcome' \in [Calls -> Outcomes] BY <1>1, <2>1 DEF TypeOK, Outcomes
    <3> QED BY <1>1, <1>3, <1>5, <2>2, <3>1 DEF TypeOK, Points
  <2>5. trace' = OpenWith((committed' + 1) .. started') BY <1>2, <1>3, <2>2
  <2>6. Progress' BY <1>1, <1>2, <1>3, <1>5, <2>2, <2>5 DEF Progress, InGroup
  <2>7. Pipeline' BY <1>1, <1>2, <1>3, <2>3 DEF Pipeline
  <2>8. Pool' BY <1>1, <1>3, <1>4, <1>5 DEF Pool, Running, Skips, Over
  <2>9. Groups' BY <1>1, <1>3, <1>5 DEF Groups, GroupEnd, InGroup
  <2>10. Skipped' BY <1>1, <1>3, <1>5, <2>3 DEF Skipped, InGroup, Skips
  <2> QED BY <2>4, <2>6, <2>7, <2>8, <2>9, <2>10 DEF Inv
<1>6. CASE pc' = "thrown"
  <2>1. UNCHANGED <<outcome, answered, trace>> BY <1>3, <1>6
  <2>4. TypeOK' BY <1>1, <1>3, <1>6, <2>1 DEF TypeOK, Points
  <2>5. Progress' BY <1>1, <1>2, <1>3, <1>6, <2>1 DEF Progress, InGroup, committed
  <2>6. Pipeline' BY <1>1, <1>3, <2>1 DEF Pipeline
  <2>7. Pool' BY <1>1, <1>3, <1>4, <1>6, <2>1 DEF Pool, Running, Skips, Over
  <2>8. Groups' BY <1>1, <1>3, <1>6, <2>1 DEF Groups, GroupEnd, InGroup
  <2>9. Skipped' BY <1>1, <1>3, <1>6, <2>1 DEF Skipped, InGroup, Skips
  <2> QED BY <2>4, <2>5, <2>6, <2>7, <2>8, <2>9 DEF Inv
<1> QED BY <1>3, <1>5, <1>6

\* A tool of the pool moves on.
LEMMA ToolStepKeeps == Inv /\ ToolStep => Inv'
<1> SUFFICES ASSUME Inv, ToolStep PROVE Inv' OBVIOUS
<1>1. TypeOK /\ Progress /\ Pipeline /\ Pool /\ Groups /\ Skipped BY DEF Inv
<1>2. PICK c \in inFlight : BodyStarts(c) \/ DispatchSettles(c) \/ DispatchFails(c)
  BY DEF ToolStep
<1>3. /\ pc \in AwaitPoints /\ c \in Calls /\ Running(c) /\ base < c /\ c <= started
      /\ slot[c] = "empty" /\ outcome[c] \in {"none", "skipped"}
      /\ UNCHANGED <<pc, signal, base, mode, started, stopped, startedAs, answered, trace, inFlight>>
  <2>1. c \in Calls BY <1>1 DEF TypeOK
  <2>2. Running(c)
    BY <1>2 DEF BodyStarts, DispatchSettles, DispatchFails, Running
  <2>3. slot[c] = "empty" /\ outcome[c] \in {"none", "skipped"}
    BY <1>1, <2>1, <2>2 DEF Pipeline, Running
  <2> QED BY <1>1, <1>2, <2>1, <2>2, <2>3
          DEF Pool, ToolStep, groupVars, BodyStarts, DispatchSettles, DispatchFails
<1>4. started \in Nat /\ NumCalls \in Nat /\ Calls = 1 .. NumCalls
  BY <1>1, Positions
<1>5. outcome[c] = "none" BY <1>1, <1>3 DEF Skipped, Running
<1>6. CASE BodyStarts(c)
  <2>1. /\ stage[c] = "wrapper" /\ stage' = [stage EXCEPT ![c] = "body"]
        /\ invoked' = invoked \cup {c} /\ UNCHANGED <<failed, slot, outcome>>
    BY <1>6 DEF BodyStarts
  <2>2. \A d \in Calls : stage'[d] = IF d = c THEN "body" ELSE stage[d]
    BY <1>1, <2>1 DEF TypeOK
  <2>3. TypeOK'
    <3>1. stage' \in [Calls -> Stages] BY <1>1, <2>1 DEF TypeOK, Stages
    <3>2. invoked' \in SUBSET Calls BY <1>1, <1>3, <2>1 DEF TypeOK
    <3> QED BY <1>1, <1>3, <2>1, <3>1, <3>2 DEF TypeOK
  <2>4. Progress' BY <1>1, <1>3, <2>1 DEF Progress, InGroup, committed
  <2>5. Pipeline' BY <1>1, <1>3, <1>5, <2>1, <2>2 DEF Pipeline
  <2>6. Pool' BY <1>1, <1>3, <2>1, <2>2 DEF Pool, Running, Skips, Over, AwaitPoints, committed
  <2>7. Groups' BY <1>1, <1>3, <2>1, <2>2 DEF Groups, GroupEnd, InGroup
  <2>8. Skipped' BY <1>1, <1>3, <1>5, <2>1, <2>2 DEF Skipped, InGroup, Skips, AwaitPoints
  <2> QED BY <2>3, <2>4, <2>5, <2>6, <2>7, <2>8 DEF Inv
<1>7. CASE DispatchSettles(c)
  <2>1. PICK kind \in {"post", "final"}, result \in {"ok", "error", "aborted", "before"} :
          /\ Settle(c, kind, result)
          /\ result = "aborted" => c \in invoked
          /\ result = "before" => c \notin invoked
    BY <1>7 DEF DispatchSettles
  <2>2. /\ stage' \in [Calls -> Stages] /\ slot' \in [Calls -> Slots]
        /\ outcome' \in [Calls -> Outcomes]
        /\ \A d \in Calls \ {c} : /\ stage'[d] = stage[d] /\ slot'[d] = slot[d]
                                  /\ outcome'[d] = outcome[d]
        /\ stage'[c] = "settled" /\ slot'[c] = kind /\ outcome'[c] = result
    BY <1>1, <1>3, <2>1, SettleFields DEF Outcomes
  <2>9. UNCHANGED <<failed, invoked>> BY <1>7 DEF DispatchSettles
  <2>3. TypeOK' BY <1>1, <1>3, <2>2, <2>9 DEF TypeOK
  <2>4. Progress'
    <3>1. pc = "finalizing" => committed < started /\ slot'[committed + 1] # "empty"
      <4> SUFFICES ASSUME pc = "finalizing" PROVE slot'[committed + 1] # "empty"
        BY <1>1 DEF Progress
      <4>1. slot[committed + 1] # "empty" /\ committed < started BY <1>1 DEF Progress
      <4>2. committed + 1 \in Calls BY <1>1, <4>1, Positions
      <4> QED BY <1>3, <2>2, <4>1, <4>2
    <3> QED BY <1>1, <1>3, <2>9, <3>1 DEF Progress, InGroup, committed
  <2>5. Pipeline'
    <3>1. ~(c > started) BY <1>3, <1>4
    <3> QED BY <1>1, <1>3, <2>1, <2>2, <2>9, <3>1 DEF Pipeline
  <2>6. Pool'
    <3>1. \A d \in Calls : stage'[d] = IF d = c THEN "settled" ELSE stage[d] BY <2>2
    <3>2. inFlight \subseteq Calls BY <1>1 DEF TypeOK
    <3> QED BY <1>1, <1>3, <2>9, <3>1, <3>2
            DEF Pool, Running, Skips, Over, AwaitPoints, committed
  <2>7. Groups'
    <3>1. 1 .. started \subseteq Calls BY <1>1, <1>4, Positions
    <3> QED BY <1>1, <1>3, <2>2, <2>9, <3>1 DEF Groups, GroupEnd, InGroup, Running
  <2>8. Skipped' BY <1>1, <1>3, <2>2, <2>9 DEF Skipped, InGroup, Skips, AwaitPoints
  <2> QED BY <2>3, <2>4, <2>5, <2>6, <2>7, <2>8 DEF Inv
<1>8. CASE DispatchFails(c)
  <2>1. /\ stage' = [stage EXCEPT ![c] = "settled"] /\ failed'
        /\ UNCHANGED <<slot, outcome, invoked>>
    BY <1>8 DEF DispatchFails
  <2>2. \A d \in Calls : stage'[d] = IF d = c THEN "settled" ELSE stage[d]
    BY <1>1, <2>1 DEF TypeOK
  <2>3. TypeOK'
    <3>1. stage' \in [Calls -> Stages] BY <1>1, <2>1 DEF TypeOK, Stages
    <3> QED BY <1>1, <1>3, <2>1, <3>1 DEF TypeOK
  <2>4. Progress' BY <1>1, <1>3, <2>1 DEF Progress, InGroup, committed
  <2>5. Pipeline' BY <1>1, <1>3, <1>4, <1>5, <2>1, <2>2 DEF Pipeline
  <2>6. Pool' BY <1>1, <1>3, <2>1, <2>2 DEF Pool, Running, Skips, Over, AwaitPoints, committed
  <2>7. Groups' BY <1>1, <1>3, <2>1, <2>2 DEF Groups, GroupEnd, InGroup, Running
  <2>8. Skipped'
    <3>1. InGroup BY <1>1, <1>3 DEF Pool, Skips, AwaitPoints, InGroup
    <3> QED BY <1>1, <1>3, <2>1, <2>2, <3>1 DEF Skipped, InGroup, Skips
  <2> QED BY <2>3, <2>4, <2>5, <2>6, <2>7, <2>8 DEF Inv
<1> QED BY <1>2, <1>6, <1>7, <1>8

\* Somebody cancels the step.
LEMMA AbortKeeps == Inv /\ Abort => Inv'
<1> SUFFICES ASSUME Inv, Abort PROVE Inv' OBVIOUS
<1>1. TypeOK /\ Progress /\ Pipeline /\ Pool /\ Groups /\ Skipped BY DEF Inv
<1>2. /\ NumCalls \in Nat /\ Calls = 1 .. NumCalls
      /\ base \in Nat /\ started \in Nat /\ committed \in Nat
      /\ base <= committed /\ committed <= started /\ started <= NumCalls
  BY <1>1, Positions
<1>3. TypeOK' BY <1>1, <1>2 DEF Abort, groupVars, poolVars, TypeOK, Points, AwaitPoints
<1>4. Progress'
  BY <1>1, <1>2 DEF Abort, groupVars, poolVars, AwaitPoints, Progress, InGroup, committed
<1>5. Pipeline' BY <1>1, <1>2 DEF Abort, groupVars, poolVars, AwaitPoints, Pipeline, InGroup
<1>6. Pool'
  BY <1>1, <1>2 DEF Abort, groupVars, poolVars, AwaitPoints, Pool, Running, InGroup, Skips,
      Over, committed
<1>7. Groups'
  BY <1>1, <1>2 DEF Abort, groupVars, poolVars, AwaitPoints, Groups, GroupEnd, InGroup
<1>8. Skipped'
  BY <1>1, <1>2 DEF Abort, groupVars, poolVars, AwaitPoints, Skipped, InGroup, Skips
<1> QED BY <1>3, <1>4, <1>5, <1>6, <1>7, <1>8 DEF Inv

LEMMA InitInv == Init => Inv
<1> SUFFICES ASSUME Init PROVE Inv OBVIOUS
<1>1. NumCalls \in Nat /\ Calls = 1 .. NumCalls BY ToolCallsAssumption
<1>2. answered \in Seq(Calls) /\ committed = 0 /\ DOMAIN answered = {}
  <2>1. answered = << >> BY DEF Init
  <2>2. << >> \in Seq(Calls) /\ Len(<< >>) = 0 /\ DOMAIN << >> = {} OBVIOUS
  <2> QED BY <2>1, <2>2 DEF committed
<1>3. trace = OpenWith({}) /\ trace \in Trace
  <2>1. trace = OpenStepTrace BY DEF Init
  <2>2. OpenStepTrace = OpenWith({})
    <3>1. OpenStepTrace.pendingCalls = {} BY DEF OpenStepTrace, FreshTrace
    <3>2. OpenStepTrace \in Trace
      <4>1. FreshTrace \in Trace BY DEF FreshTrace, Trace, None
      <4> QED BY <4>1 DEF OpenStepTrace, Trace, TurnOf, StepOf
    <3> QED BY <3>1, <3>2 DEF OpenWith, Trace
  <2>3. OpenWith({}) \in Trace BY OpenFields DEF Trace
  <2> QED BY <2>1, <2>2, <2>3
<1>4. (committed + 1) .. started = {} BY <1>2 DEF Init
<1>5. /\ stage = [c \in Calls |-> "idle"] /\ slot = [c \in Calls |-> "empty"]
      /\ outcome = [c \in Calls |-> "none"] /\ startedAs = [c \in Calls |-> "parallel"]
      /\ pc = "classify" /\ signal \in BOOLEAN /\ base = 0 /\ mode = "parallel" /\ started = 0
      /\ stopped = FALSE /\ failed = FALSE /\ inFlight = {} /\ invoked = {}
  BY DEF Init
<1>6. TypeOK
  <2>1. startedAs \in [Calls -> Modes] BY <1>5 DEF Modes
  <2>2. stage \in [Calls -> Stages] BY <1>5 DEF Stages
  <2>3. slot \in [Calls -> Slots] BY <1>5 DEF Slots
  <2>4. outcome \in [Calls -> Outcomes] BY <1>5 DEF Outcomes
  <2>5. base \in 0 .. NumCalls /\ started \in 0 .. NumCalls BY <1>1, <1>5
  <2>6. inFlight \in SUBSET Calls /\ invoked \in SUBSET Calls BY <1>5
  <2>7. pc \in Points /\ signal \in BOOLEAN /\ stopped \in BOOLEAN /\ failed \in BOOLEAN
        /\ mode \in Modes
    BY <1>5 DEF Points, AwaitPoints, Modes
  <2> QED BY <1>2, <1>3, <2>1, <2>2, <2>3, <2>4, <2>5, <2>6, <2>7 DEF TypeOK
<1>7. Progress BY <1>1, <1>2, <1>3, <1>4, <1>5 DEF Progress, InGroup
<1>8. Pipeline BY <1>5 DEF Pipeline
<1>9. Pool BY <1>5 DEF Pool, Running, Skips, Over
<1>10. Groups BY <1>1, <1>5 DEF Groups, GroupEnd, InGroup
<1>11. Skipped BY <1>5 DEF Skipped, InGroup, Skips
<1> QED BY <1>6, <1>7, <1>8, <1>9, <1>10, <1>11 DEF Inv

LEMMA StutterKeeps == Inv /\ UNCHANGED vars => Inv'
<1> SUFFICES ASSUME Inv, UNCHANGED vars PROVE Inv' OBVIOUS
<1>1. UNCHANGED <<pc, signal, base, mode, started, stopped, startedAs, failed, inFlight, stage,
                  slot, outcome, invoked, answered, trace>>
  BY DEF vars, groupVars, poolVars
<1>2. TypeOK /\ Progress /\ Pipeline /\ Pool /\ Groups /\ Skipped BY DEF Inv
<1>3. TypeOK' BY <1>1, <1>2 DEF TypeOK
<1>4. Progress' BY <1>1, <1>2 DEF Progress, InGroup, committed
<1>5. Pipeline' BY <1>1, <1>2 DEF Pipeline
<1>6. Pool' BY <1>1, <1>2 DEF Pool, Running, Skips, Over, committed
<1>7. Groups' BY <1>1, <1>2 DEF Groups, GroupEnd, InGroup
<1>8. Skipped' BY <1>1, <1>2 DEF Skipped, InGroup, Skips
<1> QED BY <1>3, <1>4, <1>5, <1>6, <1>7, <1>8 DEF Inv

LEMMA StepInv == Inv /\ [Next]_vars => Inv'
<1> SUFFICES ASSUME Inv, [Next]_vars PROVE Inv' OBVIOUS
<1>1. CASE SchedulerStep
  BY <1>1, ClassifyKeeps, StartCallKeeps, LeavePoolKeeps, PreparedKeeps, LaunchedKeeps,
     CommitNextKeeps, FinalizeKeeps, CommitStopsKeeps, RefillKeeps, RaceKeeps, DrainedKeeps,
     SkipKeeps, AnswerSkippedKeeps DEF SchedulerStep
<1>2. CASE ToolStep BY <1>2, ToolStepKeeps
<1>3. CASE Abort BY <1>3, AbortKeeps
<1>4. CASE UNCHANGED vars BY <1>4, StutterKeeps
<1> QED BY <1>1, <1>2, <1>3, <1>4 DEF Next

LEMMA Invariance == Spec => []Inv
<1> QED BY InitInv, StepInv, PTL DEF Spec

-----------------------------------------------------------------------------
(***************************************************************************)
(* What the scheduler guarantees.                                          *)
(***************************************************************************)

\* Every variable of the scheduler keeps its type (executeToolCalls, runGroup).
THEOREM TypeCorrect == Spec => []TypeOK
<1>1. Inv => TypeOK BY DEF Inv
<1> QED BY <1>1, Invariance, PTL

\* From the start of an exclusive call to its answer no other call of the batch runs.
THEOREM ExclusiveCallsAreAlone == Spec => []ExclusiveIsABarrier
<1>1. Inv => ExclusiveIsABarrier
  <2> SUFFICES ASSUME Inv, NEW c \in 1 .. started, startedAs[c] = "exclusive",
                      committed < c, stage[c] # "idle"
               PROVE  /\ started = c \/ stopped
                      /\ \A d \in Calls \ {c} : ~Running(d)
    BY DEF ExclusiveIsABarrier
  <2>1. TypeOK /\ Progress /\ Pool /\ Groups BY DEF Inv
  <2>2. /\ NumCalls \in Nat /\ Calls = 1 .. NumCalls
        /\ base \in Nat /\ started \in Nat /\ committed \in Nat
        /\ base <= committed /\ committed <= started /\ started <= NumCalls
    BY <2>1, Positions
  <2>3. c \in Calls /\ base < c BY <2>2
  <2>4. mode = "exclusive" BY <2>1, <2>3 DEF Groups
  <2>5. \A d \in Calls : stage[d] # "idle" => d <= base + 1 BY <2>1, <2>4 DEF Groups
  <2>6. c = base + 1
    <3>1. c <= base + 1 BY <2>3, <2>5
    <3> QED BY <2>2, <2>3, <3>1
  <2>7. started = c \/ stopped BY <2>1, <2>2, <2>4, <2>6 DEF Groups, GroupEnd
  <2>8. ASSUME NEW d \in Calls, Running(d) PROVE d = c
    <3>1. d <= base + 1 BY <2>5, <2>8 DEF Running
    <3>2. base < d BY <2>1, <2>8 DEF Pool
    <3> QED BY <2>2, <2>6, <3>1, <3>2
  <2> QED BY <2>7, <2>8
<1> QED BY <1>1, Invariance, PTL

\* Results are logged in model order; when executeToolCalls() settles nothing it dispatched
\* still runs; when it returns every call has its result; when it failed none has a made-up one.
THEOREM SettledBatch == Spec => []BatchIsSettled
<1>1. Inv => BatchIsSettled
  BY DEF Inv, BatchIsSettled, Progress, Pool, Skipped
<1> QED BY <1>1, Invariance, PTL

\* A call said to be cancelled before its dispatch did not run, one said to be aborted did.
THEOREM TruthfulCancellation == Spec => []CancellationIsTruthful
<1>1. Inv => CancellationIsTruthful
  BY DEF Inv, CancellationIsTruthful, Pipeline, Skipped
<1> QED BY <1>1, Invariance, PTL

-----------------------------------------------------------------------------
(***************************************************************************)
(* The scheduler writes a log the session package accepts.                 *)
(***************************************************************************)

\* The instance states the grammar in the operators of this module.
LEMMA SameGrammar ==
    ASSUME NEW event, Accepts(trace, event), trace' = Advance(trace, event)
    PROVE  SessionGrammar!AppendEvent(event)
<1>1. SessionGrammar!Accepts(trace, event)
  BY DEF SessionGrammar!Accepts, Accepts, SessionGrammar!InOpenStep, InOpenStep,
         SessionGrammar!AnswersCall, AnswersCall, SessionGrammar!None, None
<1>2. SessionGrammar!Advance(trace, event) = Advance(trace, event)
  BY DEF SessionGrammar!Advance, Advance, SessionGrammar!None, None
<1> QED BY <1>1, <1>2 DEF SessionGrammar!AppendEvent

LEMMA CallIsAccepted ==
    ASSUME TypeOK, Progress, started < NumCalls, RecordCall(started + 1)
    PROVE  SessionGrammar!Next
<1> DEFINE pending == (committed + 1) .. started
           event == ToolEvent("tool/call", TurnOf, StepOf, started + 1, FALSE)
<1>1. started + 1 \in Calls /\ pending \in SUBSET Calls BY Positions
<1>2. trace = OpenWith(pending) BY DEF Progress
<1>3. Accepts(trace, event) BY <1>1, <1>2, OpenLog
<1>4. trace' = Advance(trace, event) BY <1>3 DEF RecordCall, Appended
<1>5. SessionGrammar!AppendEvent(event) BY <1>3, <1>4, SameGrammar
<1>6. trace.openTurn = TurnOf /\ trace.openStep = StepOf
  BY <1>2, OpenFields DEF TurnOf, StepOf
<1>7. SessionGrammar!RecordCall(started + 1)
  BY <1>5, <1>6 DEF SessionGrammar!RecordCall, SessionGrammar!ToolEvent, ToolEvent
<1> QED BY <1>1, <1>7 DEF SessionGrammar!Next

LEMMA ResultIsAccepted ==
    ASSUME TypeOK, Progress, committed < started, RecordResult(committed + 1)
    PROVE  SessionGrammar!Next
<1> DEFINE pending == (committed + 1) .. started
           event == ToolEvent("tool/result", TurnOf, StepOf, committed + 1, FALSE)
<1>1. committed + 1 \in Calls /\ committed + 1 \in pending /\ pending \in SUBSET Calls
  BY Positions
<1>2. trace = OpenWith(pending) BY DEF Progress
<1>3. Accepts(trace, event) BY <1>1, <1>2, OpenLog
<1>4. trace' = Advance(trace, event) BY <1>3 DEF RecordResult, Appended
<1>5. SessionGrammar!AppendEvent(event) BY <1>3, <1>4, SameGrammar
<1>6. trace.openTurn = TurnOf /\ trace.openStep = StepOf
  BY <1>2, OpenFields DEF TurnOf, StepOf
<1>7. SessionGrammar!AnswerCall(committed + 1, FALSE)
  BY <1>5, <1>6 DEF SessionGrammar!AnswerCall, SessionGrammar!ToolEvent, ToolEvent
<1> QED BY <1>1, <1>7 DEF SessionGrammar!Next

\* Every append of the scheduler is one the grammar accepts in the open step.
LEMMA StepObeysGrammar == Inv /\ [Next]_vars => [SessionGrammar!Next]_trace
<1> SUFFICES ASSUME Inv, [Next]_vars, trace' # trace PROVE SessionGrammar!Next OBVIOUS
<1>1. TypeOK /\ Progress BY DEF Inv
<1>2. StartCall \/ CommitNext \/ Finalize \/ Skip \/ AnswerSkipped
  BY DEF Next, SchedulerStep, ToolStep, Abort, Classify, LeavePool, Prepared, Launched,
         CommitStops, Refill, Race, Drained, vars
<1>3. /\ started \in Nat /\ committed \in Nat /\ NumCalls \in Nat /\ started <= NumCalls
      /\ base \in Nat
      /\ InGroup => base < NumCalls
  BY <1>1, Positions
<1>4. CASE StartCall
  <2>1. started < NumCalls /\ RecordCall(started + 1)
    <3>1. InGroup BY <1>4 DEF StartCall, InGroup
    <3> QED BY <1>3, <1>4, <3>1 DEF StartCall, MayStart, GroupEnd
  <2> QED BY <1>1, <2>1, CallIsAccepted
<1>5. CASE Skip
  <2>1. started < NumCalls /\ RecordCall(started + 1) BY <1>5 DEF Skip
  <2> QED BY <1>1, <2>1, CallIsAccepted
<1>6. CASE CommitNext
  <2>1. InGroup /\ Ready /\ RecordResult(committed + 1) BY <1>6 DEF CommitNext, InGroup
  <2>2. committed < started BY <2>1, ReadyIsStarted
  <2> QED BY <1>1, <2>1, <2>2, ResultIsAccepted
<1>7. CASE Finalize
  <2>1. committed < started /\ RecordResult(committed + 1) BY <1>1, <1>7 DEF Finalize, Progress
  <2> QED BY <1>1, <2>1, ResultIsAccepted
<1>8. CASE AnswerSkipped
  <2>1. committed + 1 = started /\ RecordResult(started)
    BY <1>1, <1>8 DEF AnswerSkipped, Progress
  <2>2. committed < started /\ RecordResult(committed + 1) BY <1>3, <2>1
  <2> QED BY <1>1, <2>2, ResultIsAccepted
<1> QED BY <1>2, <1>4, <1>5, <1>6, <1>7, <1>8

\* The log of the batch is one SessionLog allows, append by append.
THEOREM BatchLogGrammar == Spec => ObeysSessionGrammar
<1> QED BY Invariance, StepObeysGrammar, PTL DEF Spec, ObeysSessionGrammar
===============================================================================
