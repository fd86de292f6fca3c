------------------------ MODULE CrashRecovery_proofs ------------------------
(***************************************************************************)
(* Theorems about CrashRecovery, for any number of calls, turns, steps and *)
(* crashes: what left the process stays on record, repair says truthfully  *)
(* what never started and answers everything, and every log is one that    *)
(* the session grammar accepts.                                            *)
(***************************************************************************)
EXTENDS CrashRecovery, FiniteSetTheorems, NaturalsInduction, SequenceTheorems, TLAPS

-----------------------------------------------------------------------------
(***************************************************************************)
(* The inductive invariant.                                                *)
(***************************************************************************)

Open == [turn : Nat, step : Nat, pending : SUBSET Calls, recorded : SUBSET Calls]

\* An event of this type names the call, among the first n of the log.
Named(events, n, type, c) == \E i \in 1..n : events[i].type = type /\ c \in events[i].calls

\* The companion and the repair read the same thing out of a log.
Matched(trace, open) ==
    /\ trace \in Trace /\ open \in Open
    /\ trace.nextTurn # 0 /\ trace.nextStep # 0
    /\ open.turn = trace.openTurn /\ open.step = trace.openStep
    /\ trace.openTurn = None => trace.openStep = None
    /\ trace.openStep = None => trace.pendingCalls = {} /\ open.pending = {}
    /\ open.pending \cap open.recorded \subseteq trace.pendingCalls

\* No record of a pending call goes unnoticed, and no call of an open step unanswered;
\* m calls were made.
Noticed(events, n, open, m) ==
    /\ open.pending \cup open.recorded \subseteq 1..m
    /\ \A c \in open.pending : Named(events, n, "tool/call", c) => c \in open.recorded
    /\ \A i \in 1..n :
          /\ events[i].type = "assistant/message"
          /\ \A j \in (i + 1)..n : events[j].type # "step/end"
          => /\ open.step # None
             /\ \A c \in events[i].calls :
                   c \in open.pending \/ Named(events, n, "tool/result", c)

\* An event names calls that were made, and says truly what was not started.
Truthful(event, m, bodies) == /\ event.calls \subseteq 1..m
                              /\ event.notStarted => event.calls \cap bodies = {}

\* All of this holds of every beginning of a log.
Sound(events, m, bodies) ==
    /\ \A n \in 0..Len(events) :
          /\ Matched(TracesOf(events)[n], OpensOf(events)[n])
          /\ Noticed(events, n, OpensOf(events)[n], m)
    /\ \A i \in 1..Len(events) : Truthful(events[i], m, bodies)

\* The driver works at the end of the log, and knows which calls it recorded there.
InPlace ==
    /\ at = "idle" => Turn = None
    /\ at \in {"pre-step", "step ended"} => Turn # None /\ Step = None
    /\ at \in {"request", "streaming", "tools"} => Turn # None /\ Step # None
    /\ at \notin {"down", "repairing"} =>
          TraceOf(log).pendingCalls = InStage({"recorded", "flushing", "running", "settled"})
    /\ at # "tools" => \A c \in Calls : tool[c] = "none"

\* What left the process was stored before: what the model saw, and the records of bodies.
SeenIsStored == Len(seen) <= stored /\ \A i \in 1..Len(seen) : seen[i] = log[i]
BodiesRecorded == \A c \in ran : Named(log, stored, "tool/call", c)

\* What is about to leave it is recorded, and waits for its record to be stored.
ToolRecorded(c) ==
    /\ tool[c] = "recorded" => Named(log, Len(log), "tool/call", c)
    /\ tool[c] = "flushing" => target[c] <= Len(log) /\ Named(log, target[c], "tool/call", c)
    /\ tool[c] # "none" => c <= made

\* A call that is said not to have started is none of this process.
DeniedAreIdle ==
    \A i \in 1..Len(log) : log[i].notStarted => \A c \in log[i].calls : tool[c] = "none"

OnRecord == /\ SeenIsStored /\ BodiesRecorded /\ DeniedAreIdle
            /\ at = "request" => target[Driver] = Len(log)
            /\ \A c \in Calls : ToolRecorded(c)

Inv == TypeOK /\ Sound(log, made, ran) /\ InPlace /\ OnRecord

-----------------------------------------------------------------------------
(***************************************************************************)
(* Induction over the natural numbers, and functions defined by it.  The   *)
(* step of a recursion is a function here.                                 *)
(***************************************************************************)

\* A set of naturals that has 0 and every successor of its own has them all.
LEMMA NaturalsAreAll ==
    ASSUME NEW S, 0 \in S, \A n \in Nat : n \in S => n + 1 \in S
    PROVE  \A n \in Nat : n \in S
<1> SUFFICES ASSUME NEW m \in Nat, m \notin S PROVE FALSE
  OBVIOUS
<1> DEFINE Missing == {n \in Nat : n \notin S}
<1>1. Missing \subseteq Nat /\ Missing # {}
  OBVIOUS
<1>2. PICK x \in Missing : \A y \in Missing : ~(<<y, x>> \in OpToRel(<, Nat))
  BY <1>1, NatLessThanWellFounded, WFMin
<1>3. x \in Nat /\ x \notin S /\ x # 0
  BY <1>2
<1>4. x - 1 \in Nat /\ x - 1 < x /\ (x - 1) + 1 = x
  BY <1>3
<1>5. x - 1 \in Missing
  BY <1>3, <1>4
<1>6. <<x - 1, x>> \in OpToRel(<, Nat)
  BY <1>3, <1>4 DEF OpToRel
<1> QED
  BY <1>2, <1>5, <1>6

\* A recursion over 0..N has a solution, ...
LEMMA RecursionHasFunction ==
    ASSUME NEW S, NEW a \in S, NEW N \in Nat, NEW step \in [1..N -> [S -> S]]
    PROVE  \E f \in [0..N -> S] : f[0] = a /\ \A n \in 1..N : f[n] = step[n][f[n - 1]]
<1> DEFINE Solves(f, k) == f \in [0..k -> S] /\ f[0] = a
                           /\ \A n \in 1..k : f[n] = step[n][f[n - 1]]
           Upto == {k \in Nat : k <= N => \E f : Solves(f, k)}
<1>1. 0 \in Upto
  <2>1. Solves([n \in 0..0 |-> a], 0)
    OBVIOUS
  <2> QED
    BY <2>1
<1>2. ASSUME NEW k \in Nat, k \in Upto PROVE k + 1 \in Upto
  <2> SUFFICES ASSUME k + 1 <= N PROVE \E f : Solves(f, k + 1)
    OBVIOUS
  <2>1. PICK f : Solves(f, k)
    BY <1>2
  <2> DEFINE g == [n \in 0..(k + 1) |-> IF n = k + 1 THEN step[n][f[k]] ELSE f[n]]
  <2>2. k \in 0..k /\ f[k] \in S /\ k + 1 \in 1..N
    BY <2>1
  <2>3. step[k + 1][f[k]] \in S
    BY <2>2
  <2>4. g \in [0..(k + 1) -> S] /\ g[0] = a
    BY <2>1, <2>3
  <2>5. ASSUME NEW n \in 1..(k + 1) PROVE g[n] = step[n][g[n - 1]]
    <3>1. n - 1 \in 0..k /\ g[n - 1] = f[n - 1]
      OBVIOUS
    <3>2. CASE n = k + 1
      BY <3>1, <3>2
    <3>3. CASE n # k + 1
      <4>1. n \in 1..k /\ g[n] = f[n]
        BY <3>3
      <4> QED
        BY <2>1, <3>1, <4>1
    <3> QED
      BY <3>2, <3>3
  <2> QED
    BY <2>4, <2>5
<1> HIDE DEF Solves
<1>3. N \in Upto
  <2>1. \A k \in Nat : k \in Upto => k + 1 \in Upto
    BY <1>2
  <2> HIDE DEF Upto
  <2> QED
    BY <1>1, <2>1, NaturalsAreAll
<1> QED
  BY <1>3 DEF Solves

\* ... and solutions that begin alike go on alike.
GoOnAlike(f, g, N) == \A n \in 1..N : f[n - 1] = g[n - 1] => f[n] = g[n]
Alike(f, g, N) == \A n \in 0..N : f[n] = g[n]

LEMMA RecursionsAgree ==
    ASSUME NEW N \in Nat, NEW f, NEW g, f[0] = g[0], GoOnAlike(f, g, N)
    PROVE  Alike(f, g, N)
<1> USE DEF GoOnAlike, Alike
<1> DEFINE Upto == {n \in Nat : n <= N => f[n] = g[n]}
<1>1. 0 \in Upto
  OBVIOUS
<1>2. ASSUME NEW n \in Nat, n \in Upto PROVE n + 1 \in Upto
  <2> SUFFICES ASSUME n + 1 <= N PROVE f[n + 1] = g[n + 1]
    OBVIOUS
  <2>1. f[n] = g[n] /\ n + 1 \in 1..N /\ (n + 1) - 1 = n
    BY <1>2
  <2> QED
    BY <2>1
<1>3. \A n \in Nat : n \in Upto
  <2> HIDE DEF Upto
  <2> QED
    BY <1>1, <1>2, NaturalsAreAll
<1> QED
  BY <1>3

-----------------------------------------------------------------------------
(***************************************************************************)
(* What is read out of a log.                                              *)
(***************************************************************************)

LEMMA FreshAndClosed == FreshTrace \in Trace /\ Closed \in Open
BY DEF FreshTrace, Trace, Closed, Open, None

\* The events that move the summary of a log, field by field.
LEMMA AdvanceFields ==
    ASSUME NEW trace \in Trace, NEW event \in Event, NEW next, next = Advance(trace, event)
    PROVE  /\ next \in Trace
           /\ next.openTurn = IF event.type = "turn/start" THEN event.turn
                              ELSE IF event.type = "turn/end" THEN None ELSE trace.openTurn
           /\ next.openStep = IF event.type = "step/start" THEN event.step
                              ELSE IF event.type = "step/end" THEN None ELSE trace.openStep
           /\ next.nextTurn = IF event.type = "turn/end" THEN trace.nextTurn + 1
                              ELSE trace.nextTurn
           /\ next.nextStep = IF event.type = "turn/start" THEN 1
                              ELSE IF event.type = "step/end" THEN trace.nextStep + 1
                              ELSE trace.nextStep
           /\ next.pendingCalls =
                IF event.type = "step/end" THEN {}
                ELSE IF event.type = "tool/call" THEN trace.pendingCalls \cup event.calls
                ELSE IF event.type = "tool/result" THEN trace.pendingCalls \ event.calls
                ELSE trace.pendingCalls
<1>1. event.turn \in Nat /\ event.step \in Nat /\ event.calls \subseteq Calls
  BY DEF Event
<1>2. PICK j, k \in Nat : j = trace.nextTurn + 1 /\ k = trace.nextStep + 1
  BY DEF Trace
<1>3. CASE event.type = "turn/start"
  <2>1. next = [trace EXCEPT !.openTurn = event.turn, !.nextStep = 1]
    BY <1>3 DEF Advance
  <2>2. next = [openTurn |-> event.turn, openStep |-> trace.openStep, nextTurn |-> trace.nextTurn,
               nextStep |-> 1, pendingCalls |-> trace.pendingCalls]
    BY <2>1 DEF Trace
  <2> QED
    BY <1>1, <1>3, <2>2 DEF Trace
<1>4. CASE event.type = "turn/end"
  <2>1. next = [trace EXCEPT !.openTurn = 0, !.nextTurn = j]
    BY <1>2, <1>4 DEF Advance, None
  <2>2. next = [openTurn |-> 0, openStep |-> trace.openStep, nextTurn |-> j,
               nextStep |-> trace.nextStep, pendingCalls |-> trace.pendingCalls]
    BY <2>1 DEF Trace
  <2> QED
    BY <1>2, <1>4, <2>2 DEF Trace, None
<1>5. CASE event.type = "step/start"
  <2>1. next = [trace EXCEPT !.openStep = event.step]
    BY <1>5 DEF Advance
  <2> QED
    BY <1>1, <1>5, <2>1 DEF Trace
<1>6. CASE event.type = "step/end"
  <2>1. next = [trace EXCEPT !.openStep = 0, !.nextStep = k, !.pendingCalls = {}]
    BY <1>2, <1>6 DEF Advance, None
  <2>2. next = [openTurn |-> trace.openTurn, openStep |-> 0, nextTurn |-> trace.nextTurn,
               nextStep |-> k, pendingCalls |-> {}]
    BY <2>1 DEF Trace
  <2> QED
    BY <1>2, <1>6, <2>2 DEF Trace, None
<1>7. CASE event.type \in {"tool/call", "tool/result"}
  <2>1. next = [trace EXCEPT !.pendingCalls =
                  IF event.type = "tool/call" THEN @ \cup event.calls ELSE @ \ event.calls]
    BY <1>7 DEF Advance
  <2> QED
    BY <1>1, <1>7, <2>1 DEF Trace
<1>8. CASE event.type \notin {"turn/start", "turn/end", "step/start", "step/end",
                              "tool/call", "tool/result"}
  <2>1. next = trace
    BY <1>8 DEF Advance
  <2> QED
    BY <1>8, <2>1
<1> QED
  BY <1>3, <1>4, <1>5, <1>6, <1>7, <1>8

LEMMA AppendedTyped ==
    ASSUME NEW trace \in Trace, NEW event \in Event
    PROVE  Appended(trace, event) \in Trace
<1>1. Broken \in Trace
  BY DEF Broken, FreshTrace, Trace, None
<1> QED
  BY <1>1, AdvanceFields DEF Appended

\* What the repair reads, field by field.
LEMMA ScanFields ==
    ASSUME NEW open \in Open, NEW event \in Event, NEW next, next = Scan(open, event),
           NEW turnEvent, turnEvent = (event.type \in {"turn/start", "turn/end"})
    PROVE  /\ next \in Open
           /\ next.turn = IF event.type = "turn/start" THEN event.turn
                          ELSE IF event.type = "turn/end" THEN None ELSE open.turn
           /\ next.step = IF event.type = "step/start" THEN event.step
                          ELSE IF turnEvent \/ event.type = "step/end" THEN None ELSE open.step
           /\ next.pending =
                IF turnEvent \/ event.type = "step/end" THEN {}
                ELSE IF event.type = "assistant/message" THEN open.pending \cup event.calls
                ELSE IF event.type = "tool/result" THEN open.pending \ event.calls
                ELSE open.pending
           /\ next.recorded =
                IF turnEvent \/ event.type = "step/end" THEN {}
                ELSE IF event.type = "tool/call"
                     THEN open.recorded \cup (event.calls \cap open.pending)
                ELSE open.recorded
<1> USE DEF Open, Event, Closed, None
<1>1. CASE event.type \in {"turn/start", "turn/end", "step/end"}
  BY <1>1 DEF Scan
<1>2. CASE event.type \in {"step/start", "assistant/message"}
  BY <1>2 DEF Scan, UponMessage
<1>3. CASE event.type \in {"tool/call", "tool/result"}
  BY <1>3 DEF Scan, UponRecord, UponResult
<1>4. CASE event.type \notin {"turn/start", "turn/end", "step/start", "step/end",
                              "assistant/message", "tool/call", "tool/result"}
  BY <1>4 DEF Scan
<1> QED
  BY <1>1, <1>2, <1>3, <1>4

LEMMA TracesUnfold ==
    ASSUME NEW events \in Seq(Event)
    PROVE  /\ TracesOf(events) \in [0..Len(events) -> Trace]
           /\ TracesOf(events)[0] = FreshTrace
           /\ \A n \in 1..Len(events) :
                 TracesOf(events)[n] = Appended(TracesOf(events)[n - 1], events[n])
<1> DEFINE N == Len(events)
           IsTrace(f) == f = [n \in 0..N |-> IF n = 0 THEN FreshTrace
                                             ELSE Appended(f[n - 1], events[n])]
           step == [n \in 1..N |-> [trace \in Trace |-> Appended(trace, events[n])]]
<1>1. N \in Nat /\ \A n \in 1..N : events[n] \in Event
  OBVIOUS
<1>2. step \in [1..N -> [Trace -> Trace]]
  BY <1>1, AppendedTyped
<1>3. PICK f \in [0..N -> Trace] :
        f[0] = FreshTrace /\ \A n \in 1..N : f[n] = step[n][f[n - 1]]
  <2>1. N \in Nat /\ FreshTrace \in Trace
    BY <1>1, FreshAndClosed
  <2> HIDE DEF step, N
  <2> QED
    BY <1>2, <2>1, RecursionHasFunction
<1>4. ASSUME NEW n \in 1..N PROVE f[n] = Appended(f[n - 1], events[n])
  <2>1. n - 1 \in 0..N
    BY <1>1
  <2>2. f[n - 1] \in Trace
    BY <2>1
  <2> QED
    BY <1>3, <2>2
<1>5. IsTrace(f)
  <2>1. f = [n \in 0..N |-> f[n]]
    OBVIOUS
  <2>2. \A n \in 0..N : f[n] = IF n = 0 THEN FreshTrace ELSE Appended(f[n - 1], events[n])
    BY <1>1, <1>3, <1>4
  <2> QED
    BY <2>1, <2>2
<1> DEFINE T == TracesOf(events)
<1>6. IsTrace(T)
  <2>1. T = CHOOSE g : IsTrace(g)
    BY DEF TracesOf
  <2> HIDE DEF T, IsTrace
  <2> QED
    BY <1>5, <2>1
<1>7. T[0] = FreshTrace /\ \A n \in 1..N : T[n] = Appended(T[n - 1], events[n])
  <2> HIDE DEF T
  <2> QED
    BY <1>1, <1>6
<1>8. T = f
  <2>1. \A n \in 0..N : T[n] = f[n]
    <3>1. N \in Nat /\ T[0] = f[0]
      BY <1>1, <1>3, <1>7
    <3>2. GoOnAlike(T, f, N)
      <4> HIDE DEF T
      <4> QED
        BY <1>4, <1>7 DEF GoOnAlike
    <3>3. Alike(T, f, N)
      <4> HIDE DEF T, N
      <4> QED
        BY <3>1, <3>2, RecursionsAgree
    <3> QED
      BY <3>3 DEF Alike
  <2>2. T = [n \in 0..N |-> T[n]]
    <3> HIDE DEF T
    <3> QED
      BY <1>6
  <2> HIDE DEF T
  <2> QED
    BY <2>1, <2>2
<1> QED
  BY <1>7, <1>8

LEMMA OpensUnfold ==
    ASSUME NEW events \in Seq(Event)
    PROVE  /\ OpensOf(events) \in [0..Len(events) -> Open]
           /\ OpensOf(events)[0] = Closed
           /\ \A n \in 1..Len(events) :
                 OpensOf(events)[n] = Scan(OpensOf(events)[n - 1], events[n])
<1> DEFINE N == Len(events)
           IsOpening(f) == f = [n \in 0..N |-> IF n = 0 THEN Closed
                                             ELSE Scan(f[n - 1], events[n])]
           step == [n \in 1..N |-> [open \in Open |-> Scan(open, events[n])]]
<1>1. N \in Nat /\ \A n \in 1..N : events[n] \in Event
  OBVIOUS
<1>2. step \in [1..N -> [Open -> Open]]
  BY <1>1, ScanFields
<1>3. PICK f \in [0..N -> Open] :
        f[0] = Closed /\ \A n \in 1..N : f[n] = step[n][f[n - 1]]
  <2>1. N \in Nat /\ Closed \in Open
    BY <1>1, FreshAndClosed
  <2> HIDE DEF step, N
  <2> QED
    BY <1>2, <2>1, RecursionHasFunction
<1>4. ASSUME NEW n \in 1..N PROVE f[n] = Scan(f[n - 1], events[n])
  <2>1. n - 1 \in 0..N
    BY <1>1
  <2>2. f[n - 1] \in Open
    BY <2>1
  <2> QED
    BY <1>3, <2>2
<1>5. IsOpening(f)
  <2>1. f = [n \in 0..N |-> f[n]]
    OBVIOUS
  <2>2. \A n \in 0..N : f[n] = IF n = 0 THEN Closed ELSE Scan(f[n - 1], events[n])
    BY <1>1, <1>3, <1>4
  <2> QED
    BY <2>1, <2>2
<1> DEFINE T == OpensOf(events)
<1>6. IsOpening(T)
  <2>1. T = CHOOSE g : IsOpening(g)
    BY DEF OpensOf
  <2> HIDE DEF T, IsOpening
  <2> QED
    BY <1>5, <2>1
<1>7. T[0] = Closed /\ \A n \in 1..N : T[n] = Scan(T[n - 1], events[n])
  <2> HIDE DEF T
  <2> QED
    BY <1>1, <1>6
<1>8. T = f
  <2>1. \A n \in 0..N : T[n] = f[n]
    <3>1. N \in Nat /\ T[0] = f[0]
      BY <1>1, <1>3, <1>7
    <3>2. GoOnAlike(T, f, N)
      <4> HIDE DEF T
      <4> QED
        BY <1>4, <1>7 DEF GoOnAlike
    <3>3. Alike(T, f, N)
      <4> HIDE DEF T, N
      <4> QED
        BY <3>1, <3>2, RecursionsAgree
    <3> QED
      BY <3>3 DEF Alike
  <2>2. T = [n \in 0..N |-> T[n]]
    <3> HIDE DEF T
    <3> QED
      BY <1>6
  <2> HIDE DEF T
  <2> QED
    BY <2>1, <2>2
<1> QED
  BY <1>7, <1>8

\* Logs that begin alike are read alike.
LEMMA ReadingsAgree ==
    ASSUME NEW one \in Seq(Event), NEW two \in Seq(Event), NEW n \in Nat,
           n <= Len(one), n <= Len(two), \A i \in 1..n : one[i] = two[i]
    PROVE  \A k \in 0..n : /\ TracesOf(one)[k] = TracesOf(two)[k]
                           /\ OpensOf(one)[k] = OpensOf(two)[k]
<1>1. 1..n \subseteq 1..Len(one) /\ 1..n \subseteq 1..Len(two)
  OBVIOUS
<1>2. TracesOf(one)[0] = TracesOf(two)[0] /\ OpensOf(one)[0] = OpensOf(two)[0]
  BY TracesUnfold, OpensUnfold
<1>3. GoOnAlike(TracesOf(one), TracesOf(two), n)
  BY <1>1, TracesUnfold DEF GoOnAlike
<1>4. GoOnAlike(OpensOf(one), OpensOf(two), n)
  BY <1>1, OpensUnfold DEF GoOnAlike
<1>5. Alike(TracesOf(one), TracesOf(two), n) /\ Alike(OpensOf(one), OpensOf(two), n)
  BY <1>2, <1>3, <1>4, RecursionsAgree
<1> QED
  BY <1>5 DEF Alike

\* A beginning of a sound log is sound.
LEMMA BeginningIsSound ==
    ASSUME NEW events \in Seq(Event), NEW m, NEW bodies, Sound(events, m, bodies),
           NEW k \in 0..Len(events)
    PROVE  /\ SubSeq(events, 1, k) \in Seq(Event)
           /\ Len(SubSeq(events, 1, k)) = k
           /\ \A i \in 1..k : SubSeq(events, 1, k)[i] = events[i]
           /\ Sound(SubSeq(events, 1, k), m, bodies)
<1> DEFINE short == SubSeq(events, 1, k)
<1>1. short \in Seq(Event) /\ Len(short) = k /\ \A i \in 1..k : short[i] = events[i]
  BY SubSeqProperties
<1> HIDE DEF short
<1>2. \A n \in 0..k : /\ TracesOf(short)[n] = TracesOf(events)[n]
                      /\ OpensOf(short)[n] = OpensOf(events)[n]
  BY <1>1, ReadingsAgree
<1>3. ASSUME NEW n \in 0..k
      PROVE  /\ Matched(TracesOf(short)[n], OpensOf(short)[n])
             /\ Noticed(short, n, OpensOf(short)[n], m)
  <2>1. /\ Matched(TracesOf(events)[n], OpensOf(events)[n])
        /\ Noticed(events, n, OpensOf(events)[n], m)
    BY DEF Sound
  <2>2. \A i \in 1..n : short[i] = events[i]
    BY <1>1
  <2>3. \A type, c : Named(short, n, type, c) <=> Named(events, n, type, c)
    BY <2>2 DEF Named
  <2>4. ASSUME NEW i \in 1..n, short[i].type = "assistant/message",
               \A j \in (i + 1)..n : short[j].type # "step/end"
        PROVE  /\ OpensOf(events)[n].step # None
               /\ \A c \in short[i].calls :
                     c \in OpensOf(events)[n].pending \/ Named(short, n, "tool/result", c)
    <3>1. events[i].type = "assistant/message" /\ events[i].calls = short[i].calls
      BY <2>2, <2>4
    <3>2. \A j \in (i + 1)..n : events[j].type # "step/end"
      BY <2>2, <2>4
    <3> QED
      BY <2>1, <2>3, <3>1, <3>2 DEF Noticed
  <2> QED
    BY <1>2, <2>1, <2>3, <2>4 DEF Noticed
<1>4. \A i \in 1..k : Truthful(short[i], m, bodies)
  BY <1>1 DEF Sound
<1> QED
  BY <1>1, <1>3, <1>4 DEF Sound, short

\* An accepted event is read alike by both.
LEMMA MatchedAgain ==
    ASSUME NEW trace, NEW open, Matched(trace, open), NEW event \in Event,
           Accepts(trace, event),
           event.type = "assistant/message" => event.calls \cap open.recorded = {}
    PROVE  Matched(Appended(trace, event), Scan(open, event))
<1> DEFINE then == Appended(trace, event)
           next == Scan(open, event)
<1>1. then = Advance(trace, event) /\ trace \in Trace /\ open \in Open
  BY DEF Appended, Matched
<1>2. then = Advance(trace, event) /\ next = Scan(open, event)
  BY <1>1
<1> HIDE DEF then, next
<1> DEFINE type == event.type
           turnEvent == type \in {"turn/start", "turn/end"}
<1>3. /\ then \in Trace
      /\ then.openTurn = IF type = "turn/start" THEN event.turn
                         ELSE IF type = "turn/end" THEN None ELSE trace.openTurn
      /\ then.openStep = IF type = "step/start" THEN event.step
                         ELSE IF type = "step/end" THEN None ELSE trace.openStep
      /\ then.nextTurn = IF type = "turn/end" THEN trace.nextTurn + 1 ELSE trace.nextTurn
      /\ then.nextStep = IF type = "turn/start" THEN 1
                         ELSE IF type = "step/end" THEN trace.nextStep + 1
                         ELSE trace.nextStep
      /\ then.pendingCalls = IF type = "step/end" THEN {}
                             ELSE IF type = "tool/call" THEN trace.pendingCalls \cup event.calls
                             ELSE IF type = "tool/result" THEN trace.pendingCalls \ event.calls
                             ELSE trace.pendingCalls
  <2>1. then = Advance(trace, event) /\ trace \in Trace
    BY <1>1, <1>2
  <2>2. /\ then \in Trace
        /\ then.openTurn = IF type = "turn/start" THEN event.turn
                           ELSE IF type = "turn/end" THEN None ELSE trace.openTurn
        /\ then.openStep = IF type = "step/start" THEN event.step
                           ELSE IF type = "step/end" THEN None ELSE trace.openStep
    BY <2>1, AdvanceFields
  <2>3. /\ then.nextTurn = IF type = "turn/end" THEN trace.nextTurn + 1 ELSE trace.nextTurn
        /\ then.nextStep = IF type = "turn/start" THEN 1
                           ELSE IF type = "step/end" THEN trace.nextStep + 1
                           ELSE trace.nextStep
    BY <2>1, AdvanceFields
  <2>4. then.pendingCalls = IF type = "step/end" THEN {}
                            ELSE IF type = "tool/call" THEN trace.pendingCalls \cup event.calls
                            ELSE IF type = "tool/result" THEN trace.pendingCalls \ event.calls
                            ELSE trace.pendingCalls
    BY <2>1, AdvanceFields
  <2> QED
    BY <2>2, <2>3, <2>4
<1>4. /\ next \in Open
      /\ next.turn = IF type = "turn/start" THEN event.turn
                     ELSE IF type = "turn/end" THEN None ELSE open.turn
      /\ next.step = IF type = "step/start" THEN event.step
                     ELSE IF turnEvent \/ type = "step/end" THEN None ELSE open.step
      /\ next.pending = IF turnEvent \/ type = "step/end" THEN {}
                        ELSE IF type = "assistant/message" THEN open.pending \cup event.calls
                        ELSE IF type = "tool/result" THEN open.pending \ event.calls
                        ELSE open.pending
      /\ next.recorded = IF turnEvent \/ type = "step/end" THEN {}
                         ELSE IF type = "tool/call"
                              THEN open.recorded \cup (event.calls \cap open.pending)
                         ELSE open.recorded
  <2>1. next = Scan(open, event) /\ open \in Open
    BY <1>1, <1>2
  <2> QED
    BY <2>1, ScanFields
<1>5. /\ trace.nextTurn \in Nat \ {0} /\ trace.nextStep \in Nat \ {0}
      /\ open.turn = trace.openTurn /\ open.step = trace.openStep
      /\ trace.openTurn = None => trace.openStep = None
      /\ trace.openStep = None => trace.pendingCalls = {} /\ open.pending = {}
      /\ open.pending \cap open.recorded \subseteq trace.pendingCalls
  BY DEF Matched, Trace
<1>6. then.nextTurn # 0 /\ then.nextStep # 0
  BY <1>3, <1>5
<1>7. next.turn = then.openTurn /\ next.step = then.openStep
  BY <1>3, <1>4, <1>5 DEF Accepts
<1>8. then.openTurn = None => then.openStep = None
  BY <1>3, <1>5 DEF Accepts, None
<1>9. then.openStep = None => then.pendingCalls = {} /\ next.pending = {}
  BY <1>3, <1>4, <1>5 DEF Accepts, InOpenStep, None
<1>10. next.pending \cap next.recorded \subseteq then.pendingCalls
  BY <1>3, <1>4, <1>5
<1> QED
  BY <1>3, <1>4, <1>6, <1>7, <1>8, <1>9, <1>10 DEF Matched, then, next

\* More calls may have been made, and bodies may have run that no event denies.
LEMMA StillSound ==
    ASSUME NEW events \in Seq(Event), NEW m \in Nat, NEW more \in Nat, m <= more,
           NEW bodies, NEW others, Sound(events, m, bodies),
           \A i \in 1..Len(events) : events[i].notStarted => events[i].calls \cap others = {}
    PROVE  Sound(events, more, others)
<1>1. 1..m \subseteq 1..more
  OBVIOUS
<1>2. ASSUME NEW n \in 0..Len(events) PROVE Noticed(events, n, OpensOf(events)[n], more)
  <2>1. Noticed(events, n, OpensOf(events)[n], m)
    BY DEF Sound
  <2> QED
    BY <1>1, <2>1 DEF Noticed
<1> QED
  BY <1>1, <1>2 DEF Sound, Truthful

\* A sound log stays sound when an accepted, truthful event is appended, of new calls if it
\* is a message.
LEMMA SoundAgain ==
    ASSUME NEW events \in Seq(Event), NEW m \in Nat, NEW more \in Nat, m <= more,
           NEW bodies, Sound(events, m, bodies),
           NEW event \in Event, Truthful(event, more, bodies),
           Accepts(TraceOf(events), event),
           event.type = "assistant/message" => event.calls \cap 1..m = {}
    PROVE  /\ Append(events, event) \in Seq(Event)
           /\ Sound(Append(events, event), more, bodies)
           /\ TraceOf(Append(events, event)) = Advance(TraceOf(events), event)
           /\ OpenAtEnd(Append(events, event)) = Scan(OpenAtEnd(events), event)
<1> DEFINE N == Len(events)
           longer == Append(events, event)
           trace == TracesOf(events)[N]
           open == OpensOf(events)[N]
           then == TracesOf(longer)[N + 1]
           next == OpensOf(longer)[N + 1]
<1>1. /\ N \in Nat /\ longer \in Seq(Event) /\ Len(longer) = N + 1
      /\ \A i \in 1..N : longer[i] = events[i]
      /\ longer[N + 1] = event
  OBVIOUS
<1>2. \A n \in 0..N : /\ TracesOf(longer)[n] = TracesOf(events)[n]
                      /\ OpensOf(longer)[n] = OpensOf(events)[n]
  <2> HIDE DEF longer, N
  <2>1. N = Len(events)
    BY DEF N
  <2> QED
    BY <1>1, <2>1, ReadingsAgree
<1>3. then = Appended(trace, event) /\ next = Scan(open, event)
  <2>1. then = Appended(TracesOf(longer)[N], event) /\ next = Scan(OpensOf(longer)[N], event)
    <3> HIDE DEF longer
    <3>1. N + 1 \in 1..Len(longer) /\ (N + 1) - 1 = N
      BY <1>1
    <3> QED
      BY <1>1, <3>1, TracesUnfold, OpensUnfold
  <2> QED
    BY <1>1, <1>2, <2>1
<1>4. Matched(trace, open) /\ Noticed(events, N, open, m)
  BY <1>1 DEF Sound
<1>5. trace = TraceOf(events) /\ open = OpenAtEnd(events)
  BY DEF TraceOf, OpenAtEnd
<1>6. TraceOf(longer) = then /\ OpenAtEnd(longer) = next
  BY <1>1 DEF TraceOf, OpenAtEnd
<1> HIDE DEF N, longer, trace, open, then, next
<1>7. then = Advance(trace, event)
  BY <1>3, <1>5 DEF Appended
<1>8. 1..m \subseteq 1..more /\ event.calls \subseteq 1..more
  BY DEF Truthful
<1>9. Matched(then, next)
  <2>1. event.type = "assistant/message" => event.calls \cap open.recorded = {}
    BY <1>4 DEF Noticed
  <2> QED
    BY <1>3, <1>4, <1>5, <2>1, MatchedAgain
<1> DEFINE type == event.type
           turnEvent == type \in {"turn/start", "turn/end"}
<1>10. /\ next.step = IF type = "step/start" THEN event.step
                      ELSE IF turnEvent \/ type = "step/end" THEN None ELSE open.step
       /\ next.pending = IF turnEvent \/ type = "step/end" THEN {}
                         ELSE IF type = "assistant/message" THEN open.pending \cup event.calls
                         ELSE IF type = "tool/result" THEN open.pending \ event.calls
                         ELSE open.pending
       /\ next.recorded = IF turnEvent \/ type = "step/end" THEN {}
                          ELSE IF type = "tool/call"
                               THEN open.recorded \cup (event.calls \cap open.pending)
                          ELSE open.recorded
  <2>1. open \in Open /\ next = Scan(open, event)
    BY <1>3, <1>4 DEF Matched
  <2> QED
    BY <2>1, ScanFields
<1>11. \A t, c : Named(longer, N + 1, t, c)
                   <=> Named(events, N, t, c) \/ (type = t /\ c \in event.calls)
  <2>1. 1..(N + 1) = 1..N \cup {N + 1}
    BY <1>1
  <2> QED
    BY <1>1, <2>1 DEF Named
<1>12. Noticed(longer, N + 1, next, more)
  <2>1. next.pending \cup next.recorded \subseteq 1..more
    BY <1>4, <1>8, <1>10 DEF Noticed
  <2>2. ASSUME NEW c \in next.pending, Named(longer, N + 1, "tool/call", c)
        PROVE  c \in next.recorded
    <3>1. CASE type = "assistant/message" /\ c \in event.calls
      <4>1. PICK i \in 1..N : events[i].type = "tool/call" /\ c \in events[i].calls
        BY <1>11, <2>2, <3>1 DEF Named
      <4>2. events[i].calls \subseteq 1..m
        BY <4>1 DEF Sound, Truthful, N
      <4> QED
        BY <3>1, <4>1, <4>2
    <3>2. CASE ~(type = "assistant/message" /\ c \in event.calls)
      <4>1. c \in open.pending /\ ~turnEvent /\ type # "step/end"
        BY <1>10, <2>2, <3>2
      <4>2. CASE type = "tool/call" /\ c \in event.calls
        BY <1>10, <4>1, <4>2
      <4>3. CASE ~(type = "tool/call" /\ c \in event.calls)
        <5>1. c \in open.recorded
          BY <1>4, <1>11, <2>2, <4>1, <4>3 DEF Noticed
        <5> QED
          BY <1>10, <4>1, <5>1
      <4> QED
        BY <4>2, <4>3
    <3> QED
      BY <3>1, <3>2
  <2>3. ASSUME NEW i \in 1..(N + 1), longer[i].type = "assistant/message",
               \A j \in (i + 1)..(N + 1) : longer[j].type # "step/end"
        PROVE  /\ next.step # None
               /\ \A c \in longer[i].calls :
                     c \in next.pending \/ Named(longer, N + 1, "tool/result", c)
    <3>1. CASE i = N + 1
      <4>1. type = "assistant/message"
        BY <1>1, <2>3, <3>1
      <4>2. open.step # None
        BY <1>4, <1>5, <4>1 DEF Accepts, InOpenStep, Matched
      <4> QED
        BY <1>1, <1>10, <3>1, <4>1, <4>2
    <3>2. CASE i # N + 1
      <4>1. i \in 1..N /\ N + 1 \in (i + 1)..(N + 1)
        BY <1>1, <3>2
      <4>2. events[i].type = "assistant/message" /\ events[i].calls = longer[i].calls
        BY <1>1, <2>3, <4>1
      <4>3. \A j \in (i + 1)..N : events[j].type # "step/end"
        BY <1>1, <2>3, <4>1
      <4>4. /\ open.step # None
            /\ \A c \in longer[i].calls :
                  c \in open.pending \/ Named(events, N, "tool/result", c)
        BY <1>4, <4>1, <4>2, <4>3 DEF Noticed
      <4>5. type # "step/end"
        BY <1>1, <2>3, <4>1
      <4>6. ~turnEvent /\ type # "step/start"
        BY <1>4, <1>5, <4>4 DEF Accepts, Matched
      <4> QED
        BY <1>10, <1>11, <4>4, <4>5, <4>6
    <3> QED
      BY <3>1, <3>2
  <2> QED
    BY <2>1, <2>2, <2>3 DEF Noticed
<1>13. ASSUME NEW n \in 0..N
       PROVE  /\ Matched(TracesOf(longer)[n], OpensOf(longer)[n])
              /\ Noticed(longer, n, OpensOf(longer)[n], more)
  <2>1. /\ Matched(TracesOf(events)[n], OpensOf(events)[n])
        /\ Noticed(events, n, OpensOf(events)[n], m)
    BY DEF Sound, N
  <2>2. \A i \in 1..n : longer[i] = events[i]
    BY <1>1
  <2>3. \A t, c : Named(longer, n, t, c) <=> Named(events, n, t, c)
    BY <2>2 DEF Named
  <2>4. ASSUME NEW i \in 1..n, longer[i].type = "assistant/message",
               \A j \in (i + 1)..n : longer[j].type # "step/end"
        PROVE  /\ OpensOf(events)[n].step # None
               /\ \A c \in longer[i].calls :
                     c \in OpensOf(events)[n].pending \/ Named(longer, n, "tool/result", c)
    <3>1. events[i].type = "assistant/message" /\ events[i].calls = longer[i].calls
      BY <2>2, <2>4
    <3>2. \A j \in (i + 1)..n : events[j].type # "step/end"
      BY <2>2, <2>4
    <3> QED
      BY <2>1, <2>3, <3>1, <3>2 DEF Noticed
  <2> QED
    BY <1>2, <1>8, <2>1, <2>3, <2>4 DEF Noticed
<1>14. Sound(longer, more, bodies)
  <2>1. 0..(N + 1) = 0..N \cup {N + 1} /\ 1..(N + 1) = 1..N \cup {N + 1}
    BY <1>1
  <2>2. \A n \in 0..(N + 1) : /\ Matched(TracesOf(longer)[n], OpensOf(longer)[n])
                              /\ Noticed(longer, n, OpensOf(longer)[n], more)
    BY <1>9, <1>12, <1>13, <2>1 DEF then, next
  <2>3. \A i \in 1..(N + 1) : Truthful(longer[i], more, bodies)
    BY <1>1, <1>8, <2>1 DEF Sound, Truthful, N
  <2> QED
    BY <1>1, <2>2, <2>3 DEF Sound
<1> QED
  BY <1>1, <1>3, <1>5, <1>6, <1>7, <1>14 DEF longer

-----------------------------------------------------------------------------
(***************************************************************************)
(* Calls in order.                                                         *)
(***************************************************************************)

Rank(C, c) == Cardinality({d \in C : d <= c})

LEMMA CallsAreFinite == Calls \subseteq Nat \ {0} /\ IsFiniteSet(Calls)
<1>1. Cardinality(Calls) \in Nat /\ Calls = 1..Cardinality(Calls)
  BY CrashRecoveryAssumption
<1> DEFINE N == Cardinality(Calls)
<1>2. IsFiniteSet(1..N)
  <2> HIDE DEF N
  <2>1. N \in Nat
    BY <1>1 DEF N
  <2> QED
    BY <2>1, FS_Interval
<1> QED
  BY <1>1, <1>2

LEMMA RanksCount ==
    ASSUME NEW C \in SUBSET Calls, NEW c \in C
    PROVE  /\ IsFiniteSet(C) /\ Cardinality(C) \in Nat
           /\ Rank(C, c) \in 1..Cardinality(C)
           /\ \A d \in C : c < d => Rank(C, c) < Rank(C, d)
<1>1. IsFiniteSet(C) /\ Cardinality(C) \in Nat /\ C \subseteq Nat
  BY CallsAreFinite, FS_Subset, FS_CardinalityType
<1>2. ASSUME NEW d \in C
      PROVE  /\ IsFiniteSet({e \in C : e <= d}) /\ Rank(C, d) \in Nat
             /\ Rank(C, d) <= Cardinality(C)
  <2>1. {e \in C : e <= d} \in SUBSET C
    OBVIOUS
  <2> QED
    BY <1>1, <2>1, FS_Subset, FS_CardinalityType DEF Rank
<1>3. Rank(C, c) # 0
  <2>1. c \in {e \in C : e <= c}
    BY <1>1
  <2> QED
    BY <1>2, <2>1, FS_EmptySet DEF Rank
<1>4. ASSUME NEW d \in C, c < d PROVE Rank(C, c) < Rank(C, d)
  <2> DEFINE low == {e \in C : e <= c}
             high == {e \in C : e <= d}
  <2>1. IsFiniteSet(low) /\ IsFiniteSet(high)
    BY <1>2
  <2>2. d \notin low /\ low \cup {d} \in SUBSET high
    <3>1. c \in Nat /\ d \in Nat
      BY <1>1
    <3>2. d \notin low /\ d \in high
      BY <1>4, <3>1
    <3>3. ASSUME NEW e \in low PROVE e \in high
      <4>1. e \in C /\ e \in Nat /\ e <= c
        BY <1>1
      <4> QED
        BY <1>4, <3>1, <4>1
    <3> QED
      BY <3>2, <3>3
  <2>3. Cardinality(low \cup {d}) = Cardinality(low) + 1
    <3> HIDE DEF low
    <3> QED
      BY <2>1, <2>2, FS_AddElement
  <2>4. Cardinality(low \cup {d}) <= Cardinality(high)
    <3> HIDE DEF low, high
    <3> QED
      BY <2>1, <2>2, FS_Subset
  <2>5. Cardinality(low) = Rank(C, c) /\ Cardinality(high) = Rank(C, d)
    BY DEF Rank
  <2>6. Rank(C, c) \in Nat /\ Rank(C, d) \in Nat
    BY <1>2
  <2> HIDE DEF low, high
  <2> QED
    BY <2>3, <2>4, <2>5, <2>6
<1>5. Rank(C, c) \in 1..Cardinality(C)
  <2>1. Rank(C, c) \in Nat /\ Rank(C, c) <= Cardinality(C)
    BY <1>2
  <2> QED
    BY <1>1, <1>3, <2>1
<1> QED
  BY <1>1, <1>4, <1>5

LEMMA SameRankSameCall ==
    ASSUME NEW C \in SUBSET Calls, NEW c \in C, NEW d \in C, Rank(C, c) = Rank(C, d)
    PROVE  c = d
<1>1. c \in Nat /\ d \in Nat
  BY CallsAreFinite
<1>2. /\ Rank(C, c) \in Nat
      /\ c < d => Rank(C, c) < Rank(C, d)
      /\ d < c => Rank(C, d) < Rank(C, c)
  BY RanksCount
<1> QED
  BY <1>1, <1>2

\* InOrder lists every call of the set once, at its rank.
LEMMA InOrderLists ==
    ASSUME NEW C \in SUBSET Calls
    PROVE  /\ IsFiniteSet(C) /\ Cardinality(C) \in Nat
           /\ InOrder(C) \in [1..Cardinality(C) -> C]
           /\ \A i \in 1..Cardinality(C) : Rank(C, InOrder(C)[i]) = i
           /\ \A c \in C : Rank(C, c) \in 1..Cardinality(C) /\ InOrder(C)[Rank(C, c)] = c
<1> DEFINE N == Cardinality(C)
<1>1. IsFiniteSet(C) /\ N \in Nat
  BY CallsAreFinite, FS_Subset, FS_CardinalityType
<1> DEFINE rank == [c \in C |-> Rank(C, c)]
<1>2. rank \in Injection(C, 1..N)
  <2>1. rank \in [C -> 1..N]
    BY RanksCount
  <2>2. \A c, d \in C : rank[c] = rank[d] => c = d
    BY SameRankSameCall
  <2> QED
    BY <2>1, <2>2 DEF Injection, IsInjective
<1>3. IsFiniteSet(1..N) /\ Cardinality(1..N) = N
  <2> HIDE DEF N
  <2> QED
    BY <1>1, FS_Interval
<1>4. rank \in Surjection(C, 1..N)
  <2> HIDE DEF rank
  <2> QED
    BY <1>2, <1>3, FS_Injection
<1>5. \A i \in 1..N : \E c \in C : Rank(C, c) = i
  BY <1>4 DEF Surjection
<1>6. InOrder(C) = [i \in 1..N |-> CHOOSE c \in C : Rank(C, c) = i]
  BY DEF InOrder, Rank
<1>7. \A i \in 1..N : InOrder(C)[i] \in C /\ Rank(C, InOrder(C)[i]) = i
  BY <1>5, <1>6
<1>8. ASSUME NEW c \in C PROVE Rank(C, c) \in 1..N /\ InOrder(C)[Rank(C, c)] = c
  <2>1. Rank(C, c) \in 1..N
    BY RanksCount
  <2> QED
    BY <1>7, <2>1, SameRankSameCall
<1> QED
  BY <1>1, <1>6, <1>7, <1>8

FirstOf(C) == InOrder(C)[1]

\* What is left without the first.
LEMMA InOrderWithoutFirst ==
    ASSUME NEW C \in SUBSET Calls, C # {}
    PROVE  /\ FirstOf(C) \in C /\ Cardinality(C) \in Nat \ {0}
           /\ Cardinality(C \ {FirstOf(C)}) = Cardinality(C) - 1
           /\ \A i \in 1..(Cardinality(C) - 1) :
                 InOrder(C \ {FirstOf(C)})[i] = InOrder(C)[i + 1]
<1> DEFINE N == Cardinality(C)
           first == FirstOf(C)
           rest == C \ {first}
<1> USE DEF FirstOf
<1>1. /\ IsFiniteSet(C) /\ N \in Nat \ {0} /\ C \subseteq Nat
      /\ InOrder(C) \in [1..N -> C]
      /\ \A i \in 1..N : Rank(C, InOrder(C)[i]) = i
  BY InOrderLists, CallsAreFinite, FS_EmptySet
<1>2. first \in C /\ Rank(C, first) = 1 /\ rest \in SUBSET Calls
  <2>1. 1 \in 1..N
    BY <1>1
  <2> HIDE DEF N
  <2> QED
    BY <1>1, <2>1
<1>3. Cardinality(rest) = N - 1
  <2>1. Cardinality(C \ {first}) = IF first \in C THEN Cardinality(C) - 1 ELSE Cardinality(C)
    BY <1>1, FS_RemoveElement
  <2> QED
    BY <1>2, <2>1
<1>4. ASSUME NEW c \in C PROVE first <= c
  <2>1. c < first => Rank(C, c) < Rank(C, first)
    BY <1>2, RanksCount
  <2>2. Rank(C, c) \in 1..N
    BY RanksCount
  <2>3. first \in Nat /\ c \in Nat
    BY <1>1, <1>2
  <2>4. ~(Rank(C, c) < 1)
    <3> HIDE DEF N
    <3> QED
      BY <1>1, <2>2
  <2> HIDE DEF first, N
  <2> QED
    BY <1>2, <2>1, <2>3, <2>4
<1>5. ASSUME NEW c \in rest PROVE Rank(C, c) = Rank(rest, c) + 1
  <2> DEFINE high == {d \in C : d <= c}
             low == {d \in rest : d <= c}
  <2>1. IsFiniteSet(low)
    <3>1. low \in SUBSET C
      OBVIOUS
    <3> HIDE DEF low
    <3> QED
      BY <1>1, <3>1, FS_Subset
  <2>2. high = low \cup {first} /\ first \notin low
    BY <1>2, <1>4
  <2>3. Cardinality(high) = Cardinality(low) + 1
    <3> HIDE DEF high, low
    <3> QED
      BY <2>1, <2>2, FS_AddElement
  <2> QED
    BY <2>3 DEF Rank
<1>6. ASSUME NEW i \in 1..(N - 1) PROVE InOrder(rest)[i] = InOrder(C)[i + 1]
  <2>1. /\ InOrder(rest)[i] \in rest /\ Rank(rest, InOrder(rest)[i]) = i
    BY <1>2, <1>3, InOrderLists
  <2>2. Rank(C, InOrder(rest)[i]) = i + 1
    BY <1>5, <2>1
  <2>3. i + 1 \in 1..N
    BY <1>1
  <2>4. Rank(C, InOrder(C)[i + 1]) = i + 1 /\ InOrder(C)[i + 1] \in C
    BY <1>1, <2>3
  <2> QED
    BY <2>1, <2>2, <2>4, SameRankSameCall
<1> QED
  BY <1>1, <1>2, <1>3, <1>6

LEMMA NoneInOrder == Cardinality({}) = 0 /\ InOrder({}) = <<>>
<1>1. Cardinality({}) = 0
  BY FS_EmptySet
<1> QED
  BY <1>1 DEF InOrder

-----------------------------------------------------------------------------
(***************************************************************************)
(* The closers of a log, one at a time.                                    *)
(***************************************************************************)

LEMMA EventsTyped ==
    ASSUME NEW type \in EventTypes, NEW turn \in Nat, NEW step \in Nat
    PROVE  /\ Boundary(type, turn, step) \in Event
           /\ Boundary(type, turn, step) = [type |-> type, turn |-> turn, step |-> step,
                                            calls |-> {}, notStarted |-> FALSE]
           /\ \A c \in Calls, b \in BOOLEAN : ToolEvent(type, turn, step, c, b) \in Event
BY DEF Boundary, ToolEvent, Event

CloserResult(open, c) ==
    ToolEvent("tool/result", open.turn, open.step, c, c \notin open.recorded)
Results(open) ==
    [i \in 1..Cardinality(open.pending) |-> CloserResult(open, InOrder(open.pending)[i])]
Ends(open) ==
    (IF open.step = None THEN <<>> ELSE <<Boundary("step/end", open.turn, open.step)>>)
    \o <<Boundary("turn/end", open.turn, None)>>
ClosersFor(open) == IF open.turn = None THEN <<>> ELSE Results(open) \o Ends(open)

LEMMA ResultsTyped ==
    ASSUME NEW open \in Open
    PROVE  /\ open.pending \in SUBSET Calls /\ Cardinality(open.pending) \in Nat
           /\ Results(open) \in Seq(Event) /\ Len(Results(open)) = Cardinality(open.pending)
           /\ \A c \in open.pending : CloserResult(open, c) \in Event
<1>1. open.pending \in SUBSET Calls /\ open.turn \in Nat /\ open.step \in Nat
  BY DEF Open
<1>2. /\ Cardinality(open.pending) \in Nat
      /\ InOrder(open.pending) \in [1..Cardinality(open.pending) -> open.pending]
  BY <1>1, InOrderLists
<1>3. "tool/result" \in EventTypes
  BY DEF EventTypes
<1>4. \A c \in open.pending : CloserResult(open, c) \in Event
  BY <1>1, <1>3, EventsTyped DEF CloserResult
<1>5. \A i \in 1..Cardinality(open.pending) : InOrder(open.pending)[i] \in open.pending
  BY <1>2
<1>6. Results(open) \in [1..Cardinality(open.pending) -> Event]
  BY <1>4, <1>5 DEF Results
<1> QED
  BY <1>1, <1>2, <1>4, <1>6

LEMMA EndsTyped ==
    ASSUME NEW open \in Open
    PROVE  /\ Ends(open) \in Seq(Event)
           /\ Boundary("turn/end", open.turn, None) \in Event
           /\ Boundary("step/end", open.turn, open.step) \in Event
           /\ open.step = None => Ends(open) = <<Boundary("turn/end", open.turn, None)>>
           /\ open.step # None => Ends(open) = <<Boundary("step/end", open.turn, open.step)>>
                                               \o <<Boundary("turn/end", open.turn, None)>>
<1>1. open.turn \in Nat /\ open.step \in Nat /\ None \in Nat
  BY DEF Open, None
<1>2. {"turn/end", "step/end"} \subseteq EventTypes
  BY DEF EventTypes
<1>3. /\ Boundary("turn/end", open.turn, None) \in Event
      /\ Boundary("step/end", open.turn, open.step) \in Event
  BY <1>1, <1>2, EventsTyped
<1>4. /\ <<Boundary("turn/end", open.turn, None)>> \in Seq(Event)
      /\ <<Boundary("step/end", open.turn, open.step)>> \in Seq(Event)
  BY <1>3
<1>5. <<>> \o <<Boundary("turn/end", open.turn, None)>> = <<Boundary("turn/end", open.turn, None)>>
  BY <1>4, ConcatEmptySeq
<1>6. <<Boundary("step/end", open.turn, open.step)>> \o <<Boundary("turn/end", open.turn, None)>>
        \in Seq(Event)
  BY <1>4, ConcatProperties
<1> QED
  BY <1>3, <1>4, <1>5, <1>6 DEF Ends

LEMMA ClosersAre ==
    ASSUME NEW events \in Seq(Event)
    PROVE  /\ OpenAtEnd(events) \in Open
           /\ Closers(events) = ClosersFor(OpenAtEnd(events))
           /\ Closers(events) \in Seq(Event)
<1> DEFINE open == OpenAtEnd(events)
           stepEnd == IF open.step = None THEN <<>>
                      ELSE <<Boundary("step/end", open.turn, open.step)>>
           turnEnd == <<Boundary("turn/end", open.turn, None)>>
<1>1. open \in Open
  BY OpensUnfold DEF OpenAtEnd
<1>2. stepEnd \in Seq(Event) /\ turnEnd \in Seq(Event) /\ Ends(open) = stepEnd \o turnEnd
  <2>1. /\ Boundary("turn/end", open.turn, None) \in Event
        /\ Boundary("step/end", open.turn, open.step) \in Event
    BY <1>1, EndsTyped
  <2>2. Ends(open) = stepEnd \o turnEnd
    BY DEF Ends
  <2> HIDE DEF open
  <2> QED
    BY <2>1, <2>2
<1>3. Results(open) \in Seq(Event) /\ Ends(open) \in Seq(Event)
  BY <1>1, ResultsTyped, EndsTyped
<1>4. DOMAIN InOrder(open.pending) = 1..Cardinality(open.pending)
  BY DEF InOrder
<1>5. Closers(events) = IF open.turn = None THEN <<>> ELSE Results(open) \o stepEnd \o turnEnd
  BY <1>4 DEF Closers, Results, CloserResult
<1> HIDE DEF open, stepEnd, turnEnd
<1>6. Results(open) \o stepEnd \o turnEnd = Results(open) \o Ends(open)
  BY <1>2, <1>3, ConcatAssociative
<1>7. ClosersFor(open) \in Seq(Event)
  BY <1>3, ConcatProperties DEF ClosersFor
<1> QED
  BY <1>1, <1>5, <1>6, <1>7 DEF ClosersFor, open

\* What the next closer is: a result, or the end of the step, or that of the turn.
IsCloser(open, event) ==
    \/ \E c \in open.pending : event = CloserResult(open, c)
    \/ open.pending = {} /\ open.step # None /\ event = Boundary("step/end", open.turn, open.step)
    \/ open.pending = {} /\ open.step = None /\ event = Boundary("turn/end", open.turn, None)

\* After the first closer is appended, the others are still to come.
LEMMA FirstCloser ==
    ASSUME NEW open \in Open, open.turn # None
    PROVE  \E event \in Event :
              /\ IsCloser(open, event)
              /\ ClosersFor(Scan(open, event)) \in Seq(Event)
              /\ ClosersFor(open) = <<event>> \o ClosersFor(Scan(open, event))
<1>1. /\ Results(open) \in Seq(Event) /\ Ends(open) \in Seq(Event)
      /\ ClosersFor(open) = Results(open) \o Ends(open)
  BY ResultsTyped, EndsTyped DEF ClosersFor
<1>2. CASE open.pending # {}
  <2> DEFINE first == FirstOf(open.pending)
             event == CloserResult(open, first)
             next == [open EXCEPT !.pending = @ \ {first}]
             N == Cardinality(open.pending)
  <2>1. /\ open.pending \in SUBSET Calls
        /\ \A c \in open.pending : CloserResult(open, c) \in Event
        /\ Len(Results(open)) = N
    BY ResultsTyped
  <2>2. /\ first \in open.pending /\ N \in Nat \ {0}
        /\ Cardinality(open.pending \ {first}) = N - 1
        /\ \A i \in 1..(N - 1) :
              InOrder(open.pending \ {first})[i] = InOrder(open.pending)[i + 1]
    BY <1>2, <2>1, InOrderWithoutFirst
  <2>3. event \in Event /\ IsCloser(open, event)
    BY <2>1, <2>2 DEF IsCloser
  <2>4. Scan(open, event) = next
    BY DEF Scan, CloserResult, ToolEvent, UponResult
  <2>5. /\ next \in Open /\ next.turn = open.turn /\ next.step = open.step
        /\ next.recorded = open.recorded /\ next.pending = open.pending \ {first}
    BY DEF Open
  <2>6. /\ Results(next) \in Seq(Event) /\ Len(Results(next)) = N - 1
        /\ Ends(next) = Ends(open)
    <3>1. Results(next) \in Seq(Event) /\ Len(Results(next)) = Cardinality(next.pending)
      <4> HIDE DEF next
      <4> QED
        BY <2>5, ResultsTyped
    <3>2. Ends(next) = Ends(open)
      BY <2>5 DEF Ends
    <3> QED
      BY <2>2, <2>5, <3>1, <3>2
  <2>7. ASSUME NEW i \in 1..(N - 1) PROVE Results(next)[i] = Results(open)[i + 1]
    <3>1. /\ Results(next)[i] = CloserResult(next, InOrder(open.pending)[i + 1])
      BY <2>2, <2>5 DEF Results
    <3>2. Results(open)[i + 1] = CloserResult(open, InOrder(open.pending)[i + 1])
      <4>1. i + 1 \in 1..N
        BY <2>2
      <4> QED
        BY <4>1 DEF Results
    <3>3. \A c : CloserResult(next, c) = CloserResult(open, c)
      BY <2>5 DEF CloserResult
    <3> QED
      BY <3>1, <3>2, <3>3
  <2>8. Results(open)[1] = event
    <3>1. 1 \in 1..N
      BY <2>2
    <3> QED
      BY <3>1 DEF Results, FirstOf
  <2>9. Results(open) = <<event>> \o Results(next)
    <3> HIDE DEF event, next, N
    <3>1. <<event>> \o Results(next) \in Seq(Event) /\ Len(<<event>> \o Results(next)) = N
      BY <2>2, <2>3, <2>6
    <3>2. \A i \in 1..N : Results(open)[i] = (<<event>> \o Results(next))[i]
      <4> TAKE i \in 1..N
      <4>1. CASE i = 1
        BY <2>2, <2>3, <2>6, <2>8, <4>1
      <4>2. CASE i # 1
        <5>1. i - 1 \in 1..(N - 1) /\ (i - 1) + 1 = i
          BY <2>2, <4>2
        <5>2. Results(next)[i - 1] = Results(open)[i]
          BY <2>7, <5>1
        <5> QED
          BY <2>2, <2>3, <2>6, <5>1, <5>2
      <4> QED
        BY <4>1, <4>2
    <3> QED
      BY <1>1, <2>1, <3>1, <3>2, SeqEqual DEF N
  <2> HIDE DEF event, next, N
  <2>10. ClosersFor(next) = Results(next) \o Ends(open)
    BY <2>5, <2>6 DEF ClosersFor
  <2>11. ClosersFor(next) \in Seq(Event) /\ <<event>> \in Seq(Event)
    BY <1>1, <2>3, <2>6, <2>10, ConcatProperties
  <2>12. ClosersFor(open) = <<event>> \o ClosersFor(next)
    BY <1>1, <2>6, <2>9, <2>10, <2>11, ConcatAssociative
  <2> QED
    BY <2>3, <2>4, <2>11, <2>12
<1>3. ASSUME NEW other \in Open, other.pending = {} PROVE Results(other) = <<>>
  <2>1. Results(other) \in Seq(Event) /\ Len(Results(other)) = 0
    BY <1>3, ResultsTyped, NoneInOrder
  <2> QED
    BY <2>1
<1> DEFINE turnEnd == Boundary("turn/end", open.turn, None)
           stepEnd == Boundary("step/end", open.turn, open.step)
<1>4. turnEnd \in Event /\ stepEnd \in Event /\ turnEnd.type = "turn/end" /\ stepEnd.type = "step/end"
  BY EndsTyped DEF Boundary
<1>5. CASE open.pending = {} /\ open.step # None
  <2> DEFINE next == [Closed EXCEPT !.turn = open.turn]
  <2>1. ClosersFor(open) = <<stepEnd>> \o <<turnEnd>>
    <3>1. Ends(open) = <<stepEnd>> \o <<turnEnd>>
      BY <1>5, EndsTyped
    <3> QED
      BY <1>1, <1>3, <1>5, <3>1, ConcatEmptySeq
  <2>2. Scan(open, stepEnd) = next
    BY <1>4 DEF Scan
  <2>3. next \in Open /\ next.pending = {} /\ next.step = None /\ next.turn = open.turn
    BY DEF Open, Closed, None
  <2>4. ClosersFor(next) = <<turnEnd>>
    <3>1. Ends(next) = <<turnEnd>> /\ Ends(next) \in Seq(Event) /\ Results(next) = <<>>
      BY <1>3, <2>3, EndsTyped
    <3> QED
      BY <2>3, <3>1, ConcatEmptySeq DEF ClosersFor
  <2>5. IsCloser(open, stepEnd) /\ <<turnEnd>> \in Seq(Event)
    BY <1>4, <1>5 DEF IsCloser
  <2> HIDE DEF next, turnEnd, stepEnd
  <2> QED
    BY <1>4, <2>1, <2>2, <2>4, <2>5
<1>6. CASE open.pending = {} /\ open.step = None
  <2>1. ClosersFor(open) = <<turnEnd>>
    BY <1>1, <1>3, <1>6, EndsTyped, ConcatEmptySeq
  <2>2. Scan(open, turnEnd) = Closed
    BY <1>4 DEF Scan
  <2>3. ClosersFor(Closed) = <<>>
    BY DEF ClosersFor, Closed, None
  <2>4. IsCloser(open, turnEnd) /\ <<turnEnd>> \in Seq(Event) /\ <<>> \in Seq(Event)
    BY <1>4, <1>6 DEF IsCloser
  <2>5. <<turnEnd>> \o <<>> = <<turnEnd>>
    BY <2>4, ConcatEmptySeq
  <2> HIDE DEF turnEnd
  <2> QED
    BY <1>4, <2>1, <2>2, <2>3, <2>4, <2>5
<1> QED
  BY <1>2, <1>5, <1>6

LEMMA ReadAgain ==
    ASSUME NEW events \in Seq(Event), NEW event \in Event
    PROVE  /\ TraceOf(Append(events, event)) = Appended(TraceOf(events), event)
           /\ OpenAtEnd(Append(events, event)) = Scan(OpenAtEnd(events), event)
<1> DEFINE N == Len(events)
           longer == Append(events, event)
<1>1. /\ N \in Nat /\ longer \in Seq(Event) /\ Len(longer) = N + 1
      /\ \A i \in 1..N : longer[i] = events[i]
      /\ longer[N + 1] = event
  OBVIOUS
<1>2. TracesOf(longer)[N] = TracesOf(events)[N] /\ OpensOf(longer)[N] = OpensOf(events)[N]
  <2>1. N = Len(events) /\ N \in 0..N
    BY <1>1
  <2> HIDE DEF longer, N
  <2> QED
    BY <1>1, <2>1, ReadingsAgree
<1>3. /\ TracesOf(longer)[N + 1] = Appended(TracesOf(longer)[N], event)
      /\ OpensOf(longer)[N + 1] = Scan(OpensOf(longer)[N], event)
  <2> HIDE DEF longer
  <2>1. N + 1 \in 1..Len(longer) /\ (N + 1) - 1 = N
    BY <1>1
  <2> QED
    BY <1>1, <2>1, TracesUnfold, OpensUnfold
<1> QED
  BY <1>1, <1>2, <1>3 DEF TraceOf, OpenAtEnd

LEMMA CloserAppended ==
    ASSUME NEW events \in Seq(Event), Closers(events) # <<>>
    PROVE  /\ OpenAtEnd(events).turn # None
           /\ Closers(events)[1] \in Event
           /\ IsCloser(OpenAtEnd(events), Closers(events)[1])
           /\ Closers(Append(events, Closers(events)[1]))
                = SubSeq(Closers(events), 2, Len(Closers(events)))
<1> DEFINE open == OpenAtEnd(events)
<1>1. open \in Open /\ Closers(events) = ClosersFor(open) /\ Closers(events) \in Seq(Event)
  BY ClosersAre
<1>2. open.turn # None
  BY <1>1 DEF ClosersFor
<1>3. PICK event \in Event :
        /\ IsCloser(open, event)
        /\ ClosersFor(Scan(open, event)) \in Seq(Event)
        /\ ClosersFor(open) = <<event>> \o ClosersFor(Scan(open, event))
  <2> HIDE DEF open
  <2> QED
    BY <1>1, <1>2, FirstCloser
<1>4. /\ Closers(events)[1] = event
      /\ SubSeq(Closers(events), 2, Len(Closers(events))) = ClosersFor(Scan(open, event))
  <2> DEFINE rest == ClosersFor(Scan(open, event))
  <2>1. rest \in Seq(Event) /\ Closers(events) = <<event>> \o rest
    BY <1>1, <1>3
  <2> HIDE DEF rest
  <2>2. /\ Len(Closers(events)) = Len(rest) + 1 /\ Closers(events)[1] = event
        /\ \A i \in 1..Len(rest) : Closers(events)[i + 1] = rest[i]
    BY <2>1
  <2> DEFINE tail == SubSeq(Closers(events), 2, Len(Closers(events)))
  <2>3. /\ tail \in Seq(Event) /\ Len(tail) = Len(rest)
        /\ \A i \in 1..Len(rest) : tail[i] = Closers(events)[i + 1]
    BY <1>1, <2>1, <2>2
  <2> HIDE DEF tail
  <2>4. tail = rest
    BY <2>1, <2>2, <2>3, SeqEqual
  <2> QED
    BY <2>2, <2>4 DEF tail, rest
<1>5. Closers(Append(events, event)) = ClosersFor(Scan(open, event))
  <2>1. Append(events, event) \in Seq(Event)
    OBVIOUS
  <2> QED
    BY <2>1, ClosersAre, ReadAgain
<1> QED
  BY <1>2, <1>3, <1>4, <1>5

\* A log with the first k events of an extension.
Extended(events, more, k) == events \o SubSeq(more, 1, k)

LEMMA ExtendedSteps ==
    ASSUME NEW events \in Seq(Event), NEW more \in Seq(Event)
    PROVE  /\ Extended(events, more, 0) = events
           /\ Extended(events, more, Len(more)) = events \o more
           /\ \A k \in 0..Len(more) :
                 /\ Extended(events, more, k) \in Seq(Event)
                 /\ Len(Extended(events, more, k)) = Len(events) + k
                 /\ \A i \in 1..Len(events) : Extended(events, more, k)[i] = events[i]
           /\ \A k \in 0..(Len(more) - 1) :
                 Extended(events, more, k + 1) = Append(Extended(events, more, k), more[k + 1])
<1>1. ASSUME NEW k \in 0..Len(more)
      PROVE  /\ SubSeq(more, 1, k) \in Seq(Event) /\ Len(SubSeq(more, 1, k)) = k
             /\ Extended(events, more, k) \in Seq(Event)
             /\ Len(Extended(events, more, k)) = Len(events) + k
             /\ \A i \in 1..Len(events) : Extended(events, more, k)[i] = events[i]
  <2> DEFINE some == SubSeq(more, 1, k)
  <2>1. some \in Seq(Event) /\ Len(some) = k
    OBVIOUS
  <2> HIDE DEF some
  <2>2. /\ events \o some \in Seq(Event) /\ Len(events \o some) = Len(events) + k
        /\ \A i \in 1..Len(events) : (events \o some)[i] = events[i]
    BY <2>1
  <2> QED
    BY <2>1, <2>2 DEF some, Extended
<1>2. SubSeq(more, 1, 0) = <<>> /\ SubSeq(more, 1, Len(more)) = more
  BY SubSeqEmpty, SubSeqFull
<1>3. events \o <<>> = events
  BY ConcatEmptySeq
<1>4. ASSUME NEW k \in 0..(Len(more) - 1)
      PROVE  Extended(events, more, k + 1) = Append(Extended(events, more, k), more[k + 1])
  <2>1. /\ k \in 0..Len(more) /\ k + 1 \in 1..Len(more) /\ 1 \in 1..Len(more)
        /\ k + 1 \in 0..Len(more) /\ more[k + 1] \in Event
    OBVIOUS
  <2>2. SubSeq(more, 1, k + 1) = SubSeq(more, 1, k) \o <<more[k + 1]>>
    <3>1. k + 1 \in 1..Len(more) /\ (k + 1) - 1 = k
      BY <2>1
    <3> QED
      BY <2>1, <3>1, SubSeqRecursiveSecond
  <2>3. /\ SubSeq(more, 1, k) \in Seq(Event) /\ <<more[k + 1]>> \in Seq(Event)
        /\ Extended(events, more, k) \in Seq(Event)
    BY <1>1, <2>1
  <2>4. Extended(events, more, k + 1) = Extended(events, more, k) \o <<more[k + 1]>>
    BY <2>2, <2>3, ConcatAssociative DEF Extended
  <2> QED
    BY <2>1, <2>3, <2>4, AppendIsConcat
<1> QED
  BY <1>1, <1>2, <1>3, <1>4 DEF Extended

\* However many closers a repair appended, the rest are what closes the log it left.
LEMMA ClosersGoOn ==
    ASSUME NEW events \in Seq(Event)
    PROVE  \A k \in 0..Len(Closers(events)) :
              Closers(Extended(events, Closers(events), k))
                = SubSeq(Closers(events), k + 1, Len(Closers(events)))
<1> DEFINE all == Closers(events)
           N == Len(all)
           log_(k) == Extended(events, all, k)
           Upto == {k \in Nat : k <= N => Closers(log_(k)) = SubSeq(all, k + 1, N)}
<1>1. all \in Seq(Event) /\ N \in Nat
  BY ClosersAre
<1> HIDE DEF all
<1>2. 0 \in Upto
  <2>1. log_(0) = events
    BY <1>1, ExtendedSteps
  <2>2. SubSeq(all, 0 + 1, N) = all
    BY <1>1, SubSeqFull
  <2> QED
    BY <2>1, <2>2 DEF all
<1>3. ASSUME NEW k \in Nat, k \in Upto PROVE k + 1 \in Upto
  <2> SUFFICES ASSUME k + 1 <= N
               PROVE  Closers(log_(k + 1)) = SubSeq(all, (k + 1) + 1, N)
    OBVIOUS
  <2> DEFINE rest == SubSeq(all, k + 1, N)
  <2>1. Closers(log_(k)) = rest
    BY <1>3
  <2>2. /\ rest \in Seq(Event) /\ Len(rest) = N - k /\ rest[1] = all[k + 1] /\ rest # <<>>
        /\ SubSeq(rest, 2, Len(rest)) = SubSeq(all, (k + 1) + 1, N)
    <3>1. /\ rest \in Seq(Event) /\ Len(rest) = N - k
          /\ \A i \in 1..(N - k) : rest[i] = all[k + i]
      BY <1>1
    <3>2. Tail(rest) = SubSeq(all, (k + 1) + 1, N)
      BY <1>1, HeadTailOfSubSeq
    <3> HIDE DEF rest, N
    <3>3. rest # <<>> /\ rest[1] = all[k + 1]
      BY <1>1, <3>1
    <3>4. Tail(rest) = SubSeq(rest, 2, Len(rest))
      BY <3>1, <3>3, TailIsSubSeq
    <3> QED
      BY <3>1, <3>2, <3>3, <3>4
  <2>3. k \in 0..(N - 1) /\ k \in 0..N
    BY <1>1
  <2>4. log_(k) \in Seq(Event) /\ log_(k + 1) = Append(log_(k), all[k + 1])
    BY <1>1, <2>3, ExtendedSteps
  <2>5. Closers(Append(log_(k), rest[1])) = SubSeq(rest, 2, Len(rest))
    <3> HIDE DEF log_, rest
    <3> QED
      BY <2>1, <2>2, <2>4, CloserAppended
  <2> QED
    BY <2>2, <2>4, <2>5
<1>4. \A k \in Nat : k \in Upto
  <2> HIDE DEF Upto
  <2> QED
    BY <1>2, <1>3, NaturalsAreAll
<1> QED
  BY <1>1, <1>4 DEF all

\* The next closer of a sound log is accepted, and truthful: a call whose body ran was recorded.
LEMMA CloserAccepted ==
    ASSUME NEW events \in Seq(Event), NEW m \in Nat, NEW bodies, Sound(events, m, bodies),
           \A c \in bodies : Named(events, Len(events), "tool/call", c),
           Closers(events) # <<>>, NEW event, event = Closers(events)[1]
    PROVE  /\ event \in Event /\ event.type # "assistant/message"
           /\ Accepts(TraceOf(events), event)
           /\ Truthful(event, m, bodies)
<1> DEFINE trace == TraceOf(events)
           open == OpenAtEnd(events)
<1>1. open.turn # None /\ event \in Event /\ IsCloser(open, event)
  BY CloserAppended
<1>2. Matched(trace, open) /\ Noticed(events, Len(events), open, m)
  BY DEF Sound, TraceOf, OpenAtEnd
<1> HIDE DEF trace, open
<1>3. CASE \E c \in open.pending : event = CloserResult(open, c)
  <2>1. PICK c \in open.pending : event = CloserResult(open, c)
    BY <1>3
  <2>2. /\ event.type = "tool/result" /\ event.calls = {c}
        /\ event.turn = open.turn /\ event.step = open.step
        /\ event.notStarted = (c \notin open.recorded)
    BY <2>1 DEF CloserResult, ToolEvent
  <2>3. open.step # None
    BY <1>2, <2>1 DEF Matched
  <2>4. InOpenStep(trace, event)
    BY <1>1, <1>2, <2>2, <2>3 DEF InOpenStep, Matched
  <2>5. AnswersCall(trace, event)
    BY <1>2, <2>1, <2>2 DEF AnswersCall, Matched
  <2>6. event.notStarted => c \notin bodies
    BY <1>2, <2>1, <2>2 DEF Noticed
  <2>7. {c} \subseteq 1..m
    BY <1>2, <2>1 DEF Noticed
  <2> QED
    BY <1>1, <2>2, <2>4, <2>5, <2>6, <2>7 DEF Accepts, Truthful, trace
<1>4. CASE open.step # None /\ event = Boundary("step/end", open.turn, open.step)
  <2>1. /\ event.type = "step/end" /\ event.calls = {} /\ event.notStarted = FALSE
        /\ event.turn = open.turn /\ event.step = open.step
    BY <1>4 DEF Boundary
  <2> QED
    BY <1>1, <1>2, <1>4, <2>1 DEF Accepts, InOpenStep, Truthful, Matched, trace
<1>5. CASE open.step = None /\ event = Boundary("turn/end", open.turn, None)
  <2>1. /\ event.type = "turn/end" /\ event.calls = {} /\ event.notStarted = FALSE
        /\ event.turn = open.turn
    BY <1>5 DEF Boundary
  <2> QED
    BY <1>1, <1>2, <1>5, <2>1 DEF Accepts, Truthful, Matched, trace
<1> QED
  BY <1>1, <1>3, <1>4, <1>5 DEF IsCloser

\* A repair leaves a sound log, and so does any part of it.
LEMMA ClosersKeepSound ==
    ASSUME NEW events \in Seq(Event), NEW m \in Nat, NEW bodies, Sound(events, m, bodies),
           \A c \in bodies : Named(events, Len(events), "tool/call", c)
    PROVE  Sound(events \o Closers(events), m, bodies)
<1> DEFINE all == Closers(events)
           N == Len(all)
           log_(k) == Extended(events, all, k)
           Upto == {k \in Nat : k <= N => Sound(log_(k), m, bodies)}
<1>1. all \in Seq(Event) /\ N \in Nat
  BY ClosersAre
<1>2. \A k \in 0..N : Closers(log_(k)) = SubSeq(all, k + 1, N)
  BY ClosersGoOn
<1> HIDE DEF all
<1>3. 0 \in Upto
  <2>1. log_(0) = events
    BY <1>1, ExtendedSteps
  <2> QED
    BY <2>1
<1>4. ASSUME NEW k \in Nat, k \in Upto PROVE k + 1 \in Upto
  <2> SUFFICES ASSUME k + 1 <= N
               PROVE  Sound(log_(k + 1), m, bodies)
    OBVIOUS
  <2> DEFINE rest == SubSeq(all, k + 1, N)
  <2>1. k \in 0..(N - 1) /\ k \in 0..N /\ Sound(log_(k), m, bodies)
    BY <1>1, <1>4
  <2>2. /\ log_(k) \in Seq(Event) /\ log_(k + 1) = Append(log_(k), all[k + 1])
        /\ Len(log_(k)) = Len(events) + k
        /\ \A i \in 1..Len(events) : log_(k)[i] = events[i]
    BY <1>1, <2>1, ExtendedSteps
  <2>3. Closers(log_(k)) = rest /\ rest # <<>> /\ rest[1] = all[k + 1]
    <3>1. Closers(log_(k)) = rest
      BY <1>2, <2>1
    <3>2. Len(rest) = N - k /\ rest[1] = all[k + 1]
      BY <1>1, <2>1
    <3> HIDE DEF rest, N
    <3>3. rest # <<>>
      BY <1>1, <2>1, <3>2
    <3> QED
      BY <3>1, <3>2, <3>3
  <2>4. \A c \in bodies : Named(log_(k), Len(log_(k)), "tool/call", c)
    <3> TAKE c \in bodies
    <3>1. PICK i \in 1..Len(events) : events[i].type = "tool/call" /\ c \in events[i].calls
      BY DEF Named
    <3>2. i \in 1..Len(log_(k)) /\ log_(k)[i] = events[i]
      BY <2>1, <2>2
    <3> QED
      BY <3>1, <3>2 DEF Named
  <2> HIDE DEF log_, rest
  <2>5. /\ all[k + 1] \in Event /\ all[k + 1].type # "assistant/message"
        /\ Accepts(TraceOf(log_(k)), all[k + 1])
        /\ Truthful(all[k + 1], m, bodies)
    BY <2>1, <2>2, <2>3, <2>4, CloserAccepted
  <2>6. m <= m
    OBVIOUS
  <2>7. Sound(Append(log_(k), all[k + 1]), m, bodies)
    BY <2>1, <2>2, <2>5, <2>6, SoundAgain
  <2> QED
    BY <2>2, <2>7
<1>5. \A k \in Nat : k \in Upto
  <2> HIDE DEF Upto
  <2> QED
    BY <1>3, <1>4, NaturalsAreAll
<1>6. Sound(log_(N), m, bodies)
  BY <1>1, <1>5
<1>7. log_(N) = events \o all
  BY <1>1, ExtendedSteps
<1> QED
  BY <1>6, <1>7 DEF all

\* A repair answers what is pending.
LEMMA ClosersAnswer ==
    ASSUME NEW events \in Seq(Event), Closers(events) # <<>>,
           NEW c \in OpenAtEnd(events).pending
    PROVE  \E i \in 1..Len(Closers(events)) : /\ Closers(events)[i].type = "tool/result"
                                              /\ c \in Closers(events)[i].calls
<1> DEFINE open == OpenAtEnd(events)
           i == Rank(open.pending, c)
<1>1. open \in Open /\ Closers(events) = ClosersFor(open)
  BY ClosersAre
<1>2. open.turn # None
  BY <1>1 DEF ClosersFor
<1>3. /\ open.pending \in SUBSET Calls
      /\ Results(open) \in Seq(Event) /\ Len(Results(open)) = Cardinality(open.pending)
      /\ Ends(open) \in Seq(Event)
  BY <1>1, ResultsTyped, EndsTyped
<1>4. i \in 1..Cardinality(open.pending) /\ InOrder(open.pending)[i] = c
  BY <1>3, InOrderLists
<1>5. Results(open)[i] = CloserResult(open, c)
  BY <1>4 DEF Results
<1>6. Closers(events) = Results(open) \o Ends(open)
  BY <1>1, <1>2 DEF ClosersFor
<1> HIDE DEF i, open
<1>7. i \in 1..Len(Closers(events)) /\ Closers(events)[i] = CloserResult(open, c)
  BY <1>3, <1>4, <1>5, <1>6
<1> QED
  BY <1>7 DEF CloserResult, ToolEvent

-----------------------------------------------------------------------------
(***************************************************************************)
(* What an action keeps of the invariant, whatever it appends.             *)
(***************************************************************************)

LEMMA LogIsRead ==
    ASSUME Inv
    PROVE  /\ log \in Seq(Event) /\ Len(log) \in Nat /\ stored \in 0..Len(log)
           /\ made \in Nat /\ 1..made \subseteq Calls
           /\ TraceOf(log) \in Trace /\ TraceOf(log).openTurn = Turn
           /\ TraceOf(log).openStep = Step
           /\ TraceOf(log).nextTurn \in Nat \ {0} /\ TraceOf(log).nextStep \in Nat \ {0}
           /\ Turn \in Nat /\ Step \in Nat
           /\ Turn = None => Step = None
           /\ Step = None => TraceOf(log).pendingCalls = {}
<1>1. log \in Seq(Event) /\ Len(log) \in Nat /\ stored \in 0..Len(log)
  BY DEF Inv, TypeOK
<1>2. made \in Nat /\ 1..made \subseteq Calls
  BY CrashRecoveryAssumption DEF Inv, TypeOK
<1>3. Matched(TraceOf(log), OpenAtEnd(log))
  BY <1>1 DEF Inv, Sound, TraceOf, OpenAtEnd
<1> QED
  BY <1>1, <1>2, <1>3 DEF Matched, Trace, Turn, Step

\* The log was only extended, and more of it may be stored.
Grown == /\ log' \in Seq(Event) /\ Len(log) <= Len(log')
         /\ \A i \in 1..Len(log) : log'[i] = log[i]

LEMMA GrowthKeeps ==
    ASSUME Inv, Grown, stored' \in stored..Len(log'), seen' = seen, ran' = ran,
           made' \in Nat, made <= made'
    PROVE  /\ SeenIsStored' /\ BodiesRecorded'
           /\ \A c \in Calls : tool'[c] = tool[c] /\ target'[c] = target[c] => ToolRecorded(c)'
<1>1. /\ Len(log) \in Nat /\ Len(log') \in Nat /\ stored \in 0..Len(log) /\ made \in Nat
      /\ stored' \in Nat /\ stored <= stored' /\ seen \in Seq(Event)
      /\ target \in [Calls \cup {Driver} -> Nat]
  BY LogIsRead DEF Grown, Inv, TypeOK
<1>2. SeenIsStored'
  <2>1. Len(seen) \in Nat /\ Len(seen) <= stored /\ \A i \in 1..Len(seen) : seen[i] = log[i]
    BY <1>1 DEF Inv, OnRecord, SeenIsStored
  <2>2. \A i \in 1..Len(seen) : i \in 1..Len(log)
    BY <1>1, <2>1
  <2> QED
    BY <1>1, <2>1, <2>2 DEF Grown, SeenIsStored
<1>3. ASSUME NEW n \in 0..Len(log), NEW k \in Nat, n <= k, NEW type, NEW c,
             Named(log, n, type, c)
      PROVE  Named(log', k, type, c)
  <2>1. PICK i \in 1..n : log[i].type = type /\ c \in log[i].calls
    BY <1>3 DEF Named
  <2>2. i \in 1..k /\ i \in 1..Len(log)
    BY <1>1, <1>3
  <2> QED
    BY <2>1, <2>2 DEF Named, Grown
<1>4. BodiesRecorded'
  BY <1>1, <1>3 DEF Inv, OnRecord, BodiesRecorded
<1>5. ASSUME NEW c \in Calls, tool'[c] = tool[c], target'[c] = target[c]
      PROVE  ToolRecorded(c)'
  <2>1. ToolRecorded(c)
    BY DEF Inv, OnRecord
  <2>2. c \in Nat /\ target[c] \in Nat
    BY <1>1, CallsAreFinite
  <2>3. tool[c] = "recorded" => Named(log', Len(log'), "tool/call", c)
    BY <1>1, <1>3, <2>1 DEF ToolRecorded, Grown
  <2>4. tool[c] = "flushing" => target[c] <= Len(log') /\ Named(log', target[c], "tool/call", c)
    BY <1>1, <1>3, <2>1, <2>2 DEF ToolRecorded, Grown
  <2>5. tool[c] # "none" => c <= made'
    BY <1>1, <2>1, <2>2 DEF ToolRecorded
  <2> QED
    BY <1>5, <2>3, <2>4, <2>5 DEF ToolRecorded
<1> QED
  BY <1>2, <1>4, <1>5

\* No new event denies a call, and no call that was made comes back.
LEMMA DenialsStand ==
    ASSUME Inv, Grown, \A i \in (Len(log) + 1)..Len(log') : ~log'[i].notStarted,
           \A c \in Calls : c <= made /\ tool[c] = "none" => tool'[c] = "none"
    PROVE  DeniedAreIdle'
<1> SUFFICES ASSUME NEW i \in 1..Len(log'), log'[i].notStarted, NEW c \in log'[i].calls
             PROVE  tool'[c] = "none"
  BY DEF DeniedAreIdle
<1>1. Len(log) \in Nat /\ Len(log') \in Nat
  BY LogIsRead DEF Grown
<1>2. i \in 1..Len(log)
  BY <1>1
<1>3. log[i].notStarted /\ c \in log[i].calls
  BY <1>2 DEF Grown
<1>4. log[i].calls \subseteq 1..made
  BY <1>2 DEF Inv, Sound, Truthful
<1>5. c \in Calls /\ c <= made
  BY <1>3, <1>4, LogIsRead
<1>6. tool[c] = "none"
  BY <1>2, <1>3 DEF Inv, OnRecord, DeniedAreIdle
<1> QED
  BY <1>5, <1>6

\* One event is appended, of calls that were not made before if it is a message.
LEMMA OneEvent ==
    ASSUME Inv, NEW event \in Event, log' = Append(log, event),
           Accepts(TraceOf(log), event), ~event.notStarted,
           event.calls \subseteq 1..made', made' \in Nat, made <= made',
           event.type = "assistant/message" => event.calls \cap 1..made = {},
           stored' = stored, seen' = seen, ran' = ran
    PROVE  /\ Grown /\ Len(log') = Len(log) + 1 /\ stored' \in 0..Len(log')
           /\ Sound(log', made', ran')
           /\ TraceOf(log') = Advance(TraceOf(log), event) /\ TraceOf(log') \in Trace
           /\ SeenIsStored' /\ BodiesRecorded'
           /\ \A c \in Calls : tool'[c] = tool[c] /\ target'[c] = target[c] => ToolRecorded(c)'
           /\ (\A c \in Calls : c <= made /\ tool[c] = "none" => tool'[c] = "none")
                => DeniedAreIdle'
           /\ \E i \in 1..Len(log') : log'[i] = event
<1>1. /\ log \in Seq(Event) /\ Len(log) \in Nat /\ stored \in 0..Len(log) /\ made \in Nat
      /\ TraceOf(log) \in Trace
  BY LogIsRead
<1>2. /\ log' \in Seq(Event) /\ Len(log') = Len(log) + 1 /\ log'[Len(log) + 1] = event
      /\ \A i \in 1..Len(log) : log'[i] = log[i]
  BY <1>1
<1>3. Grown /\ stored' \in stored..Len(log') /\ stored' \in 0..Len(log')
  BY <1>1, <1>2 DEF Grown
<1>4. Truthful(event, made', ran) /\ Sound(log, made, ran)
  BY DEF Truthful, Inv
<1>5. Sound(log', made', ran) /\ TraceOf(log') = Advance(TraceOf(log), event)
  BY <1>1, <1>4, SoundAgain
<1>6. TraceOf(log') \in Trace
  BY <1>1, <1>5, AdvanceFields
<1>7. \A i \in (Len(log) + 1)..Len(log') : ~log'[i].notStarted
  BY <1>1, <1>2
<1> QED
  BY <1>1, <1>2, <1>3, <1>5, <1>6, <1>7, GrowthKeeps, DenialsStand

-----------------------------------------------------------------------------
(***************************************************************************)
(* The actions keep the invariant: the driver.                             *)
(***************************************************************************)

RecordedStages == {"recorded", "flushing", "running", "settled"}

\* A turn or a step begins or ends.
LEMMA BoundaryAppended ==
    ASSUME Inv, NEW type \in {"turn/start", "turn/end", "step/start", "step/end"},
           NEW turn \in Nat, NEW step \in Nat,
           log' = Append(log, Boundary(type, turn, step)),
           Accepts(TraceOf(log), Boundary(type, turn, step)),
           UNCHANGED <<stored, made, seen, ran>>
    PROVE  /\ log' \in Seq(Event) /\ Len(log') = Len(log) + 1 /\ stored' \in 0..Len(log')
           /\ Sound(log', made', ran')
           /\ Turn' = IF type = "turn/start" THEN turn
                      ELSE IF type = "turn/end" THEN None ELSE Turn
           /\ Step' = IF type = "step/start" THEN step
                      ELSE IF type = "step/end" THEN None ELSE Step
           /\ TraceOf(log').pendingCalls = IF type = "step/end" THEN {}
                                           ELSE TraceOf(log).pendingCalls
           /\ SeenIsStored' /\ BodiesRecorded'
           /\ \A c \in Calls : tool'[c] = tool[c] /\ target'[c] = target[c] => ToolRecorded(c)'
           /\ (\A c \in Calls : c <= made /\ tool[c] = "none" => tool'[c] = "none")
                => DeniedAreIdle'
<1> DEFINE event == Boundary(type, turn, step)
<1>1. event \in Event
  BY EventsTyped DEF EventTypes
<1>2. /\ event.type = type /\ event.turn = turn /\ event.step = step
      /\ event.calls = {} /\ event.notStarted = FALSE
  BY DEF Boundary
<1>3. TraceOf(log) \in Trace /\ made \in Nat /\ made' = made
  BY LogIsRead
<1> HIDE DEF event
<1>4. log' = Append(log, event) /\ Accepts(TraceOf(log), event)
  BY DEF event
<1>5. /\ Grown /\ Len(log') = Len(log) + 1 /\ stored' \in 0..Len(log')
      /\ Sound(log', made', ran')
      /\ TraceOf(log') = Advance(TraceOf(log), event)
      /\ SeenIsStored' /\ BodiesRecorded'
      /\ \A c \in Calls : tool'[c] = tool[c] /\ target'[c] = target[c] => ToolRecorded(c)'
      /\ (\A c \in Calls : c <= made /\ tool[c] = "none" => tool'[c] = "none")
           => DeniedAreIdle'
  BY <1>1, <1>2, <1>3, <1>4, OneEvent
<1>6. /\ TraceOf(log').openTurn = IF type = "turn/start" THEN turn
                                  ELSE IF type = "turn/end" THEN None
                                  ELSE TraceOf(log).openTurn
      /\ TraceOf(log').openStep = IF type = "step/start" THEN step
                                  ELSE IF type = "step/end" THEN None
                                  ELSE TraceOf(log).openStep
      /\ TraceOf(log').pendingCalls = IF type = "step/end" THEN {}
                                      ELSE TraceOf(log).pendingCalls
  <2> DEFINE next == TraceOf(log')
             trace == TraceOf(log)
  <2>1. trace \in Trace /\ next = Advance(trace, event)
    BY <1>3, <1>5
  <2> HIDE DEF next, trace
  <2>2. /\ next.openTurn = IF event.type = "turn/start" THEN event.turn
                           ELSE IF event.type = "turn/end" THEN None ELSE trace.openTurn
        /\ next.openStep = IF event.type = "step/start" THEN event.step
                           ELSE IF event.type = "step/end" THEN None ELSE trace.openStep
        /\ next.pendingCalls =
             IF event.type = "step/end" THEN {}
             ELSE IF event.type = "tool/call" THEN trace.pendingCalls \cup event.calls
             ELSE IF event.type = "tool/result" THEN trace.pendingCalls \ event.calls
             ELSE trace.pendingCalls
    BY <1>1, <2>1, AdvanceFields
  <2>3. next.pendingCalls = IF type = "step/end" THEN {} ELSE trace.pendingCalls
    BY <1>2, <2>2
  <2> QED
    BY <1>2, <2>2, <2>3 DEF next, trace
<1> QED
  BY <1>5, <1>6 DEF Turn, Step, Grown

\* What the driver waits for is no call's.
LEMMA DriverIsNoCall ==
    ASSUME TypeOK
    PROVE  /\ Driver \notin Calls /\ target \in [Calls \cup {Driver} -> Nat]
           /\ \A n \in Nat : /\ [target EXCEPT ![Driver] = n] \in [Calls \cup {Driver} -> Nat]
                             /\ [target EXCEPT ![Driver] = n][Driver] = n
                             /\ \A c \in Calls : [target EXCEPT ![Driver] = n][c] = target[c]
BY CallsAreFinite DEF TypeOK, Driver

LEMMA OpenTurnKeeps == ASSUME Inv, OpenTurn PROVE Inv'
<1> DEFINE n == TraceOf(log).nextTurn
<1>1. /\ at = "idle" /\ log' = Append(log, Boundary("turn/start", n, None))
      /\ at' = "pre-step" /\ target' = [target EXCEPT ![Driver] = Len(log')]
      /\ aborted' = FALSE
      /\ UNCHANGED <<stored, tool, made, seen, ran, crashes>>
  BY DEF OpenTurn, AppendAndFlush, world
<1>2. n \in Nat \ {0} /\ None \in Nat /\ Turn = None /\ Step = None
  BY <1>1, LogIsRead DEF Inv, InPlace, None
<1>3. Accepts(TraceOf(log), Boundary("turn/start", n, None))
  BY <1>2, LogIsRead DEF Accepts, Boundary
<1> HIDE DEF n
<1>4. /\ log' \in Seq(Event) /\ Len(log') = Len(log) + 1 /\ stored' \in 0..Len(log')
      /\ Sound(log', made', ran')
      /\ Turn' = n /\ Step' = Step
      /\ TraceOf(log').pendingCalls = TraceOf(log).pendingCalls
      /\ SeenIsStored' /\ BodiesRecorded'
      /\ \A c \in Calls : tool'[c] = tool[c] /\ target'[c] = target[c] => ToolRecorded(c)'
      /\ DeniedAreIdle'
  BY <1>1, <1>2, <1>3, BoundaryAppended
<1>5. /\ target' \in [Calls \cup {Driver} -> Nat] /\ target'[Driver] = Len(log')
      /\ \A c \in Calls : target'[c] = target[c]
  BY <1>1, <1>4, DriverIsNoCall DEF Inv
<1>6. TypeOK'
  BY <1>1, <1>4, <1>5 DEF Inv, TypeOK, Places
<1>7. InPlace'
  BY <1>1, <1>2, <1>4 DEF Inv, InPlace, InStage, None
<1>8. OnRecord'
  BY <1>1, <1>4, <1>5 DEF OnRecord
<1> QED
  BY <1>4, <1>6, <1>7, <1>8 DEF Inv
\* The log stands as it is.
LEMMA LogStands ==
    ASSUME Inv, UNCHANGED <<log, stored, made, seen, ran>>
    PROVE  /\ log' \in Seq(Event) /\ stored' \in 0..Len(log') /\ Len(log') \in Nat
           /\ Sound(log', made', ran')
           /\ Turn' = Turn /\ Step' = Step /\ TraceOf(log') = TraceOf(log)
           /\ SeenIsStored' /\ BodiesRecorded'
           /\ \A c \in Calls : tool'[c] = tool[c] /\ target'[c] = target[c] => ToolRecorded(c)'
           /\ (\A c \in Calls : c <= made /\ tool[c] = "none" => tool'[c] = "none")
                => DeniedAreIdle'
<1>1. /\ log \in Seq(Event) /\ Len(log) \in Nat /\ stored \in 0..Len(log) /\ made \in Nat
      /\ Sound(log, made, ran)
  BY LogIsRead DEF Inv
<1>2. Grown /\ stored' \in stored..Len(log') /\ made <= made' /\ made' \in Nat
      /\ \A i \in (Len(log) + 1)..Len(log') : ~log'[i].notStarted
  BY <1>1 DEF Grown
<1> QED
  BY <1>1, <1>2, GrowthKeeps, DenialsStand DEF Turn, Step

LEMMA EnterStepKeeps == ASSUME Inv, EnterStep PROVE Inv'
<1> DEFINE n == TraceOf(log).nextStep
           turn == Turn
<1>1. /\ at = "pre-step" /\ log' = Append(log, Boundary("step/start", turn, n))
      /\ at' = "request" /\ target' = [target EXCEPT ![Driver] = Len(log')]
      /\ UNCHANGED <<stored, aborted, tool, made, seen, ran, crashes>>
  BY DEF EnterStep, AppendAndFlush, world
<1>2. n \in Nat \ {0} /\ turn \in Nat /\ turn # None /\ Step = None
      /\ TraceOf(log).openTurn = turn /\ TraceOf(log).openStep = None
  BY <1>1, LogIsRead DEF Inv, InPlace
<1> HIDE DEF turn
<1>3. Accepts(TraceOf(log), Boundary("step/start", turn, n))
  BY <1>2 DEF Accepts, Boundary
<1> HIDE DEF n
<1>4. /\ log' \in Seq(Event) /\ Len(log') = Len(log) + 1 /\ stored' \in 0..Len(log')
      /\ Sound(log', made', ran')
      /\ Turn' = Turn /\ Step' = n
      /\ TraceOf(log').pendingCalls = TraceOf(log).pendingCalls
      /\ SeenIsStored' /\ BodiesRecorded'
      /\ \A c \in Calls : tool'[c] = tool[c] /\ target'[c] = target[c] => ToolRecorded(c)'
      /\ DeniedAreIdle'
  BY <1>1, <1>2, <1>3, BoundaryAppended
<1>5. /\ target' \in [Calls \cup {Driver} -> Nat] /\ target'[Driver] = Len(log')
      /\ \A c \in Calls : target'[c] = target[c]
  BY <1>1, <1>4, DriverIsNoCall DEF Inv
<1>6. TypeOK'
  BY <1>1, <1>4, <1>5 DEF Inv, TypeOK, Places
<1>7. InPlace'
  BY <1>1, <1>2, <1>4 DEF Inv, InPlace, InStage, None, turn
<1>8. OnRecord'
  BY <1>1, <1>4, <1>5 DEF OnRecord
<1> QED
  BY <1>4, <1>6, <1>7, <1>8 DEF Inv

LEMMA SendRequestKeeps == ASSUME Inv, SendRequest PROVE Inv'
<1>1. /\ at = "request" /\ target[Driver] <= stored /\ at' = "streaming" /\ seen' = log
      /\ UNCHANGED <<log, stored, aborted, tool, target, made, ran, crashes>>
  BY DEF SendRequest, Flushed
<1>2. Len(log) <= stored
  BY <1>1 DEF Inv, OnRecord
<1>3. TypeOK'
  BY <1>1 DEF Inv, TypeOK, Places
<1>4. Sound(log', made', ran')
  BY <1>1 DEF Inv
<1>5. InPlace'
  BY <1>1 DEF Inv, InPlace, Turn, Step, InStage
<1>6. SeenIsStored'
  BY <1>1, <1>2, LogIsRead DEF SeenIsStored
<1>7. BodiesRecorded' /\ DeniedAreIdle' /\ \A c \in Calls : ToolRecorded(c)'
  BY <1>1 DEF Inv, OnRecord, BodiesRecorded, DeniedAreIdle, ToolRecorded
<1>8. OnRecord'
  BY <1>1, <1>6, <1>7 DEF OnRecord
<1> QED
  BY <1>3, <1>4, <1>5, <1>8 DEF Inv

LEMMA RetryRequestKeeps == ASSUME Inv, RetryRequest PROVE Inv'
<1>1. /\ at = "streaming" /\ at' = "request"
      /\ target' = [target EXCEPT ![Driver] = Len(log)]
      /\ UNCHANGED <<log, stored, aborted, tool, made, seen, ran, crashes>>
  BY DEF RetryRequest, world
<1>2. /\ log' \in Seq(Event) /\ stored' \in 0..Len(log') /\ Len(log') \in Nat
      /\ Sound(log', made', ran')
      /\ Turn' = Turn /\ Step' = Step /\ TraceOf(log') = TraceOf(log)
      /\ SeenIsStored' /\ BodiesRecorded' /\ DeniedAreIdle'
      /\ \A c \in Calls : tool'[c] = tool[c] /\ target'[c] = target[c] => ToolRecorded(c)'
  BY <1>1, LogStands
<1>3. /\ target' \in [Calls \cup {Driver} -> Nat] /\ target'[Driver] = Len(log')
      /\ \A c \in Calls : target'[c] = target[c]
  BY <1>1, <1>2, DriverIsNoCall DEF Inv
<1>4. TypeOK'
  BY <1>1, <1>2, <1>3 DEF Inv, TypeOK, Places
<1>5. InPlace'
  BY <1>1, <1>2 DEF Inv, InPlace, InStage
<1>6. OnRecord'
  BY <1>1, <1>2, <1>3 DEF OnRecord
<1> QED
  BY <1>2, <1>4, <1>5, <1>6 DEF Inv

LEMMA FailStepKeeps == ASSUME Inv, FailStep PROVE Inv'
<1> DEFINE turn == Turn
           step == Step
<1>1. /\ at \in {"request", "streaming"} /\ at' = "step ended"
      /\ log' = Append(log, Boundary("step/end", turn, step))
      /\ UNCHANGED <<stored, aborted, tool, target, made, seen, ran, crashes>>
  BY DEF FailStep, world
<1>2. /\ turn \in Nat \ {0} /\ step \in Nat \ {0}
      /\ TraceOf(log).openTurn = turn /\ TraceOf(log).openStep = step
  BY <1>1, LogIsRead DEF Inv, InPlace, None
<1> HIDE DEF turn, step
<1>3. Accepts(TraceOf(log), Boundary("step/end", turn, step))
  BY <1>2 DEF Accepts, InOpenStep, Boundary, None
<1>4. /\ log' \in Seq(Event) /\ Len(log') = Len(log) + 1 /\ stored' \in 0..Len(log')
      /\ Sound(log', made', ran')
      /\ Turn' = Turn /\ Step' = None /\ TraceOf(log').pendingCalls = {}
      /\ SeenIsStored' /\ BodiesRecorded' /\ DeniedAreIdle'
      /\ \A c \in Calls : tool'[c] = tool[c] /\ target'[c] = target[c] => ToolRecorded(c)'
  BY <1>1, <1>2, <1>3, BoundaryAppended
<1>5. TypeOK'
  BY <1>1, <1>4 DEF Inv, TypeOK, Places
<1>6. InPlace'
  BY <1>1, <1>2, <1>4 DEF Inv, InPlace, InStage, None, turn
<1>7. OnRecord'
  BY <1>1, <1>4 DEF OnRecord
<1> QED
  BY <1>4, <1>5, <1>6, <1>7 DEF Inv

LEMMA NextStepKeeps == ASSUME Inv, NextStep PROVE Inv'
<1>1. /\ at = "step ended" /\ at' = "pre-step"
      /\ target' = [target EXCEPT ![Driver] = Len(log)]
      /\ UNCHANGED <<log, stored, aborted, tool, made, seen, ran, crashes>>
  BY DEF NextStep, world
<1>2. /\ log' \in Seq(Event) /\ stored' \in 0..Len(log') /\ Len(log') \in Nat
      /\ Sound(log', made', ran')
      /\ Turn' = Turn /\ Step' = Step /\ TraceOf(log') = TraceOf(log)
      /\ SeenIsStored' /\ BodiesRecorded' /\ DeniedAreIdle'
      /\ \A c \in Calls : tool'[c] = tool[c] /\ target'[c] = target[c] => ToolRecorded(c)'
  BY <1>1, LogStands
<1>3. /\ target' \in [Calls \cup {Driver} -> Nat]
      /\ \A c \in Calls : target'[c] = target[c]
  BY <1>1, <1>2, DriverIsNoCall DEF Inv
<1>4. TypeOK'
  BY <1>1, <1>2, <1>3 DEF Inv, TypeOK, Places
<1>5. InPlace'
  BY <1>1, <1>2 DEF Inv, InPlace, InStage
<1>6. OnRecord'
  BY <1>1, <1>2, <1>3 DEF OnRecord
<1> QED
  BY <1>2, <1>4, <1>5, <1>6 DEF Inv

LEMMA EndTurnKeeps == ASSUME Inv, EndTurn PROVE Inv'
<1> DEFINE turn == Turn
<1>1. /\ at \in {"pre-step", "step ended"} /\ at' = "idle"
      /\ log' = Append(log, Boundary("turn/end", turn, None))
      /\ UNCHANGED <<stored, aborted, tool, target, made, seen, ran, crashes>>
  BY DEF EndTurn, world
<1>2. /\ turn \in Nat \ {0} /\ None \in Nat
      /\ TraceOf(log).openTurn = turn /\ TraceOf(log).openStep = None
  BY <1>1, LogIsRead DEF Inv, InPlace, None
<1> HIDE DEF turn
<1>3. Accepts(TraceOf(log), Boundary("turn/end", turn, None))
  BY <1>2 DEF Accepts, Boundary, None
<1>4. /\ log' \in Seq(Event) /\ Len(log') = Len(log) + 1 /\ stored' \in 0..Len(log')
      /\ Sound(log', made', ran')
      /\ Turn' = None /\ TraceOf(log').pendingCalls = TraceOf(log).pendingCalls
      /\ SeenIsStored' /\ BodiesRecorded' /\ DeniedAreIdle'
      /\ \A c \in Calls : tool'[c] = tool[c] /\ target'[c] = target[c] => ToolRecorded(c)'
  BY <1>1, <1>2, <1>3, BoundaryAppended
<1>5. TypeOK'
  BY <1>1, <1>4 DEF Inv, TypeOK, Places
<1>6. InPlace'
  BY <1>1, <1>4 DEF Inv, InPlace, InStage
<1>7. OnRecord'
  BY <1>1, <1>4 DEF OnRecord
<1> QED
  BY <1>4, <1>5, <1>6, <1>7 DEF Inv

LEMMA CancelKeeps == ASSUME Inv, Cancel PROVE Inv'
<1>1. aborted' = TRUE /\ UNCHANGED <<log, stored, at, tool, target, made, seen, ran, crashes>>
  BY DEF Cancel, world
<1>2. TypeOK' /\ Sound(log', made', ran')
  BY <1>1 DEF Inv, TypeOK
<1>3. InPlace'
  BY <1>1 DEF Inv, InPlace, Turn, Step, InStage
<1>4. OnRecord'
  BY <1>1 DEF Inv, OnRecord, SeenIsStored, BodiesRecorded, DeniedAreIdle, ToolRecorded
<1> QED
  BY <1>2, <1>3, <1>4 DEF Inv
-----------------------------------------------------------------------------
(***************************************************************************)
(* The actions keep the invariant: the calls of a step.                    *)
(***************************************************************************)

\* A call of the open step is recorded, or answered.
LEMMA ToolEventAppended ==
    ASSUME Inv, at = "tools", NEW type \in {"tool/call", "tool/result"}, NEW c \in Calls,
           c <= made, log' = Append(log, ToolEvent(type, Turn, Step, c, FALSE)),
           type = "tool/result" => c \in TraceOf(log).pendingCalls,
           UNCHANGED <<stored, made, seen, ran>>
    PROVE  /\ log' \in Seq(Event) /\ Len(log') = Len(log) + 1 /\ stored' \in 0..Len(log')
           /\ Sound(log', made', ran')
           /\ Turn' = Turn /\ Step' = Step
           /\ TraceOf(log').pendingCalls = IF type = "tool/call"
                                           THEN TraceOf(log).pendingCalls \cup {c}
                                           ELSE TraceOf(log).pendingCalls \ {c}
           /\ SeenIsStored' /\ BodiesRecorded'
           /\ \A d \in Calls : tool'[d] = tool[d] /\ target'[d] = target[d] => ToolRecorded(d)'
           /\ (\A d \in Calls : d <= made /\ tool[d] = "none" => tool'[d] = "none")
                => DeniedAreIdle'
           /\ Named(log', Len(log'), type, c)
<1> DEFINE turn == Turn
           step == Step
           event == ToolEvent(type, turn, step, c, FALSE)
<1>1. /\ turn \in Nat \ {0} /\ step \in Nat \ {0} /\ made \in Nat /\ made' = made
      /\ TraceOf(log).openTurn = turn /\ TraceOf(log).openStep = step /\ TraceOf(log) \in Trace
  BY LogIsRead DEF Inv, InPlace, None
<1> HIDE DEF turn, step
<1>2. event \in Event
  BY <1>1, EventsTyped DEF EventTypes
<1>3. /\ event.type = type /\ event.turn = turn /\ event.step = step
      /\ event.calls = {c} /\ event.notStarted = FALSE
  BY DEF ToolEvent
<1>4. log' = Append(log, event)
  BY DEF turn, step
<1> HIDE DEF event
<1>5. Accepts(TraceOf(log), event)
  BY <1>1, <1>3 DEF Accepts, InOpenStep, AnswersCall, None
<1>6. event.calls \subseteq 1..made'
  BY <1>1, <1>3, CallsAreFinite
<1>7. /\ Grown /\ Len(log') = Len(log) + 1 /\ stored' \in 0..Len(log')
      /\ Sound(log', made', ran')
      /\ TraceOf(log') = Advance(TraceOf(log), event)
      /\ SeenIsStored' /\ BodiesRecorded'
      /\ \A d \in Calls : tool'[d] = tool[d] /\ target'[d] = target[d] => ToolRecorded(d)'
      /\ (\A d \in Calls : d <= made /\ tool[d] = "none" => tool'[d] = "none")
           => DeniedAreIdle'
      /\ \E i \in 1..Len(log') : log'[i] = event
  <2>1. /\ ~event.notStarted /\ event.type # "assistant/message"
        /\ made' \in Nat /\ made <= made'
        /\ stored' = stored /\ seen' = seen /\ ran' = ran
    BY <1>1, <1>3
  <2> QED
    BY <1>2, <1>4, <1>5, <1>6, <2>1, OneEvent
<1>8. /\ TraceOf(log').openTurn = TraceOf(log).openTurn
      /\ TraceOf(log').openStep = TraceOf(log).openStep
      /\ TraceOf(log').pendingCalls = IF type = "tool/call"
                                      THEN TraceOf(log).pendingCalls \cup {c}
                                      ELSE TraceOf(log).pendingCalls \ {c}
  <2> DEFINE next == TraceOf(log')
             trace == TraceOf(log)
  <2>1. trace \in Trace /\ next = Advance(trace, event)
    BY <1>1, <1>7
  <2> HIDE DEF next, trace
  <2>2. /\ next.openTurn = IF event.type = "turn/start" THEN event.turn
                           ELSE IF event.type = "turn/end" THEN None ELSE trace.openTurn
        /\ next.openStep = IF event.type = "step/start" THEN event.step
                           ELSE IF event.type = "step/end" THEN None ELSE trace.openStep
        /\ next.pendingCalls =
             IF event.type = "step/end" THEN {}
             ELSE IF event.type = "tool/call" THEN trace.pendingCalls \cup event.calls
             ELSE IF event.type = "tool/result" THEN trace.pendingCalls \ event.calls
             ELSE trace.pendingCalls
    BY <1>2, <2>1, AdvanceFields
  <2>3. next.pendingCalls = IF type = "tool/call" THEN trace.pendingCalls \cup {c}
                            ELSE trace.pendingCalls \ {c}
    BY <1>3, <2>2
  <2> QED
    BY <1>3, <2>2, <2>3 DEF next, trace
<1>9. Named(log', Len(log'), type, c)
  BY <1>3, <1>7 DEF Named
<1> QED
  BY <1>7, <1>8, <1>9 DEF Turn, Step, Grown

LEMMA RecordCallKeeps == ASSUME Inv, NEW c \in Calls, RecordCall(c) PROVE Inv'
<1>1. /\ at = "tools" /\ tool[c] = "called"
      /\ log' = Append(log, ToolEvent("tool/call", Turn, Step, c, FALSE))
      /\ tool' = [tool EXCEPT ![c] = "recorded"]
      /\ UNCHANGED <<stored, at, aborted, target, made, seen, ran, crashes>>
  BY DEF RecordCall, world
<1>2. tool \in [Calls -> Stages] /\ c <= made
  BY <1>1 DEF Inv, TypeOK, OnRecord, ToolRecorded
<1>3. /\ tool' \in [Calls -> Stages] /\ tool'[c] = "recorded"
      /\ \A d \in Calls : d # c => tool'[d] = tool[d]
  BY <1>1, <1>2 DEF Stages
<1>4. /\ log' \in Seq(Event) /\ Len(log') = Len(log) + 1 /\ stored' \in 0..Len(log')
      /\ Sound(log', made', ran')
      /\ Turn' = Turn /\ Step' = Step
      /\ TraceOf(log').pendingCalls = TraceOf(log).pendingCalls \cup {c}
      /\ SeenIsStored' /\ BodiesRecorded' /\ DeniedAreIdle'
      /\ \A d \in Calls : tool'[d] = tool[d] /\ target'[d] = target[d] => ToolRecorded(d)'
      /\ Named(log', Len(log'), "tool/call", c)
  BY <1>1, <1>2, <1>3, ToolEventAppended
<1>5. TypeOK'
  BY <1>1, <1>3, <1>4 DEF Inv, TypeOK
<1>6. InPlace'
  <2>1. InStage(RecordedStages)' = InStage(RecordedStages) \cup {c}
    BY <1>3 DEF InStage, RecordedStages
  <2> QED
    BY <1>1, <1>4, <2>1 DEF Inv, InPlace, RecordedStages
<1>7. ToolRecorded(c)'
  BY <1>1, <1>2, <1>3, <1>4 DEF ToolRecorded
<1>8. OnRecord'
  BY <1>1, <1>3, <1>4, <1>7 DEF OnRecord
<1> QED
  BY <1>4, <1>5, <1>6, <1>8 DEF Inv

LEMMA DispatchKeeps == ASSUME Inv, NEW c \in Calls, Dispatch(c) PROVE Inv'
<1>1. /\ at = "tools" /\ tool[c] = "recorded"
      /\ \/ tool' = [tool EXCEPT ![c] = "flushing"] /\ target' = [target EXCEPT ![c] = Len(log)]
         \/ tool' = [tool EXCEPT ![c] = "settled"] /\ target' = target
      /\ UNCHANGED <<log, stored, at, aborted, made, seen, ran, crashes>>
  BY DEF Dispatch, world
<1>2. /\ tool \in [Calls -> Stages] /\ target \in [Calls \cup {Driver} -> Nat]
      /\ Named(log, Len(log), "tool/call", c) /\ c <= made
  BY <1>1 DEF Inv, TypeOK, OnRecord, ToolRecorded
<1>3. /\ log' \in Seq(Event) /\ stored' \in 0..Len(log') /\ Len(log') \in Nat
      /\ Sound(log', made', ran')
      /\ Turn' = Turn /\ Step' = Step /\ TraceOf(log') = TraceOf(log)
      /\ SeenIsStored' /\ BodiesRecorded'
      /\ \A d \in Calls : tool'[d] = tool[d] /\ target'[d] = target[d] => ToolRecorded(d)'
      /\ (\A d \in Calls : d <= made /\ tool[d] = "none" => tool'[d] = "none")
           => DeniedAreIdle'
  BY <1>1, LogStands
<1>4. /\ tool' \in [Calls -> Stages] /\ target' \in [Calls \cup {Driver} -> Nat]
      /\ tool'[c] = "settled" \/ (tool'[c] = "flushing" /\ target'[c] = Len(log))
      /\ \A d \in Calls : d # c => tool'[d] = tool[d] /\ target'[d] = target[d]
  BY <1>1, <1>2, <1>3 DEF Stages
<1>5. TypeOK'
  BY <1>1, <1>3, <1>4 DEF Inv, TypeOK
<1>6. InPlace'
  <2>1. InStage(RecordedStages)' = InStage(RecordedStages)
    BY <1>1, <1>4 DEF InStage, RecordedStages
  <2> QED
    BY <1>1, <1>3, <2>1 DEF Inv, InPlace, RecordedStages
<1>7. ToolRecorded(c)'
  BY <1>1, <1>2, <1>3, <1>4 DEF ToolRecorded
<1>8. OnRecord'
  BY <1>1, <1>3, <1>4, <1>7 DEF OnRecord
<1> QED
  BY <1>3, <1>5, <1>6, <1>8 DEF Inv

\* The record of the call whose body runs is stored.
LEMMA RunBodyKeeps == ASSUME Inv, NEW c \in Calls, RunBody(c) PROVE Inv'
<1>1. /\ at = "tools" /\ tool[c] = "flushing" /\ target[c] <= stored
      /\ tool' = [tool EXCEPT ![c] = "running"] /\ ran' = ran \cup {c}
      /\ UNCHANGED <<log, stored, at, aborted, target, made, seen, crashes>>
  BY DEF RunBody, Flushed
<1>2. /\ tool \in [Calls -> Stages] /\ target[c] \in Nat /\ c <= made /\ made \in Nat
      /\ Named(log, target[c], "tool/call", c)
      /\ log \in Seq(Event) /\ stored \in 0..Len(log) /\ Len(log) \in Nat
  BY <1>1, LogIsRead DEF Inv, TypeOK, OnRecord, ToolRecorded
<1>3. /\ tool' \in [Calls -> Stages] /\ tool'[c] = "running"
      /\ \A d \in Calls : d # c => tool'[d] = tool[d]
  BY <1>1, <1>2 DEF Stages
<1>4. Sound(log', made', ran')
  <2>1. ASSUME NEW i \in 1..Len(log), log[i].notStarted
        PROVE  log[i].calls \cap (ran \cup {c}) = {}
    <3>1. log[i].calls \cap ran = {}
      BY <2>1 DEF Inv, Sound, Truthful
    <3>2. c \notin log[i].calls
      BY <1>1, <2>1 DEF Inv, OnRecord, DeniedAreIdle
    <3> QED
      BY <3>1, <3>2
  <2>2. Sound(log, made, ran) /\ made <= made
    BY <1>2 DEF Inv
  <2>3. Sound(log, made, ran \cup {c})
    BY <1>2, <2>1, <2>2, StillSound
  <2> QED
    BY <1>1, <2>3
<1>5. BodiesRecorded'
  <2>1. Named(log, stored, "tool/call", c)
    BY <1>1, <1>2 DEF Named
  <2> QED
    BY <1>1, <2>1 DEF Inv, OnRecord, BodiesRecorded
<1>6. SeenIsStored' /\ DeniedAreIdle'
  BY <1>1, <1>3 DEF Inv, OnRecord, SeenIsStored, DeniedAreIdle
<1>7. ASSUME NEW d \in Calls PROVE ToolRecorded(d)'
  BY <1>1, <1>2, <1>3 DEF Inv, OnRecord, ToolRecorded
<1>8. TypeOK'
  BY <1>1, <1>3 DEF Inv, TypeOK
<1>9. InPlace'
  <2>1. InStage(RecordedStages)' = InStage(RecordedStages)
    BY <1>1, <1>3 DEF InStage, RecordedStages
  <2> QED
    BY <1>1, <2>1 DEF Inv, InPlace, RecordedStages, Turn, Step
<1>10. OnRecord'
  BY <1>1, <1>5, <1>6, <1>7 DEF OnRecord
<1> QED
  BY <1>4, <1>8, <1>9, <1>10 DEF Inv

LEMMA SettleCallKeeps == ASSUME Inv, NEW c \in Calls, SettleCall(c) PROVE Inv'
<1>1. /\ at = "tools" /\ tool[c] \in {"running", "flushing"}
      /\ tool' = [tool EXCEPT ![c] = "settled"]
      /\ UNCHANGED <<log, stored, at, aborted, target, made, seen, ran, crashes>>
  BY DEF SettleCall, world
<1>2. tool \in [Calls -> Stages] /\ c <= made
  BY <1>1 DEF Inv, TypeOK, OnRecord, ToolRecorded
<1>3. /\ tool' \in [Calls -> Stages] /\ tool'[c] = "settled"
      /\ \A d \in Calls : d # c => tool'[d] = tool[d]
  BY <1>1, <1>2 DEF Stages
<1>4. TypeOK' /\ Sound(log', made', ran')
  BY <1>1, <1>3 DEF Inv, TypeOK
<1>5. InPlace'
  <2>1. InStage(RecordedStages)' = InStage(RecordedStages)
    BY <1>1, <1>3 DEF InStage, RecordedStages
  <2> QED
    BY <1>1, <2>1 DEF Inv, InPlace, RecordedStages, Turn, Step
<1>6. SeenIsStored' /\ BodiesRecorded'
  BY <1>1 DEF Inv, OnRecord, SeenIsStored, BodiesRecorded
<1>7. DeniedAreIdle'
  BY <1>1, <1>3 DEF Inv, OnRecord, DeniedAreIdle
<1>8. ASSUME NEW d \in Calls PROVE ToolRecorded(d)'
  BY <1>1, <1>2, <1>3 DEF Inv, OnRecord, ToolRecorded
<1>9. OnRecord'
  BY <1>1, <1>6, <1>7, <1>8 DEF OnRecord
<1> QED
  BY <1>4, <1>5, <1>9 DEF Inv

LEMMA AnswerCallKeeps == ASSUME Inv, NEW c \in Calls, AnswerCall(c) PROVE Inv'
<1>1. /\ at = "tools" /\ tool[c] = "settled"
      /\ log' = Append(log, ToolEvent("tool/result", Turn, Step, c, FALSE))
      /\ tool' = [tool EXCEPT ![c] = "answered"]
      /\ UNCHANGED <<stored, at, aborted, target, made, seen, ran, crashes>>
  BY DEF AnswerCall, Result, world
<1>2. /\ tool \in [Calls -> Stages] /\ c <= made
      /\ c \in TraceOf(log).pendingCalls
  BY <1>1 DEF Inv, TypeOK, OnRecord, ToolRecorded, InPlace, InStage
<1>3. /\ tool' \in [Calls -> Stages] /\ tool'[c] = "answered"
      /\ \A d \in Calls : d # c => tool'[d] = tool[d]
  BY <1>1, <1>2 DEF Stages
<1>4. /\ log' \in Seq(Event) /\ Len(log') = Len(log) + 1 /\ stored' \in 0..Len(log')
      /\ Sound(log', made', ran')
      /\ Turn' = Turn /\ Step' = Step
      /\ TraceOf(log').pendingCalls = TraceOf(log).pendingCalls \ {c}
      /\ SeenIsStored' /\ BodiesRecorded' /\ DeniedAreIdle'
      /\ \A d \in Calls : tool'[d] = tool[d] /\ target'[d] = target[d] => ToolRecorded(d)'
  BY <1>1, <1>2, <1>3, ToolEventAppended
<1>5. TypeOK'
  BY <1>1, <1>3, <1>4 DEF Inv, TypeOK
<1>6. InPlace'
  <2>1. InStage(RecordedStages)' = InStage(RecordedStages) \ {c}
    BY <1>3 DEF InStage, RecordedStages
  <2> QED
    BY <1>1, <1>4, <2>1 DEF Inv, InPlace, RecordedStages
<1>7. ToolRecorded(c)'
  BY <1>1, <1>2, <1>3 DEF ToolRecorded
<1>8. OnRecord'
  BY <1>1, <1>3, <1>4, <1>7 DEF OnRecord
<1> QED
  BY <1>4, <1>5, <1>6, <1>8 DEF Inv

LEMMA LeaveToolsKeeps == ASSUME Inv, LeaveTools PROVE Inv'
<1> DEFINE turn == Turn
           step == Step
<1>1. /\ at = "tools" /\ at' = "step ended" /\ tool' = [c \in Calls |-> "none"]
      /\ log' = Append(log, Boundary("step/end", turn, step))
      /\ UNCHANGED <<stored, aborted, target, made, seen, ran, crashes>>
  BY DEF LeaveTools, world
<1>2. /\ turn \in Nat \ {0} /\ step \in Nat \ {0}
      /\ TraceOf(log).openTurn = turn /\ TraceOf(log).openStep = step
  BY <1>1, LogIsRead DEF Inv, InPlace, None
<1> HIDE DEF turn, step
<1>3. Accepts(TraceOf(log), Boundary("step/end", turn, step))
  BY <1>2 DEF Accepts, InOpenStep, Boundary, None
<1>4. /\ log' \in Seq(Event) /\ Len(log') = Len(log) + 1 /\ stored' \in 0..Len(log')
      /\ Sound(log', made', ran')
      /\ Turn' = Turn /\ Step' = None /\ TraceOf(log').pendingCalls = {}
      /\ SeenIsStored' /\ BodiesRecorded' /\ DeniedAreIdle'
  BY <1>1, <1>2, <1>3, BoundaryAppended
<1>5. TypeOK'
  BY <1>1, <1>4 DEF Inv, TypeOK, Places, Stages
<1>6. InPlace'
  BY <1>1, <1>2, <1>4 DEF Inv, InPlace, InStage, None, turn
<1>7. \A c \in Calls : ToolRecorded(c)'
  BY <1>1 DEF ToolRecorded
<1>8. OnRecord'
  BY <1>1, <1>4, <1>7 DEF OnRecord
<1> QED
  BY <1>4, <1>5, <1>6, <1>8 DEF Inv
-----------------------------------------------------------------------------
(***************************************************************************)
(* The actions keep the invariant: storage, the crash and the repair.      *)
(***************************************************************************)

\* More is stored, and no call is under way any more or all are where they were.
LEMMA StorageGrows ==
    ASSUME Inv, stored' \in stored..Len(log), UNCHANGED <<log, tool, target, made, seen, ran>>
    PROVE  /\ Sound(log', made', ran') /\ stored' \in 0..Len(log')
           /\ Turn' = Turn /\ TraceOf(log') = TraceOf(log)
           /\ SeenIsStored' /\ BodiesRecorded' /\ DeniedAreIdle'
           /\ \A c \in Calls : ToolRecorded(c)'
<1>1. /\ log \in Seq(Event) /\ Len(log) \in Nat /\ stored \in 0..Len(log) /\ made \in Nat
      /\ Sound(log, made, ran)
  BY LogIsRead DEF Inv
<1>2. Grown /\ stored' \in stored..Len(log') /\ made <= made' /\ made' \in Nat
      /\ \A i \in (Len(log) + 1)..Len(log') : ~log'[i].notStarted
  BY <1>1 DEF Grown
<1>3. stored' \in 0..Len(log')
  BY <1>1
<1> QED
  BY <1>1, <1>2, <1>3, GrowthKeeps, DenialsStand DEF Turn

LEMMA StoreKeeps == ASSUME Inv, Store PROVE Inv'
<1>1. /\ stored' \in stored..Len(log) /\ at # "down"
      /\ UNCHANGED <<log, at, aborted, tool, target, made, seen, ran, crashes>>
  BY LogIsRead DEF Store, world
<1>2. /\ Sound(log', made', ran') /\ stored' \in 0..Len(log')
      /\ SeenIsStored' /\ BodiesRecorded' /\ DeniedAreIdle'
      /\ \A c \in Calls : ToolRecorded(c)'
  BY <1>1, StorageGrows
<1>3. TypeOK'
  BY <1>1, <1>2 DEF Inv, TypeOK
<1>4. InPlace'
  BY <1>1 DEF Inv, InPlace, Turn, Step, InStage
<1>5. OnRecord'
  BY <1>1, <1>2 DEF Inv, OnRecord
<1> QED
  BY <1>2, <1>3, <1>4, <1>5 DEF Inv

LEMMA CommitRepairKeeps == ASSUME Inv, CommitRepair PROVE Inv'
<1>1. /\ stored' \in stored..Len(log) /\ at = "repairing" /\ at' = "down"
      /\ UNCHANGED <<log, aborted, tool, target, made, seen, ran, crashes>>
  BY LogIsRead DEF CommitRepair, world
<1>2. /\ Sound(log', made', ran') /\ stored' \in 0..Len(log')
      /\ SeenIsStored' /\ BodiesRecorded' /\ DeniedAreIdle'
      /\ \A c \in Calls : ToolRecorded(c)'
  BY <1>1, StorageGrows
<1>3. TypeOK'
  BY <1>1, <1>2 DEF Inv, TypeOK, Places
<1>4. InPlace'
  BY <1>1 DEF Inv, InPlace
<1>5. OnRecord'
  BY <1>1, <1>2 DEF OnRecord
<1> QED
  BY <1>2, <1>3, <1>4, <1>5 DEF Inv

\* What was acknowledged survives the crash.
LEMMA CrashKeeps == ASSUME Inv, Crash PROVE Inv'
<1>1. PICK n \in stored..Len(log) : log' = SubSeq(log, 1, n)
  BY DEF Crash
<1>2. /\ crashes < MaxCrashes /\ crashes' = crashes + 1
      /\ at' = "down" /\ aborted' = FALSE
      /\ tool' = [c \in Calls |-> "none"] /\ target' = [w \in DOMAIN target |-> 0]
      /\ UNCHANGED <<stored, made, seen, ran>>
  BY DEF Crash
<1>3. /\ log \in Seq(Event) /\ Len(log) \in Nat /\ stored \in 0..Len(log)
      /\ n \in 0..Len(log) /\ stored <= n /\ Sound(log, made, ran)
  BY <1>1, LogIsRead DEF Inv
<1>4. /\ log' \in Seq(Event) /\ Len(log') = n
      /\ \A i \in 1..n : log'[i] = log[i]
      /\ Sound(log', made', ran')
  BY <1>1, <1>2, <1>3, BeginningIsSound
<1>5. TypeOK'
  <2>1. crashes' \in 0..MaxCrashes
    BY <1>2, CrashRecoveryAssumption DEF Inv, TypeOK
  <2>2. target' \in [Calls \cup {Driver} -> Nat]
    BY <1>2 DEF Inv, TypeOK
  <2>3. stored' \in 0..Len(log')
    BY <1>2, <1>3, <1>4
  <2> QED
    BY <1>2, <1>4, <2>1, <2>2, <2>3 DEF Inv, TypeOK, Places, Stages
<1>6. InPlace'
  BY <1>2 DEF InPlace
<1>7. SeenIsStored'
  <2>1. Len(seen) \in Nat /\ Len(seen) <= stored /\ \A i \in 1..Len(seen) : seen[i] = log[i]
    BY DEF Inv, TypeOK, OnRecord, SeenIsStored
  <2>2. \A i \in 1..Len(seen) : i \in 1..n
    BY <1>3, <2>1
  <2> QED
    BY <1>2, <1>4, <2>1, <2>2 DEF SeenIsStored
<1>8. BodiesRecorded'
  <2>1. \A i \in 1..stored : i \in 1..n
    BY <1>3
  <2> QED
    BY <1>2, <1>4, <2>1 DEF Inv, OnRecord, BodiesRecorded, Named
<1>9. DeniedAreIdle'
  <2> SUFFICES ASSUME NEW i \in 1..Len(log'), NEW c \in log'[i].calls PROVE tool'[c] = "none"
    BY DEF DeniedAreIdle
  <2>1. c \in Calls
    <3>1. log'[i] \in Event
      BY <1>4
    <3>2. \A e \in Event : e.calls \subseteq Calls
      BY DEF Event
    <3> QED
      BY <3>1, <3>2
  <2> QED
    BY <1>2, <2>1
<1>10. \A c \in Calls : ToolRecorded(c)'
  BY <1>2 DEF ToolRecorded
<1>11. OnRecord'
  BY <1>2, <1>7, <1>8, <1>9, <1>10 DEF OnRecord
<1> QED
  BY <1>4, <1>5, <1>6, <1>11 DEF Inv

\* No body ran whose record the log lacks.
LEMMA BodiesAreInTheLog ==
    ASSUME Inv
    PROVE  \A c \in ran : Named(log, Len(log), "tool/call", c)
<1>1. \A i \in 1..stored : i \in 1..Len(log)
  BY LogIsRead
<1> QED
  BY <1>1 DEF Inv, OnRecord, BodiesRecorded, Named

LEMMA RepairKeeps == ASSUME Inv, Repair PROVE Inv'
<1> DEFINE closers == Closers(log)
<1>1. /\ at = "down" /\ at' = "repairing" /\ log' = log \o closers
      /\ UNCHANGED <<stored, aborted, tool, target, made, seen, ran, crashes>>
  BY DEF Repair, world
<1>2. /\ log \in Seq(Event) /\ Len(log) \in Nat /\ stored \in 0..Len(log)
      /\ made \in Nat /\ Sound(log, made, ran)
  BY LogIsRead DEF Inv
<1>3. closers \in Seq(Event)
  BY <1>2, ClosersAre
<1>4. Sound(log', made', ran')
  BY <1>1, <1>2, BodiesAreInTheLog, ClosersKeepSound
<1> HIDE DEF closers
<1>5. /\ Grown /\ stored' \in stored..Len(log') /\ stored' \in 0..Len(log')
      /\ log' \in Seq(Event)
  BY <1>1, <1>2, <1>3 DEF Grown
<1>6. SeenIsStored' /\ BodiesRecorded' /\ \A c \in Calls : ToolRecorded(c)'
  BY <1>1, <1>2, <1>5, GrowthKeeps
<1>7. DeniedAreIdle'
  <2> SUFFICES ASSUME NEW i \in 1..Len(log'), NEW c \in log'[i].calls PROVE tool'[c] = "none"
    BY DEF DeniedAreIdle
  <2>1. c \in Calls
    <3>1. log'[i] \in Event
      BY <1>5
    <3>2. \A e \in Event : e.calls \subseteq Calls
      BY DEF Event
    <3> QED
      BY <3>1, <3>2
  <2> QED
    BY <1>1, <2>1 DEF Inv, InPlace
<1>8. TypeOK'
  BY <1>1, <1>5 DEF Inv, TypeOK, Places
<1>9. InPlace'
  BY <1>1 DEF Inv, InPlace
<1>10. OnRecord'
  BY <1>1, <1>6, <1>7 DEF OnRecord
<1> QED
  BY <1>4, <1>8, <1>9, <1>10 DEF Inv

\* A log without closers has no open turn.
LEMMA NothingToClose ==
    ASSUME NEW events \in Seq(Event), Closers(events) = <<>>
    PROVE  OpenAtEnd(events).turn = None
<1> SUFFICES ASSUME OpenAtEnd(events).turn # None PROVE FALSE
  OBVIOUS
<1>1. OpenAtEnd(events) \in Open /\ ClosersFor(OpenAtEnd(events)) = <<>>
  BY ClosersAre
<1>2. PICK event \in Event :
        /\ ClosersFor(Scan(OpenAtEnd(events), event)) \in Seq(Event)
        /\ ClosersFor(OpenAtEnd(events)) = <<event>> \o ClosersFor(Scan(OpenAtEnd(events), event))
  BY <1>1, FirstCloser
<1>3. \A s \in Seq(Event) : <<event>> \o s # <<>>
  OBVIOUS
<1> QED
  BY <1>1, <1>2, <1>3

LEMMA ResumeKeeps == ASSUME Inv, Resume PROVE Inv'
<1>1. /\ at = "down" /\ Closers(log) = <<>> /\ at' = "idle"
      /\ UNCHANGED <<log, stored, aborted, tool, target, made, seen, ran, crashes>>
  BY DEF Resume, world
<1>2. OpenAtEnd(log).turn = None
  BY <1>1, LogIsRead, NothingToClose
<1>3. Turn = None /\ TraceOf(log).pendingCalls = {}
  <2>1. Matched(TraceOf(log), OpenAtEnd(log))
    BY LogIsRead DEF Inv, Sound, TraceOf, OpenAtEnd
  <2> QED
    BY <1>2, <2>1, LogIsRead DEF Matched
<1>4. TypeOK' /\ Sound(log', made', ran')
  BY <1>1 DEF Inv, TypeOK, Places
<1>5. InPlace'
  BY <1>1, <1>3 DEF Inv, InPlace, Turn, Step, InStage
<1>6. OnRecord'
  BY <1>1 DEF Inv, OnRecord, SeenIsStored, BodiesRecorded, DeniedAreIdle, ToolRecorded
<1> QED
  BY <1>4, <1>5, <1>6 DEF Inv
-----------------------------------------------------------------------------
(***************************************************************************)
(* The actions keep the invariant: those that append several events.       *)
(***************************************************************************)

LEMMA MessageIs ==
    ASSUME NEW C \in SUBSET Calls, Turn \in Nat, Step \in Nat
    PROVE  /\ Message(C) \in Event
           /\ Message(C).type = "assistant/message" /\ Message(C).calls = C
           /\ Message(C).turn = Turn /\ Message(C).step = Step
           /\ Message(C).notStarted = FALSE
<1> DEFINE plain == Boundary("assistant/message", Turn, Step)
<1>1. plain \in Event /\ plain = [type |-> "assistant/message", turn |-> Turn, step |-> Step,
                                  calls |-> {}, notStarted |-> FALSE]
  <2>1. "assistant/message" \in EventTypes
    BY DEF EventTypes
  <2> QED
    BY <2>1, EventsTyped
<1> HIDE DEF plain
<1>2. Message(C) = [plain EXCEPT !.calls = C]
  BY DEF Message, plain
<1> QED
  BY <1>1, <1>2 DEF Event

LEMMA TwoAppended ==
    ASSUME NEW events \in Seq(Event), NEW one \in Event, NEW two \in Event
    PROVE  /\ events \o <<one, two>> = Append(Append(events, one), two)
           /\ Len(events \o <<one, two>>) = Len(events) + 2
OBVIOUS

\* An answer without a call to run ends its step as well.
LEMMA AnswerKeeps == ASSUME Inv, NEW k \in 0..2, Answer(k) PROVE Inv'
<1> DEFINE turn == Turn
           step == Step
           C == (made + 1)..(made + k)
           message == Message(C)
           end == Boundary("step/end", turn, step)
           mid == Append(log, message)
<1>1. /\ at = "streaming" /\ made + k \in {0} \cup Calls /\ made' = made + k
      /\ \/ /\ log' = mid /\ at' = "tools"
            /\ tool' = [c \in Calls |-> IF c \in C THEN "called" ELSE "none"]
         \/ log' = log \o <<message, end>> /\ at' = "step ended" /\ tool' = tool
      /\ UNCHANGED <<stored, aborted, target, seen, ran, crashes>>
  BY DEF Answer
<1>2. /\ turn \in Nat \ {0} /\ step \in Nat \ {0} /\ made \in Nat
      /\ TraceOf(log).openTurn = turn /\ TraceOf(log).openStep = step /\ TraceOf(log) \in Trace
      /\ log \in Seq(Event) /\ Len(log) \in Nat /\ stored \in 0..Len(log)
      /\ Sound(log, made, ran)
  BY <1>1, LogIsRead DEF Inv, InPlace, None
<1>3. made' \in Nat /\ made <= made' /\ C \subseteq Calls /\ C \subseteq 1..made' /\ C \cap 1..made = {}
  <2>1. made + k \in Nat /\ \A c \in C : c \in 1..(made + k) /\ c \notin 1..made
    BY <1>2
  <2>2. Calls = 1..Cardinality(Calls) /\ Cardinality(Calls) \in Nat
    BY CrashRecoveryAssumption
  <2>3. C \subseteq Calls
    <3> DEFINE N == Cardinality(Calls)
    <3>1. N \in Nat /\ made + k \in {0} \cup 1..N
      BY <1>1, <2>2
    <3> HIDE DEF N
    <3>2. C \subseteq 1..N
      BY <1>2, <3>1
    <3> QED
      BY <2>2, <3>2 DEF N
  <2>4. C \subseteq 1..(made + k) /\ C \cap 1..made = {}
    BY <2>1
  <2>5. made' = made + k
    BY <1>1
  <2> HIDE DEF C
  <2> QED
    BY <1>2, <2>1, <2>3, <2>4, <2>5
<1>4. /\ message \in Event /\ message.type = "assistant/message" /\ message.calls = C
      /\ message.turn = turn /\ message.step = step /\ message.notStarted = FALSE
  <2> HIDE DEF C
  <2> QED
    BY <1>2, <1>3, MessageIs
<1>5. end \in Event /\ end = [type |-> "step/end", turn |-> turn, step |-> step,
                              calls |-> {}, notStarted |-> FALSE]
  <2>1. "step/end" \in EventTypes
    BY DEF EventTypes
  <2> QED
    BY <1>2, <2>1, EventsTyped
<1> HIDE DEF turn, step, C, message, end
<1>6. message \in Event
  BY <1>4
<1>7. Accepts(TraceOf(log), message) /\ Truthful(message, made', ran)
  BY <1>2, <1>3, <1>4 DEF Accepts, InOpenStep, None, Truthful
<1>8. /\ mid \in Seq(Event) /\ Len(mid) = Len(log) + 1 /\ mid[Len(log) + 1] = message
      /\ \A i \in 1..Len(log) : mid[i] = log[i]
      /\ Sound(mid, made', ran) /\ TraceOf(mid) = Advance(TraceOf(log), message)
  <2>1. message.type = "assistant/message" => message.calls \cap 1..made = {}
    BY <1>3, <1>4
  <2> QED
    BY <1>2, <1>3, <1>6, <1>7, <2>1, SoundAgain
<1> HIDE DEF mid
<1>9. TraceOf(mid) = TraceOf(log)
  BY <1>4, <1>8 DEF Advance
<1>10. Accepts(TraceOf(mid), end) /\ Truthful(end, made', ran)
  BY <1>2, <1>5, <1>9 DEF Accepts, InOpenStep, None, Truthful
<1>11. TraceOf(log).pendingCalls = {} /\ \A c \in Calls : tool[c] = "none"
  BY <1>1 DEF Inv, InPlace, InStage
<1>12. CASE log' = mid
  <2>1. /\ Sound(log', made', ran') /\ TraceOf(log') = TraceOf(log)
        /\ Turn' = turn /\ Step' = step
    BY <1>1, <1>2, <1>8, <1>9, <1>12 DEF Turn, Step
  <2>2. Grown /\ stored' \in stored..Len(log') /\ stored' \in 0..Len(log')
    <3>1. stored' = stored
      BY <1>1
    <3> QED
      BY <1>2, <1>8, <1>12, <3>1 DEF Grown
  <2>3. \A i \in (Len(log) + 1)..Len(log') : ~log'[i].notStarted
    BY <1>2, <1>4, <1>8, <1>12
  <2>4. SeenIsStored' /\ BodiesRecorded'
    BY <1>1, <1>3, <2>2, GrowthKeeps
  <2>5. at' = "tools" /\ tool' = [c \in Calls |-> IF c \in C THEN "called" ELSE "none"]
    <3>1. log' # log \o <<message, end>>
      <4>1. Len(log \o <<message, end>>) = Len(log) + 2
        BY <1>2, <1>5, <1>6, TwoAppended
      <4> QED
        BY <1>2, <1>8, <1>12, <4>1
    <3> QED
      BY <1>1, <3>1
  <2>6. \A c \in Calls : c <= made => c \notin C
    BY <1>2, <1>3, CallsAreFinite
  <2>7. DeniedAreIdle'
    BY <2>2, <2>3, <2>5, <2>6, DenialsStand
  <2>8. \A c \in Calls : ToolRecorded(c)'
    BY <1>3, <2>5 DEF ToolRecorded
  <2>9. TypeOK'
    BY <1>1, <1>8, <1>12, <2>2, <2>5 DEF Inv, TypeOK, Places, Stages
  <2>10. InPlace'
    BY <1>2, <1>11, <2>1, <2>5 DEF InPlace, InStage, None
  <2>11. OnRecord'
    BY <2>4, <2>5, <2>7, <2>8 DEF OnRecord
  <2> QED
    BY <2>1, <2>9, <2>10, <2>11 DEF Inv
<1>13. CASE log' = log \o <<message, end>> /\ at' = "step ended" /\ tool' = tool
  <2>1. log' = Append(mid, end)
    BY <1>2, <1>5, <1>6, <1>13, TwoAppended DEF mid
  <2>2. /\ log' \in Seq(Event) /\ Len(log') = Len(log) + 2 /\ log'[Len(log) + 2] = end
        /\ \A i \in 1..(Len(log) + 1) : log'[i] = mid[i]
    BY <1>2, <1>5, <1>8, <2>1
  <2>3. Sound(log', made', ran) /\ TraceOf(log') = Advance(TraceOf(mid), end)
    <3>1. end.type # "assistant/message" /\ made' <= made'
      BY <1>3, <1>5
    <3> QED
      BY <1>3, <1>5, <1>8, <1>10, <2>1, <3>1, SoundAgain
  <2>4. Grown /\ stored' \in stored..Len(log') /\ stored' \in 0..Len(log')
    <3>1. stored' = stored
      BY <1>1
    <3>2. \A i \in 1..Len(log) : i \in 1..(Len(log) + 1)
      BY <1>2
    <3>3. \A i \in 1..Len(log) : log'[i] = log[i]
      BY <1>8, <2>2, <3>2
    <3> QED
      BY <1>2, <2>2, <3>1, <3>3 DEF Grown
  <2>5. \A i \in (Len(log) + 1)..Len(log') : ~log'[i].notStarted
    <3> TAKE i \in (Len(log) + 1)..Len(log')
    <3>1. i = Len(log) + 1 \/ i = Len(log) + 2
      BY <1>2, <2>2
    <3> QED
      BY <1>2, <1>4, <1>5, <1>8, <2>2, <3>1
  <2>6. SeenIsStored' /\ BodiesRecorded' /\ \A c \in Calls : ToolRecorded(c)'
    BY <1>1, <1>3, <1>13, <2>4, GrowthKeeps
  <2>7. DeniedAreIdle'
    BY <1>13, <2>4, <2>5, DenialsStand
  <2>8. Turn' = turn /\ Step' = None /\ TraceOf(log').pendingCalls = {}
    <3>1. /\ TraceOf(log').openTurn = turn /\ TraceOf(log').openStep = None
          /\ TraceOf(log').pendingCalls = {}
      BY <1>2, <1>5, <1>9, <2>3 DEF Advance, Trace
    <3> QED
      BY <3>1 DEF Turn, Step
  <2>9. TypeOK'
    BY <1>1, <1>13, <2>2, <2>4 DEF Inv, TypeOK, Places
  <2>10. InPlace'
    BY <1>2, <1>11, <1>13, <2>8 DEF InPlace, InStage, None
  <2>11. OnRecord'
    BY <1>13, <2>6, <2>7 DEF OnRecord
  <2> QED
    BY <1>1, <2>3, <2>9, <2>10, <2>11 DEF Inv
<1> QED
  BY <1>1, <1>12, <1>13
\* The log is at a step of this turn that waits for no answer.
InStepOf(events, turn, step) == /\ TraceOf(events).openTurn = turn
                                /\ TraceOf(events).openStep = step
                                /\ TraceOf(events).pendingCalls = {}

RecordOf(turn, step, c) == ToolEvent("tool/call", turn, step, c, FALSE)
AnswerTo(turn, step, c) == ToolEvent("tool/result", turn, step, c, FALSE)

\* A call that is recorded and answered at once leaves its step as it was.
LEMMA SkippedCallKeeps ==
    ASSUME NEW events \in Seq(Event), NEW m \in Nat, NEW bodies, Sound(events, m, bodies),
           NEW turn \in Nat \ {0}, NEW step \in Nat \ {0}, InStepOf(events, turn, step),
           NEW c \in Calls, c <= m, NEW twice,
           twice = Append(Append(events, RecordOf(turn, step, c)), AnswerTo(turn, step, c))
    PROVE  Sound(twice, m, bodies) /\ InStepOf(twice, turn, step)
<1> DEFINE call == RecordOf(turn, step, c)
           result == AnswerTo(turn, step, c)
           once == Append(events, call)
<1>0. twice = Append(once, result)
  OBVIOUS
<1>1. call \in Event /\ result \in Event
  <2>1. {"tool/call", "tool/result"} \subseteq EventTypes
    BY DEF EventTypes
  <2> QED
    BY <2>1, EventsTyped DEF RecordOf, AnswerTo
<1>2. /\ call.type = "tool/call" /\ call.turn = turn /\ call.step = step
      /\ call.calls = {c} /\ call.notStarted = FALSE
  BY DEF ToolEvent, RecordOf
<1>3. /\ result.type = "tool/result" /\ result.turn = turn /\ result.step = step
      /\ result.calls = {c} /\ result.notStarted = FALSE
  BY DEF ToolEvent, AnswerTo
<1> HIDE DEF call, result
<1>4. {c} \subseteq 1..m /\ m <= m
  BY CallsAreFinite
<1>5. TraceOf(events) \in Trace
  BY DEF Sound, Matched, TraceOf
<1>6. /\ once \in Seq(Event) /\ Sound(once, m, bodies)
      /\ TraceOf(once) = Advance(TraceOf(events), call)
  <2>1. Accepts(TraceOf(events), call) /\ Truthful(call, m, bodies)
    BY <1>2, <1>4 DEF InStepOf, Accepts, InOpenStep, None, Truthful
  <2>2. call.type # "assistant/message"
    BY <1>2
  <2> QED
    BY <1>1, <1>4, <2>1, <2>2, SoundAgain
<1>7. /\ TraceOf(once) \in Trace /\ TraceOf(once).openTurn = turn
      /\ TraceOf(once).openStep = step /\ TraceOf(once).pendingCalls = {c}
  BY <1>1, <1>2, <1>5, <1>6 DEF Advance, InStepOf, Trace
<1> HIDE DEF once
<1>8. /\ Sound(twice, m, bodies)
      /\ TraceOf(twice) = Advance(TraceOf(once), result)
  <2>1. Accepts(TraceOf(once), result) /\ Truthful(result, m, bodies)
    BY <1>3, <1>4, <1>7 DEF Accepts, InOpenStep, AnswersCall, None, Truthful
  <2>2. result.type # "assistant/message"
    BY <1>3
  <2> QED
    BY <1>0, <1>1, <1>4, <1>6, <2>1, <2>2, SoundAgain
<1>9. InStepOf(twice, turn, step)
  <2>1. /\ TraceOf(twice).openTurn = turn /\ TraceOf(twice).openStep = step
        /\ TraceOf(twice).pendingCalls = {c} \ {c}
    BY <1>1, <1>3, <1>7, <1>8 DEF Advance, Trace
  <2> QED
    BY <2>1 DEF InStepOf
<1> QED
  BY <1>8, <1>9

LEMMA SkipCallsKeeps == ASSUME Inv, SkipCalls PROVE Inv'
<1> DEFINE turn == Turn
           step == Step
           C == InStage({"called"})
           skipped == InOrder(C)
           Pair(c) == <<ToolEvent("tool/call", turn, step, c, FALSE),
                        ToolEvent("tool/result", turn, step, c, FALSE)>>
           pairs == [i \in 1..(2 * Len(skipped)) |->
                       Pair(skipped[(i + 1) \div 2])[IF i % 2 = 1 THEN 1 ELSE 2]]
           M == Cardinality(C)
<1>1. /\ at = "tools" /\ InStage({"recorded", "flushing", "running", "settled"}) = {}
      /\ log' = log \o pairs
      /\ tool' = [c \in Calls |-> IF tool[c] = "called" THEN "answered" ELSE tool[c]]
      /\ UNCHANGED <<stored, at, aborted, target, made, seen, ran, crashes>>
  BY DEF SkipCalls, Result, world
<1>2. /\ turn \in Nat \ {0} /\ step \in Nat \ {0} /\ made \in Nat
      /\ InStepOf(log, turn, step) /\ Sound(log, made, ran)
      /\ log \in Seq(Event) /\ Len(log) \in Nat /\ stored \in 0..Len(log)
  BY <1>1, LogIsRead DEF Inv, InPlace, None, InStepOf
<1>3. \A c \in C : c \in Calls /\ c <= made
  BY DEF InStage, Inv, OnRecord, ToolRecorded
<1>4. M \in Nat /\ skipped \in [1..M -> C] /\ Len(skipped) = M
  <2>1. C \in SUBSET Calls
    BY DEF InStage
  <2> HIDE DEF C
  <2>2. M \in Nat /\ skipped \in [1..M -> C]
    BY <2>1, InOrderLists
  <2> HIDE DEF M, skipped
  <2> QED
    BY <2>2
<1> DEFINE call(c) == RecordOf(turn, step, c)
           result(c) == AnswerTo(turn, step, c)
<1> HIDE DEF turn, step, C, skipped, M
<1>5. \A c \in C : /\ call(c) \in Event /\ result(c) \in Event
                   /\ ~call(c).notStarted /\ ~result(c).notStarted
  <2>1. {"tool/call", "tool/result"} \subseteq EventTypes
    BY DEF EventTypes
  <2>2. \A c \in C : call(c) \in Event /\ result(c) \in Event
    BY <1>2, <1>3, <2>1, EventsTyped DEF RecordOf, AnswerTo
  <2> QED
    BY <2>2 DEF ToolEvent, RecordOf, AnswerTo
<1>6. \A i \in 1..(2 * M) : (i + 1) \div 2 \in 1..M
  BY <1>4
<1> DEFINE N == 2 * M
           place(i) == (i + 1) \div 2
           pair(i) == Pair(skipped[place(i)])[IF i % 2 = 1 THEN 1 ELSE 2]
<1>7. /\ N \in Nat /\ pairs = [i \in 1..N |-> pair(i)]
      /\ \A i \in 1..N : /\ i % 2 = 1 => pair(i) = call(skipped[place(i)])
                         /\ i % 2 # 1 => pair(i) = result(skipped[place(i)])
  <2>1. N \in Nat
    BY <1>4
  <2>2. pairs = [i \in 1..N |-> pair(i)]
    <3> HIDE DEF pair
    <3>1. pairs = [i \in 1..(2 * Len(skipped)) |-> pair(i)]
      BY DEF pair
    <3> HIDE DEF pairs
    <3> QED
      BY <1>4, <3>1
  <2>3. \A c : Pair(c)[1] = call(c) /\ Pair(c)[2] = result(c)
    BY DEF RecordOf, AnswerTo
  <2> HIDE DEF N, place, Pair, call, result, pairs
  <2> QED
    BY <2>1, <2>2, <2>3
<1> HIDE DEF pairs, pair
<1>8. \A k \in 0..(M - 1) : /\ k + 1 \in 1..M
                            /\ pairs[2 * k + 1] = call(skipped[k + 1])
                            /\ pairs[2 * k + 2] = result(skipped[k + 1])
  <2> TAKE k \in 0..(M - 1)
  <2>1. /\ k + 1 \in 1..M /\ 2 * k + 1 \in 1..N /\ 2 * k + 2 \in 1..N
        /\ place(2 * k + 1) = k + 1 /\ place(2 * k + 2) = k + 1
        /\ (2 * k + 1) % 2 = 1 /\ (2 * k + 2) % 2 # 1
    BY <1>4
  <2> HIDE DEF N, place, call, result
  <2> QED
    BY <1>7, <2>1
<1> HIDE DEF call, result
<1>9. \A i \in 1..N : pairs[i] \in Event /\ ~pairs[i].notStarted
  <2> TAKE i \in 1..N
  <2>1. skipped[place(i)] \in C
    BY <1>4, <1>6
  <2> HIDE DEF N, place
  <2>2. pairs[i] = call(skipped[place(i)]) \/ pairs[i] = result(skipped[place(i)])
    BY <1>7
  <2> QED
    BY <1>5, <2>1, <2>2
<1>10. pairs \in Seq(Event) /\ Len(pairs) = N
  <2> HIDE DEF N
  <2>1. pairs \in [1..N -> Event]
    BY <1>7, <1>9
  <2> QED
    BY <1>7, <2>1
<1>11. /\ Extended(log, pairs, 0) = log
       /\ Extended(log, pairs, N) = log \o pairs
       /\ \A i \in 0..N : Extended(log, pairs, i) \in Seq(Event)
       /\ \A i \in 0..(N - 1) :
             Extended(log, pairs, i + 1) = Append(Extended(log, pairs, i), pairs[i + 1])
  <2> HIDE DEF N
  <2> QED
    BY <1>2, <1>10, ExtendedSteps
<1> DEFINE grown(k) == Extended(log, pairs, k)
           Upto == {k \in Nat : k <= M => /\ Sound(grown(2 * k), made, ran)
                                          /\ InStepOf(grown(2 * k), turn, step)}
<1>12. 0 \in Upto
  <2>1. grown(0) = log /\ 2 * 0 = 0
    BY <1>11
  <2> QED
    BY <1>2, <2>1
<1>13. ASSUME NEW k \in Nat, k \in Upto PROVE k + 1 \in Upto
  <2> SUFFICES ASSUME k + 1 <= M
               PROVE  /\ Sound(grown(2 * (k + 1)), made, ran)
                      /\ InStepOf(grown(2 * (k + 1)), turn, step)
    OBVIOUS
  <2>1. /\ k \in 0..(M - 1) /\ 2 * k \in 0..(2 * M - 1) /\ 2 * k + 1 \in 0..(2 * M - 1)
        /\ 2 * (k + 1) = (2 * k + 1) + 1 /\ 2 * k \in 0..(2 * M) /\ (2 * k + 1) + 1 = 2 * k + 2
    BY <1>4
  <2>2. /\ Sound(grown(2 * k), made, ran) /\ InStepOf(grown(2 * k), turn, step)
    BY <1>4, <1>13, <2>1
  <2> DEFINE c == skipped[k + 1]
  <2>3. c \in C /\ c \in Calls /\ c <= made
    BY <1>3, <1>4, <1>8, <2>1
  <2>4. /\ grown(2 * k) \in Seq(Event)
        /\ grown(2 * k + 1) = Append(grown(2 * k), call(c))
        /\ grown(2 * (k + 1)) = Append(grown(2 * k + 1), result(c))
    <3>1. \A i \in 0..N : grown(i) \in Seq(Event)
      BY <1>11
    <3>2. \A i \in 0..(N - 1) : grown(i + 1) = Append(grown(i), pairs[i + 1])
      BY <1>11
    <3> HIDE DEF grown
    <3>3. pairs[2 * k + 1] = call(c) /\ pairs[(2 * k + 1) + 1] = result(c)
      BY <1>8, <2>1
    <3> QED
      BY <2>1, <3>1, <3>2, <3>3
  <2> HIDE DEF grown, c
  <2> QED
    BY <1>2, <2>2, <2>3, <2>4, SkippedCallKeeps DEF call, result
<1>14. \A k \in Nat : k \in Upto
  <2> HIDE DEF Upto
  <2> QED
    BY <1>12, <1>13, NaturalsAreAll
<1>15. Sound(log', made', ran') /\ InStepOf(log', turn, step)
  <2>1. Sound(grown(2 * M), made, ran) /\ InStepOf(grown(2 * M), turn, step)
    BY <1>4, <1>14
  <2>2. grown(2 * M) = log'
    <3>1. log' = log \o pairs
      BY <1>1
    <3> QED
      BY <1>11, <3>1
  <2> QED
    BY <1>1, <2>1, <2>2
<1>16. /\ Grown /\ stored' \in stored..Len(log') /\ stored' \in 0..Len(log')
       /\ \A i \in (Len(log) + 1)..Len(log') : ~log'[i].notStarted
  <2>1. /\ log' \in Seq(Event) /\ Len(log') = Len(log) + 2 * M
        /\ \A i \in 1..Len(log) : log'[i] = log[i]
        /\ \A i \in 1..(2 * M) : log'[Len(log) + i] = pairs[i]
    <3>1. log' = log \o pairs
      BY <1>1
    <3> HIDE DEF N
    <3>2. /\ log' \in Seq(Event) /\ Len(log') = Len(log) + N
          /\ \A i \in 1..Len(log) : log'[i] = log[i]
          /\ \A i \in 1..N : log'[Len(log) + i] = pairs[i]
      BY <1>2, <1>7, <1>10, <3>1
    <3> QED
      BY <3>2 DEF N
  <2>2. stored' = stored /\ Len(log) <= Len(log')
    BY <1>1, <1>2, <1>4, <2>1
  <2>3. ASSUME NEW i \in (Len(log) + 1)..Len(log') PROVE ~log'[i].notStarted
    <3>1. i - Len(log) \in 1..(2 * M) /\ Len(log) + (i - Len(log)) = i
      BY <1>2, <1>4, <2>1
    <3> QED
      BY <1>9, <2>1, <3>1
  <2> QED
    BY <1>2, <2>1, <2>2, <2>3 DEF Grown
<1>17. tool \in [Calls -> Stages]
  BY DEF Inv, TypeOK
<1>18. SeenIsStored' /\ BodiesRecorded' /\ DeniedAreIdle'
  <2>1. made' \in Nat /\ made <= made'
    BY <1>1, <1>2
  <2>2. \A c \in Calls : tool[c] = "none" => tool'[c] = "none"
    BY <1>1
  <2> QED
    BY <1>1, <1>16, <2>1, <2>2, GrowthKeeps, DenialsStand
<1>19. ASSUME NEW c \in Calls PROVE ToolRecorded(c)'
  <2>1. tool[c] \in {"none", "called", "answered"}
    BY <1>1, <1>17 DEF InStage, Stages
  <2> QED
    BY <1>1, <2>1 DEF Inv, OnRecord, ToolRecorded
<1>20. TypeOK'
  BY <1>1, <1>16, <1>17 DEF Inv, TypeOK, Grown, Stages
<1>21. InPlace'
  <2>1. InStage({"recorded", "flushing", "running", "settled"})' = {}
    BY <1>1 DEF InStage
  <2>2. Turn' = turn /\ Step' = step /\ TraceOf(log').pendingCalls = {}
    BY <1>15 DEF InStepOf, Turn, Step
  <2> QED
    BY <1>1, <1>2, <2>1, <2>2 DEF InPlace, None
<1>22. OnRecord'
  BY <1>1, <1>18, <1>19 DEF OnRecord
<1> QED
  BY <1>15, <1>20, <1>21, <1>22 DEF Inv
-----------------------------------------------------------------------------
(***************************************************************************)
(* The theorems.                                                           *)
(***************************************************************************)

LEMMA InitInv == Init => Inv
<1> SUFFICES ASSUME Init PROVE Inv
  OBVIOUS
<1>1. /\ log = <<>> /\ stored = 0 /\ at = "idle" /\ aborted = FALSE
      /\ tool = [c \in Calls |-> "none"] /\ target = [w \in Calls \cup {Driver} |-> 0]
      /\ made = 0 /\ seen = <<>> /\ ran = {} /\ crashes = 0
  BY DEF Init
<1>2. log \in Seq(Event) /\ Len(log) = 0
  BY <1>1
<1>3. TypeOK
  <2>1. seen \in Seq(Event) /\ stored \in 0..Len(log) /\ crashes \in 0..MaxCrashes
    BY <1>1, <1>2, CrashRecoveryAssumption
  <2>2. tool \in [Calls -> Stages] /\ target \in [Calls \cup {Driver} -> Nat]
    BY <1>1 DEF Stages
  <2> QED
    BY <1>1, <1>2, <2>1, <2>2 DEF TypeOK, Places
<1>4. TracesOf(log)[0] = FreshTrace /\ OpensOf(log)[0] = Closed
  BY <1>2, TracesUnfold, OpensUnfold
<1>5. Matched(FreshTrace, Closed)
  BY FreshAndClosed DEF Matched, FreshTrace, Closed, None
<1>6. Sound(log, made, ran)
  <2>1. Noticed(log, 0, Closed, made)
    BY DEF Noticed, Closed, None
  <2>2. \A n \in 0..Len(log) : n = 0
    BY <1>2
  <2> QED
    BY <1>2, <1>4, <1>5, <2>1, <2>2 DEF Sound
<1>7. InPlace
  BY <1>1, <1>2, <1>4 DEF InPlace, InStage, TraceOf, Turn, FreshTrace, None
<1>8. OnRecord
  BY <1>1, <1>2 DEF OnRecord, SeenIsStored, BodiesRecorded, DeniedAreIdle, ToolRecorded
<1> QED
  BY <1>3, <1>6, <1>7, <1>8 DEF Inv

LEMMA NextKeeps == Inv /\ [Next]_vars => Inv'
<1> SUFFICES ASSUME Inv, [Next]_vars PROVE Inv'
  OBVIOUS
<1>1. CASE ToolStep
  <2>1. PICK c \in Calls :
          RecordCall(c) \/ Dispatch(c) \/ RunBody(c) \/ SettleCall(c) \/ AnswerCall(c)
    BY <1>1 DEF ToolStep
  <2> QED
    BY <2>1, RecordCallKeeps, DispatchKeeps, RunBodyKeeps, SettleCallKeeps, AnswerCallKeeps
<1>2. CASE DriverStep
  BY <1>1, <1>2, OpenTurnKeeps, EnterStepKeeps, SendRequestKeeps, RetryRequestKeeps, AnswerKeeps,
     FailStepKeeps, NextStepKeeps, EndTurnKeeps, CancelKeeps, SkipCallsKeeps, LeaveToolsKeeps
  DEF DriverStep
<1>3. CASE Store \/ Crash
  BY <1>3, StoreKeeps, CrashKeeps
<1>4. CASE Recovery
  BY <1>4, RepairKeeps, CommitRepairKeeps, ResumeKeeps DEF Recovery
<1>5. CASE UNCHANGED vars
  <2>1. UNCHANGED <<log, stored, at, aborted, tool, target, made, seen, ran, crashes>>
    BY <1>5 DEF vars
  <2>2. TypeOK' /\ Sound(log', made', ran')
    BY <2>1 DEF Inv, TypeOK
  <2>3. InPlace'
    BY <2>1 DEF Inv, InPlace, Turn, Step, InStage
  <2>4. OnRecord'
    BY <2>1 DEF Inv, OnRecord, SeenIsStored, BodiesRecorded, DeniedAreIdle, ToolRecorded
  <2> QED
    BY <2>2, <2>3, <2>4 DEF Inv
<1> QED
  BY <1>2, <1>3, <1>4, <1>5 DEF Next

LEMMA Invariance == Spec => []Inv
BY InitInv, NextKeeps, PTL DEF Spec

\* The state is typed: nothing is acknowledged that the log does not hold (flush, coordinator).
THEOREM TypeCorrect == Spec => []TypeOK
<1>1. Inv => TypeOK
  BY DEF Inv
<1> QED
  BY <1>1, Invariance, PTL

\* Whatever a crash left and however often a repair of it was itself cut short, the log is
\* one that validateEvent accepts from its first event to its last, and no turn is open when
\* the next one starts (applyTransition, interruptedTurnClosers).
THEOREM LogsAreGrammatical == Spec => []LogStaysGrammatical
<1>1. Inv => LogStaysGrammatical
  <2> SUFFICES ASSUME Inv PROVE LogStaysGrammatical
    OBVIOUS
  <2>1. TraceOf(log).nextTurn # 0
    BY LogIsRead
  <2>2. Broken.nextTurn = 0
    BY DEF Broken, FreshTrace
  <2> QED
    BY <2>1, <2>2 DEF Inv, InPlace, LogStaysGrammatical
<1> QED
  BY <1>1, Invariance, PTL

\* No crash takes back what the model was shown, nor the record of a call whose body ran:
\* the checkpoints of llm/stream and tools/execute wait until it is stored.
THEOREM EffectsStay == Spec => []EffectsAreOnRecord
<1>1. Inv => EffectsAreOnRecord
  <2> SUFFICES ASSUME Inv PROVE EffectsAreOnRecord
    OBVIOUS
  <2>1. /\ log \in Seq(Event) /\ seen \in Seq(Event) /\ Len(log) \in Nat /\ Len(seen) \in Nat
        /\ Len(seen) <= Len(log) /\ \A i \in 1..Len(seen) : seen[i] = log[i]
    <3>1. /\ Len(seen) <= stored /\ \A i \in 1..Len(seen) : seen[i] = log[i]
      BY DEF Inv, OnRecord, SeenIsStored
    <3>2. seen \in Seq(Event)
      BY DEF Inv, TypeOK
    <3> QED
      BY <3>1, <3>2, LogIsRead
  <2>2. SubSeq(seen, 1, Len(seen)) = SubSeq(log, 1, Len(seen))
    <3>1. /\ SubSeq(seen, 1, Len(seen)) = [i \in 1..Len(seen) |-> seen[i]]
          /\ SubSeq(log, 1, Len(seen)) = [i \in 1..Len(seen) |-> log[i]]
      BY <2>1
    <3> QED
      BY <2>1, <3>1
  <2>3. ASSUME NEW c \in ran PROVE Events("tool/call", c) # {}
    <3>1. PICK i \in 1..Len(log) : log[i].type = "tool/call" /\ c \in log[i].calls
      BY BodiesAreInTheLog DEF Named
    <3>2. i \in DOMAIN log
      BY <2>1
    <3> QED
      BY <3>1, <3>2 DEF Events
  <2> QED
    BY <2>1, <2>2, <2>3 DEF EffectsAreOnRecord, IsPrefix
<1> QED
  BY <1>1, Invariance, PTL

\* A result that says a call never started is about a call whose body never ran, in this
\* process or before: the repair says so of calls without a record, and a body runs only
\* when its record is stored (interruptedTurnClosers, the checkpoint of tools/execute).
THEOREM DenialsAreTrue == Spec => []NotStartedIsTrue
<1>1. Inv => NotStartedIsTrue
  <2> SUFFICES ASSUME Inv PROVE NotStartedIsTrue
    OBVIOUS
  <2>1. DOMAIN log = 1..Len(log)
    BY LogIsRead
  <2> QED
    BY <2>1 DEF Inv, Sound, Truthful, NotStartedIsTrue
<1> QED
  BY <1>1, Invariance, PTL

\* A repair that was cut short after any of its events is taken up there: what the scan reads
\* out of the longer log is what was left to close (interruptedTurnClosers).
THEOREM RepairsAreRestartable == Spec => []RepairIsRestartable
<1>1. TypeOK => RepairIsRestartable
  <2> SUFFICES ASSUME TypeOK PROVE RepairIsRestartable
    OBVIOUS
  <2>1. log \in Seq(Event)
    BY DEF TypeOK
  <2> QED
    BY <2>1, ClosersGoOn DEF RepairIsRestartable, Extended
<1> QED
  BY <1>1, TypeCorrect, PTL

\* A repair leaves no call of the step it closes without a result, whether the call was
\* recorded or only named by the model's answer (interruptedTurnClosers).
THEOREM RepairsAnswerEveryCall == Spec => RepairAnswersEveryCall
<1> DEFINE Answers == at = "down" /\ at' = "repairing" =>
                        \A i \in DOMAIN log :
                            log[i].type = "assistant/message"
                            /\ (\A j \in (i + 1)..Len(log) : log[j].type # "step/end")
                            => \A c \in log[i].calls : Events("tool/result", c)' # {}
<1>1. Inv /\ [Next]_vars => [Answers]_vars
  <2> SUFFICES ASSUME Inv, [Next]_vars, at = "down", at' = "repairing",
                      NEW i \in DOMAIN log, log[i].type = "assistant/message",
                      \A j \in (i + 1)..Len(log) : log[j].type # "step/end",
                      NEW c \in log[i].calls
               PROVE  Events("tool/result", c)' # {}
    OBVIOUS
  <2>1. Repair
    <3>1. ~DriverStep
      BY DEF DriverStep, ToolStep, OpenTurn, EnterStep, SendRequest, RetryRequest, Answer,
             FailStep, NextStep, EndTurn, Cancel, RecordCall, Dispatch, RunBody, SettleCall,
             AnswerCall, SkipCalls, LeaveTools
    <3>2. ~Store /\ ~Crash /\ ~CommitRepair /\ ~Resume /\ ~UNCHANGED vars
      BY DEF Store, Crash, CommitRepair, Resume, vars
    <3> QED
      BY <3>1, <3>2 DEF Next, Recovery
  <2> DEFINE closers == Closers(log)
  <2>2. closers # <<>> /\ log' = log \o closers
    BY <2>1 DEF Repair
  <2>3. log \in Seq(Event) /\ Len(log) \in Nat /\ i \in 1..Len(log) /\ closers \in Seq(Event)
    BY LogIsRead, ClosersAre
  <2>4. c \in OpenAtEnd(log).pending \/ Named(log, Len(log), "tool/result", c)
    <3>1. Noticed(log, Len(log), OpenAtEnd(log), made)
      BY <2>3 DEF Inv, Sound, OpenAtEnd
    <3> QED
      BY <2>3, <3>1 DEF Noticed
  <2>5. \E k \in DOMAIN log' : log'[k].type = "tool/result" /\ c \in log'[k].calls
    <3>1. CASE Named(log, Len(log), "tool/result", c)
      <4>1. PICK k \in 1..Len(log) : log[k].type = "tool/result" /\ c \in log[k].calls
        BY <3>1 DEF Named
      <4> HIDE DEF closers
      <4>2. k \in DOMAIN log' /\ log'[k] = log[k]
        BY <2>2, <2>3
      <4> QED
        BY <4>1, <4>2
    <3>2. CASE c \in OpenAtEnd(log).pending
      <4>1. PICK k \in 1..Len(closers) : closers[k].type = "tool/result" /\ c \in closers[k].calls
        BY <2>2, <2>3, <3>2, ClosersAnswer
      <4> HIDE DEF closers
      <4>2. Len(log) + k \in DOMAIN log' /\ log'[Len(log) + k] = closers[k]
        BY <2>2, <2>3
      <4> QED
        BY <4>1, <4>2
    <3> QED
      BY <2>4, <3>1, <3>2
  <2> QED
    BY <2>5 DEF Events
<1> QED
  BY <1>1, Invariance, PTL DEF Spec, RepairAnswersEveryCall
=============================================================================
