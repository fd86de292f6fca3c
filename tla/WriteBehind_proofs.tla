------------------------- MODULE WriteBehind_proofs --------------------------
(***************************************************************************)
(* What TLAPS proves of WriteBehind, for every set of callers and every    *)
(* number of events: its type invariant, that no event is lost, doubled or *)
(* reordered, and that the controller implements DurableLog.               *)
(***************************************************************************)
EXTENDS WriteBehind, SequenceTheorems, TLAPS

-----------------------------------------------------------------------------
(***************************************************************************)
(* Runs of consecutive events.                                             *)
(***************************************************************************)

\* s holds the events after `first', in order.
Run(s, first) == \A i \in 1..Len(s) : s[i] = first + i

\* A run followed by its continuation is a run.
LEMMA RunsJoin ==
    ASSUME NEW s \in Seq(Nat), NEW t \in Seq(Nat), NEW first \in Int,
           Run(s, first), Run(t, first + Len(s))
    PROVE  /\ s \o t \in Seq(Nat)
           /\ Len(s \o t) = Len(s) + Len(t)
           /\ Run(s \o t, first)
<1>1. /\ s \o t \in Seq(Nat)
      /\ Len(s \o t) = Len(s) + Len(t)
      /\ \A i \in 1..(Len(s) + Len(t)) :
            (s \o t)[i] = IF i <= Len(s) THEN s[i] ELSE t[i - Len(s)]
  BY ConcatProperties
<1> QED BY <1>1 DEF Run

\* A run extended by the next event is a run.
LEMMA RunGrows ==
    ASSUME NEW s \in Seq(Nat), NEW n \in Nat, Run(s, n - Len(s))
    PROVE  /\ Append(s, n + 1) \in Seq(Nat)
           /\ Len(Append(s, n + 1)) = Len(s) + 1
           /\ Run(Append(s, n + 1), n - Len(s))
<1>1. /\ Append(s, n + 1) \in Seq(Nat)
      /\ Len(Append(s, n + 1)) = Len(s) + 1
  OBVIOUS
<1>2. ASSUME NEW i \in 1..(Len(s) + 1) PROVE Append(s, n + 1)[i] = n - Len(s) + i
  <2>1. CASE i = Len(s) + 1 BY <2>1
  <2>2. CASE i # Len(s) + 1 BY <2>2 DEF Run
  <2> QED BY <2>1, <2>2
<1> DEFINE t == Append(s, n + 1)
<1>3. \A i \in 1..Len(t) : t[i] = (n - Len(s)) + i
  BY <1>1, <1>2
<1>4. t \in Seq(Nat) /\ Len(t) = Len(s) + 1
  BY <1>1
<1> HIDE DEF t
<1>5. Run(t, n - Len(s))
  BY <1>3, Zenon DEF Run
<1> QED BY <1>4, <1>5 DEF t

-----------------------------------------------------------------------------
(***************************************************************************)
(* Types.                                                                  *)
(***************************************************************************)

LEMMA StartWriteTypes ==
    ASSUME TypeOK, NEW b \in BOOLEAN, StartWrite(b)
    PROVE  /\ pending' \in Seq(Nat) /\ batch' \in Seq(Nat)
           /\ timer' \in BOOLEAN /\ expired' \in BOOLEAN /\ background' \in BOOLEAN
           /\ write' \in {"off", "writing", "written", "failed"}
<1>1. <<>> \in Seq(Nat) OBVIOUS
<1>2. pending' \in Seq(Nat) /\ batch' \in Seq(Nat)
  BY <1>1, Zenon DEF TypeOK, StartWrite
<1>3. /\ timer' \in BOOLEAN /\ expired' \in BOOLEAN /\ background' \in BOOLEAN
      /\ write' \in {"off", "writing", "written", "failed"}
  BY DEF StartWrite
<1> QED BY <1>2, <1>3

LEMMA CallFlushTypes ==
    ASSUME TypeOK, NEW f \in Flushes, CallFlush(f), closed' \in BOOLEAN
    PROVE  TypeOK'
<1>1. produced \in Nat BY WriteBehindAssumption DEF TypeOK
<1>2. /\ call' \in [Flushes -> {"idle", "init", "joined", "resolved", "rejected"}]
      /\ target' \in [Flushes -> Nat]
  BY <1>1 DEF TypeOK, CallFlush
<1>3. timer' \in BOOLEAN /\ expired' \in BOOLEAN BY DEF CallFlush
<1> QED BY <1>2, <1>3, Zenon DEF TypeOK, CallFlush

LEMMA ProducerTypes == TypeOK /\ Producers => TypeOK'
<1> SUFFICES ASSUME TypeOK, Producers PROVE TypeOK'
  OBVIOUS
<1>1. CASE Enqueue
  <2>1. pending' \in Seq(Nat) BY <1>1 DEF TypeOK, Enqueue
  <2>2. produced' \in 0..MaxEvents
    BY <1>1, WriteBehindAssumption DEF TypeOK, Enqueue
  <2>3. /\ timer' \in BOOLEAN /\ paused' \in BOOLEAN /\ expired' \in BOOLEAN
    BY <1>1, Zenon DEF TypeOK, Enqueue
  <2> QED BY <1>1, <2>1, <2>2, <2>3 DEF TypeOK, Enqueue
<1>2. CASE Retire BY <1>2, CallFlushTypes DEF Retire, Flushes
<1>3. CASE \E f \in Callers : Flush(f)
  BY <1>3, CallFlushTypes DEF Flush, Flushes, TypeOK
<1> QED BY <1>1, <1>2, <1>3 DEF Producers

LEMMA CommitTypes == TypeOK /\ Commit => TypeOK'
<1> SUFFICES ASSUME TypeOK, Commit PROVE TypeOK'
  OBVIOUS
<1>1. PICK k \in 0..Len(batch) : durable' = durable \o SubSeq(batch, k + 1, Len(batch))
  BY DEF Commit
<1>2. SubSeq(batch, k + 1, Len(batch)) \in Seq(Nat) BY <1>1, SubSeqProperties DEF TypeOK
<1>3. durable' \in Seq(Nat) BY <1>1, <1>2, ConcatProperties DEF TypeOK
<1> QED BY <1>3 DEF TypeOK, Commit

LEMMA RefuseTypes == TypeOK /\ Refuse => TypeOK'
<1> SUFFICES ASSUME TypeOK, Refuse PROVE TypeOK'
  OBVIOUS
<1>1. pending' \in Seq(Nat) BY ConcatProperties DEF TypeOK, Refuse
<1>2. drain' \in {"none", "overlap", "writing", "failed"} BY DEF TypeOK, Refuse
<1> QED BY <1>1, <1>2 DEF TypeOK, Refuse

LEMMA DrainTypes ==
    ASSUME TypeOK, NEW F, DrainOrResolve(F)
    PROVE  /\ pending' \in Seq(Nat) /\ batch' \in Seq(Nat)
           /\ timer' \in BOOLEAN /\ expired' \in BOOLEAN /\ background' \in BOOLEAN
           /\ write' \in {"off", "writing", "written", "failed"}
           /\ drain' \in {"none", "overlap", "writing", "failed"}
           /\ call' \in [Flushes -> {"idle", "init", "joined", "resolved", "rejected"}]
<1>1. CASE pending # <<>>
  BY <1>1, StartWriteTypes DEF TypeOK, DrainOrResolve
<1>2. CASE pending = <<>> BY <1>2 DEF TypeOK, DrainOrResolve, Settle
<1> QED BY <1>1, <1>2

LEMMA ContinuationTypes == TypeOK /\ Continuations => TypeOK'
<1> SUFFICES ASSUME TypeOK, Continuations PROVE TypeOK'
  OBVIOUS
<1>1. CASE InitSettles
  <2>1. durable' \in Seq(Nat) BY <1>1 DEF TypeOK, InitSettles
  <2> QED BY <1>1, <2>1 DEF TypeOK, InitSettles, queueVars
<1>2. CASE Deadline
  <2>1. CASE write = "off" BY <1>2, <2>1, StartWriteTypes DEF TypeOK, Deadline
  <2>2. CASE write # "off"
    <3>1. /\ timer' \in BOOLEAN /\ expired' \in BOOLEAN
          /\ UNCHANGED <<pending, batch, write, background>>
          /\ UNCHANGED <<init, seed, produced, closed, durable, paused, automatic, drain, call, target>>
      BY <1>2, <2>2 DEF Deadline
    <3> QED BY <3>1 DEF TypeOK
  <2> QED BY <2>1, <2>2
<1>3. CASE Forget
  <2>1. automatic' \in BOOLEAN BY <1>3 DEF TypeOK, Forget
  <2> QED BY <1>3, <2>1 DEF TypeOK, Forget
<1>4. CASE Continue
  <2>1. CASE StartWrite(TRUE) BY <1>4, <2>1, StartWriteTypes DEF TypeOK, Continue
  <2>2. CASE UNCHANGED queueVars
    <3>1. automatic' \in BOOLEAN /\ UNCHANGED <<timer, expired, paused>>
          /\ UNCHANGED <<init, seed, produced, closed, durable, target>>
          /\ UNCHANGED <<pending, batch, write, background, drain, call>>
      BY <1>4, <2>2 DEF Continue, queueVars
    <3> QED BY <3>1 DEF TypeOK
  <2> QED BY <1>4, <2>1, <2>2 DEF Continue
<1>5. CASE Drain
  <2>1. paused' \in BOOLEAN BY <1>5 DEF TypeOK, Drain
  <2> QED BY <1>5, <2>1, DrainTypes DEF TypeOK, Drain
<1>6. CASE DrainFails BY <1>6 DEF TypeOK, DrainFails, Settle, queueVars
<1>7. ASSUME NEW f \in Flushes, FlushFails(f) PROVE TypeOK'
  BY <1>7 DEF TypeOK, FlushFails
<1>8. ASSUME NEW f \in Flushes, JoinBarrier(f) PROVE TypeOK'
  <2>1. CASE DrainOrResolve({f}) /\ paused' = FALSE
    BY <1>8, <2>1, DrainTypes DEF TypeOK, JoinBarrier
  <2>2. CASE ~(DrainOrResolve({f}) /\ paused' = FALSE)
    <3>1. /\ timer' \in {timer, FALSE} /\ expired' \in {expired, FALSE}
          /\ paused' \in {paused, FALSE} /\ drain' \in {drain, "overlap"}
          /\ call' = [call EXCEPT ![f] = "joined"]
          /\ UNCHANGED <<pending, batch, write, background>>
          /\ UNCHANGED <<init, seed, produced, closed, durable, automatic, target>>
      BY <1>8, <2>2, Zenon DEF JoinBarrier, queueVars
    <3>2. timer' \in BOOLEAN /\ expired' \in BOOLEAN /\ paused' \in BOOLEAN
      BY <3>1 DEF TypeOK
    <3>3. call' \in [Flushes -> {"idle", "init", "joined", "resolved", "rejected"}]
      BY <3>1 DEF TypeOK
    <3>4. drain' \in {"none", "overlap", "writing", "failed"}
      BY <3>1 DEF TypeOK
    <3> QED BY <3>1, <3>2, <3>3, <3>4, Zenon DEF TypeOK
  <2> QED BY <2>1, <2>2
<1> QED
  BY <1>1, <1>2, <1>3, <1>4, <1>5, <1>6, <1>7, <1>8, CommitTypes, RefuseTypes DEF Continuations

LEMMA InitTypes == Init => TypeOK
<1> SUFFICES ASSUME Init PROVE TypeOK
  OBVIOUS
<1>1. pending \in Seq(Nat) BY DEF Init
<1>2. produced \in 0..MaxEvents BY WriteBehindAssumption DEF Init
<1>3. timer \in BOOLEAN BY Zenon DEF Init
<1>4. /\ call \in [Flushes -> {"idle", "init", "joined", "resolved", "rejected"}]
      /\ target \in [Flushes -> Nat]
  BY DEF Init
<1>6. <<>> \in Seq(Nat) OBVIOUS
<1>7. batch \in Seq(Nat) /\ durable \in Seq(Nat) BY <1>6, Zenon DEF Init
<1>5. /\ init = "pending" /\ seed \in {0, 1} /\ drain = "none" /\ write = "off"
      /\ closed = FALSE /\ background = FALSE
      /\ expired = FALSE /\ paused = FALSE /\ automatic = FALSE
  BY DEF Init
<1> QED BY <1>1, <1>2, <1>3, <1>4, <1>5, <1>7, Zenon DEF TypeOK

LEMMA NextTypes == TypeOK /\ [Next]_vars => TypeOK'
<1> SUFFICES ASSUME TypeOK, [Next]_vars PROVE TypeOK'
  OBVIOUS
<1>1. CASE Next BY <1>1, ProducerTypes, ContinuationTypes DEF Next
<1>2. CASE UNCHANGED vars BY <1>2 DEF TypeOK, vars, queueVars
<1> QED BY <1>1, <1>2

\* Type correctness: the queue, the batch and the store stay sequences of events and the
\* controller's flags stay in range, for every set of callers and every bound.
THEOREM TypeCorrect == Spec => []TypeOK
<1> QED BY InitTypes, NextTypes, PTL DEF Spec

-----------------------------------------------------------------------------
(***************************************************************************)
(* The line of events: stored d, being written h, waiting p, n produced,   *)
(* of which initialization stores up to s that are queued as well.         *)
(***************************************************************************)

Line(d, h, p, n, s) ==
    /\ Run(d, 0) /\ Len(d) <= n
    /\ Run(h, n - Len(p) - Len(h)) /\ Run(p, n - Len(p))
    /\ Len(h) + Len(p) <= n
    /\ Len(d) + Len(h) + Len(p) \in n..(n + s)

\* A write takes everything that waits.
LEMMA LineTakes ==
    ASSUME NEW d \in Seq(Nat), NEW p \in Seq(Nat), NEW n \in Nat, NEW s \in Nat,
           Line(d, <<>>, p, n, s)
    PROVE  Line(d, p, <<>>, n, s)
<1>1. Len(p) \in Nat /\ Len(d) \in Nat /\ Len(<<>>) = 0 OBVIOUS
<1>2. Run(<<>>, n) BY DEF Run
<1>3. Run(p, n - 0 - Len(p))
  <2>1. n - Len(p) = n - 0 - Len(p) BY <1>1
  <2> QED BY <2>1 DEF Line
<1>4. n - 0 = n OBVIOUS
<1> QED BY <1>1, <1>2, <1>3, <1>4 DEF Line

\* A write that is done leaves the line, and one that is refused goes back to its head.
LEMMA LinePutsBack ==
    ASSUME NEW d \in Seq(Nat), NEW h \in Seq(Nat), NEW p \in Seq(Nat), NEW n \in Nat,
           NEW s \in Nat, Line(d, h, p, n, s)
    PROVE  /\ h \o p \in Seq(Nat)
           /\ Len(h \o p) = Len(h) + Len(p)
           /\ Run(h \o p, n - Len(h) - Len(p))
           /\ Line(d, <<>>, h \o p, n, s)
<1>1. Len(p) \in Nat /\ Len(d) \in Nat /\ Len(h) \in Nat /\ Len(<<>>) = 0 OBVIOUS
<1>2. /\ n - Len(p) - Len(h) + Len(h) = n - Len(p)
      /\ n - Len(p) - Len(h) = n - Len(h) - Len(p)
      /\ n - (Len(h) + Len(p)) = n - Len(h) - Len(p)
      /\ n - Len(p) - Len(h) \in Int
  BY <1>1
<1>3. /\ h \o p \in Seq(Nat)
      /\ Len(h \o p) = Len(h) + Len(p)
      /\ Run(h \o p, n - Len(h) - Len(p))
  BY <1>2, RunsJoin DEF Line
<1>4. \A first : Run(<<>>, first) BY DEF Run
<1>5. Run(h \o p, n - Len(h \o p)) BY <1>2, <1>3
<1>6. /\ Len(<<>>) + Len(h \o p) <= n
      /\ Len(d) + Len(<<>>) + Len(h \o p) \in n..(n + s)
  BY <1>1, <1>3 DEF Line
<1> QED BY <1>3, <1>4, <1>5, <1>6 DEF Line

\* A new event joins the end.
LEMMA LineGrows ==
    ASSUME NEW d \in Seq(Nat), NEW h \in Seq(Nat), NEW p \in Seq(Nat), NEW n \in Nat,
           NEW s \in Nat, Line(d, h, p, n, s)
    PROVE  Line(d, h, Append(p, n + 1), n + 1, s)
<1> DEFINE q == Append(p, n + 1)
<1>1. /\ q \in Seq(Nat) /\ Len(q) = Len(p) + 1 /\ Run(q, n - Len(p))
  BY RunGrows DEF Line
<1> HIDE DEF q
<1>2. Len(p) \in Nat /\ Len(d) \in Nat /\ Len(h) \in Nat OBVIOUS
<1>3. n + 1 - Len(q) = n - Len(p) /\ n + 1 - Len(q) - Len(h) = n - Len(p) - Len(h)
  BY <1>1, <1>2
<1>4. Run(h, n + 1 - Len(q) - Len(h)) /\ Run(q, n + 1 - Len(q))
  BY <1>1, <1>3 DEF Line
<1>5. /\ Len(d) <= n + 1
      /\ Len(h) + Len(q) <= n + 1
      /\ Len(d) + Len(h) + Len(q) \in (n + 1)..(n + 1 + s)
  BY <1>1, <1>2 DEF Line
<1>6. Line(d, h, q, n + 1, s) BY <1>4, <1>5 DEF Line
<1> QED BY <1>6 DEF q

\* Initialization stores the first s events, and any of them that wait stay queued.
LEMMA LineSeeds ==
    ASSUME NEW h \in Seq(Nat), NEW p \in Seq(Nat), NEW n \in Nat, NEW s \in Nat, s <= n,
           Line(<<>>, h, p, n, s)
    PROVE  /\ [i \in 1..s |-> i] \in Seq(Nat)
           /\ Len([i \in 1..s |-> i]) = s
           /\ Line([i \in 1..s |-> i], h, p, n, s)
<1> DEFINE d == [i \in 1..s |-> i]
<1>1. d \in Seq(Nat) /\ Len(d) = s OBVIOUS
<1>2. Run(d, 0) BY <1>1 DEF Run
<1> HIDE DEF d
<1>3. Len(p) \in Nat /\ Len(h) \in Nat /\ Len(<<>>) = 0 OBVIOUS
<1>4. Len(d) <= n /\ Len(d) + Len(h) + Len(p) \in n..(n + s)
  BY <1>1, <1>3 DEF Line
<1>5. Line(d, h, p, n, s) BY <1>2, <1>4 DEF Line
<1> QED BY <1>1, <1>5 DEF d

\* A batch whose first k events are stored, and whose rest continues them, is stored.
LEMMA LineStores ==
    ASSUME NEW d \in Seq(Nat), NEW h \in Seq(Nat), NEW p \in Seq(Nat), NEW n \in Nat,
           NEW s \in Nat, Line(d, h, p, n, s),
           NEW k \in 0..Len(h),
           \A i \in 1..k : h[i] <= Len(d),
           \A i \in (k + 1)..Len(h) : h[i] = Len(d) + i - k
    PROVE  /\ d \o SubSeq(h, k + 1, Len(h)) \in Seq(Nat)
           /\ Len(d) <= Len(d \o SubSeq(h, k + 1, Len(h)))
           /\ Line(d \o SubSeq(h, k + 1, Len(h)), <<>>, p, n, s)
<1> DEFINE t == SubSeq(h, k + 1, Len(h))
           e == d \o t
<1>1. Len(p) \in Nat /\ Len(d) \in Nat /\ Len(h) \in Nat /\ Len(<<>>) = 0 OBVIOUS
<1>2. /\ t \in Seq(Nat) /\ Len(t) = Len(h) - k
      /\ \A i \in 1..(Len(h) - k) : t[i] = h[k + i]
  <2>1. k + 1 \in Int /\ Len(h) \in Int BY <1>1
  <2>2. ASSUME NEW i \in (k + 1)..Len(h) PROVE h[i] \in Nat
    <3>1. i \in 1..Len(h) BY <1>1
    <3> QED BY <3>1
  <2>3. /\ t \in Seq(Nat)
        /\ Len(t) = IF k + 1 <= Len(h) THEN Len(h) - (k + 1) + 1 ELSE 0
        /\ \A i \in 1..(Len(h) - (k + 1) + 1) : t[i] = h[(k + 1) + i - 1]
    BY <2>1, <2>2, SubSeqProperties
  <2> HIDE DEF t
  <2>4. Len(t) = Len(h) - k BY <1>1, <2>3
  <2>5. ASSUME NEW i \in 1..(Len(h) - k) PROVE t[i] = h[k + i]
    <3>1. i \in 1..(Len(h) - (k + 1) + 1) /\ (k + 1) + i - 1 = k + i BY <1>1
    <3> QED BY <2>3, <3>1
  <2> QED BY <2>3, <2>4, <2>5
<1> HIDE DEF t
<1>3. Run(t, 0 + Len(d))
  <2>1. ASSUME NEW i \in 1..Len(t) PROVE t[i] = 0 + Len(d) + i
    <3>1. k + i \in (k + 1)..Len(h) BY <1>1, <1>2
    <3>2. h[k + i] = Len(d) + (k + i) - k BY <3>1
    <3>3. t[i] = h[k + i] BY <1>2
    <3>4. Len(d) + (k + i) - k = 0 + Len(d) + i BY <1>1, <1>2
    <3> QED BY <3>2, <3>3, <3>4
  <2> QED BY <2>1 DEF Run
<1>4. e \in Seq(Nat) /\ Len(e) = Len(d) + Len(h) - k /\ Run(e, 0)
  <2>2. 0 \in Int /\ Run(d, 0) BY DEF Line
  <2>1. e \in Seq(Nat) /\ Len(e) = Len(d) + Len(t) /\ Run(e, 0)
    BY <1>2, <1>3, <2>2, RunsJoin
  <2> QED BY <1>1, <1>2, <2>1
<1> HIDE DEF e
<1>5. Len(h) > 0 => h[Len(h)] = n - Len(p)
  <2>1. Len(h) > 0 => h[Len(h)] = n - Len(p) - Len(h) + Len(h)
    BY <1>1 DEF Line, Run
  <2> QED BY <1>1, <2>1
<1>6. Len(e) <= n /\ Len(e) + Len(p) \in n..(n + s)
  <2>1. /\ Len(d) <= n /\ Len(h) + Len(p) <= n
        /\ Len(d) + Len(h) + Len(p) \in n..(n + s)
    BY DEF Line
  <2>2. CASE k = Len(h)
    <3>1. Len(h) > 0 => n - Len(p) <= Len(d) BY <1>1, <1>5, <2>2
    <3> QED BY <1>1, <1>4, <2>1, <2>2, <3>1
  <2>3. CASE k < Len(h)
    <3>1. Len(h) \in (k + 1)..Len(h) /\ Len(h) > 0 BY <1>1, <2>3
    <3>2. h[Len(h)] = Len(d) + Len(h) - k BY <3>1
    <3>3. Len(d) + Len(h) - k = n - Len(p) BY <1>5, <3>1, <3>2
    <3> QED BY <1>1, <1>4, <2>1, <3>3
  <2> QED BY <1>1, <2>2, <2>3
<1>7. Run(<<>>, n - Len(p) - Len(<<>>)) /\ Run(p, n - Len(p)) /\ Len(p) <= n
  BY <1>1 DEF Line, Run
<1>8. /\ Len(<<>>) + Len(p) <= n
      /\ Len(e) + Len(<<>>) + Len(p) \in n..(n + s)
  BY <1>1, <1>4, <1>6, <1>7
<1>9. Line(e, <<>>, p, n, s) BY <1>4, <1>6, <1>7, <1>8 DEF Line
<1>10. Len(d) <= Len(e) BY <1>1, <1>4
<1> QED BY <1>4, <1>9, <1>10 DEF t, e

-----------------------------------------------------------------------------
(***************************************************************************)
(* The inductive invariant.                                                *)
(***************************************************************************)

Inv ==
    /\ TypeOK
    /\ automatic /\ write # "off" => Barrier
    /\ init = "pending" => durable = <<>>
    /\ seed <= produced
    /\ \A f \in Flushes : target[f] <= produced
    /\ Line(durable, InHand, pending, produced, seed)

LEMMA InHandType == TypeOK => InHand \in Seq(Nat)
<1>1. <<>> \in Seq(Nat) OBVIOUS
<1> QED BY <1>1, Zenon DEF TypeOK, InHand

LEMMA InvInit == Init => Inv
<1> SUFFICES ASSUME Init PROVE Inv
  OBVIOUS
<1>1. TypeOK BY InitTypes
<1>2. /\ automatic /\ write # "off" => Barrier
      /\ init = "pending" => durable = <<>>
      /\ seed <= produced
      /\ \A f \in Flushes : target[f] <= produced
  BY DEF Init
<1>3. Line(durable, InHand, pending, produced, seed)
  <2> DEFINE none == <<>>
  <2>1. /\ durable = none /\ InHand = none /\ produced = seed /\ seed \in Nat
        /\ pending = [n \in 1..seed |-> n]
    BY DEF Init, InHand
  <2>2. none \in Seq(Nat) /\ Len(none) = 0 OBVIOUS
  <2>3. pending \in Seq(Nat) /\ Len(pending) = seed BY <2>1
  <2>4. \A i \in 1..Len(pending) : pending[i] = i BY <2>1, <2>3
  <2> HIDE DEF none
  <2>5. \A first : Run(none, first) BY <2>2 DEF Run
  <2>6. Run(pending, produced - Len(pending))
    <3>1. produced - Len(pending) = 0 BY <2>1, <2>3
    <3>2. \A i \in 1..Len(pending) : pending[i] = 0 + i BY <2>3, <2>4
    <3> QED BY <3>1, <3>2 DEF Run
  <2>7. /\ Len(none) <= produced /\ Len(none) + Len(pending) <= produced
        /\ Len(none) + Len(none) + Len(pending) \in produced..(produced + seed)
    BY <2>1, <2>2, <2>3
  <2> QED BY <2>1, <2>5, <2>6, <2>7 DEF Line
<1> QED BY <1>1, <1>2, <1>3 DEF Inv

\* A write is started only when none is running, and takes the whole queue in hand.
LEMMA StartWriteMoves ==
    ASSUME Inv, write # "writing", NEW b, StartWrite(b)
    PROVE  Line(durable, InHand', pending', produced, seed)
<1>1. /\ InHand = <<>> /\ InHand' = pending /\ pending' = <<>>
  BY DEF StartWrite, InHand
<1>2. produced \in Nat /\ seed \in Nat BY WriteBehindAssumption DEF Inv, TypeOK
<1>3. Line(durable, <<>>, pending, produced, seed) BY <1>1 DEF Inv
<1>4. Line(durable, pending, <<>>, produced, seed)
  BY <1>2, <1>3, LineTakes DEF Inv, TypeOK
<1> QED BY <1>1, <1>4

\* What a step that produces and stores nothing has to keep.
LEMMA LineKept ==
    ASSUME Inv, TypeOK', Line(durable, InHand', pending', produced, seed),
           UNCHANGED <<init, seed, produced, durable>>,
           \/ UNCHANGED target
           \/ \E f \in Flushes : target' = [target EXCEPT ![f] = produced],
           automatic' /\ write' # "off" => drain' # "none"
    PROVE  Inv'
<1>1. \A f \in Flushes : target'[f] <= produced'
  <2>1. produced <= produced BY WriteBehindAssumption DEF Inv, TypeOK
  <2> QED BY <2>1 DEF Inv, TypeOK
<1>2. Line(durable, InHand, pending, produced, seed)'
  <2>1. durable' = durable /\ produced' = produced /\ seed' = seed OBVIOUS
  <2> QED BY <2>1, Zenon
<1> QED BY <1>1, <1>2 DEF Inv, Barrier

\* A step that leaves the writes alone.
LEMMA WritesAlone ==
    ASSUME Inv, TypeOK', UNCHANGED <<init, seed, produced, durable, pending, batch, write, drain>>,
           \/ UNCHANGED target
           \/ \E f \in Flushes : target' = [target EXCEPT ![f] = produced],
           automatic' => automatic
    PROVE  Inv'
<1>1. InHand' = InHand BY DEF InHand
<1>2. Line(durable, InHand', pending', produced, seed)
  <2>1. pending' = pending OBVIOUS
  <2> QED BY <1>1, <2>1 DEF Inv
<1>3. automatic' /\ write' # "off" => drain' # "none" BY DEF Inv, Barrier
<1> QED BY <1>2, <1>3, LineKept

LEMMA InvNext == Inv /\ [Next]_vars => Inv'
<1> SUFFICES ASSUME Inv, [Next]_vars PROVE Inv'
  OBVIOUS
<1>t. TypeOK /\ TypeOK' BY NextTypes DEF Inv
<1>n. produced \in Nat /\ seed \in Nat BY WriteBehindAssumption, <1>t DEF TypeOK
<1>h. /\ durable \in Seq(Nat) /\ pending \in Seq(Nat) /\ batch \in Seq(Nat)
      /\ InHand \in Seq(Nat)
  BY <1>t, InHandType DEF TypeOK
<1>l. Line(durable, InHand, pending, produced, seed) BY DEF Inv
<1>1. CASE InitSettles
  <2>1. CASE init' = "failed" /\ UNCHANGED durable
    <3>1. InHand' = InHand /\ UNCHANGED <<pending, seed, produced, durable>>
      BY <1>1, <2>1 DEF InitSettles, InHand, queueVars
    <3>2. Line(durable, InHand, pending, produced, seed)' BY <1>l, <3>1
    <3> QED BY <1>1, <1>t, <2>1, <3>2 DEF Inv, InitSettles, queueVars, Barrier
  <2>2. CASE init' = "ready" /\ durable' = [n \in 1..seed |-> n]
    <3>1. InHand' = InHand /\ UNCHANGED <<pending, seed, produced>>
      BY <1>1 DEF InitSettles, InHand, queueVars
    <3>2. durable = <<>> /\ seed <= produced BY <1>1 DEF InitSettles, Inv
    <3>3. Line(<<>>, InHand, pending, produced, seed) BY <1>l, <3>2
    <3>4. Line(durable', InHand, pending, produced, seed)
      BY <1>h, <1>n, <2>2, <3>2, <3>3, LineSeeds
    <3>5. Line(durable, InHand, pending, produced, seed)' BY <3>1, <3>4
    <3> QED BY <1>1, <1>t, <2>2, <3>5 DEF Inv, InitSettles, queueVars, Barrier
  <2> QED BY <1>1, <2>1, <2>2 DEF InitSettles
<1>2. CASE Enqueue
  <2>1. InHand' = InHand /\ UNCHANGED <<seed, durable, init, automatic, write, drain, target>>
    BY <1>2 DEF Enqueue, InHand
  <2>2. pending' = Append(pending, produced + 1) /\ produced' = produced + 1
    BY <1>2 DEF Enqueue
  <2>3. Line(durable, InHand, Append(pending, produced + 1), produced + 1, seed)
    BY <1>h, <1>l, <1>n, LineGrows
  <2>4. Line(durable, InHand, pending, produced, seed)' BY <2>1, <2>2, <2>3
  <2>5. \A f \in Flushes : target'[f] <= produced' BY <1>n, <1>t, <2>1, <2>2 DEF Inv, TypeOK
  <2>6. seed' <= produced' BY <1>n, <2>1, <2>2 DEF Inv
  <2> QED BY <1>t, <2>1, <2>4, <2>5, <2>6 DEF Inv, Barrier
<1>3. ASSUME NEW f \in Flushes, CallFlush(f) PROVE Inv'
  BY <1>3, <1>t, WritesAlone DEF CallFlush
<1>4. CASE Deadline
  <2>1. CASE write # "off"
    BY <1>4, <1>t, <2>1, WritesAlone DEF Deadline
  <2>2. CASE write = "off" /\ StartWrite(TRUE)
    <3>1. Line(durable, InHand', pending', produced, seed) BY <2>2, StartWriteMoves
    <3>2. ~automatic' BY <1>4 DEF Deadline, Quiet
    <3> QED BY <1>4, <1>t, <3>1, <3>2, LineKept DEF Deadline
  <2> QED BY <1>4, <2>1, <2>2 DEF Deadline
<1>5. CASE Commit
  <2>1. write = "writing" /\ InHand = batch /\ InHand' = <<>> BY <1>5 DEF Commit, InHand
  <2>2. PICK k \in 0..Len(batch) :
           /\ \A i \in 1..k : batch[i] <= Len(durable)
           /\ \A i \in (k + 1)..Len(batch) : batch[i] = Len(durable) + i - k
           /\ durable' = durable \o SubSeq(batch, k + 1, Len(batch))
    BY <1>5 DEF Commit
  <2>3. Line(durable, batch, pending, produced, seed) BY <1>l, <2>1
  <2>4. Line(durable', <<>>, pending, produced, seed)
    BY <1>h, <1>n, <2>2, <2>3, LineStores
  <2>5. UNCHANGED <<pending, produced, seed, init, automatic, drain, target>> BY <1>5 DEF Commit
  <2>6. Line(durable, InHand, pending, produced, seed)' BY <2>1, <2>4, <2>5
  <2>7. init' # "pending" BY <1>5 DEF Commit
  <2>8. ~automatic' BY <1>5 DEF Commit, Quiet
  <2> QED BY <1>t, <2>5, <2>6, <2>7, <2>8 DEF Inv
<1>6. CASE Refuse
  <2>1. write = "writing" /\ InHand = batch /\ InHand' = <<>> BY <1>6 DEF Refuse, InHand
  <2>2. Line(durable, batch, pending, produced, seed) BY <1>l, <2>1
  <2>3. Line(durable, <<>>, batch \o pending, produced, seed) BY <1>h, <1>n, <2>2, LinePutsBack
  <2>4. pending' = batch \o pending BY <1>6 DEF Refuse
  <2>5. Line(durable, InHand', pending', produced, seed) BY <2>1, <2>3, <2>4
  <2>6. ~automatic' BY <1>6 DEF Refuse, Quiet
  <2> QED BY <1>6, <1>t, <2>5, <2>6, LineKept DEF Refuse
<1>7. CASE Forget
  <2>1. InHand' = InHand /\ pending' = pending BY <1>7 DEF Forget, InHand
  <2>2. Line(durable, InHand', pending', produced, seed) BY <1>l, <2>1
  <2>3. write' = "off" BY <1>7 DEF Forget
  <2> QED BY <1>7, <1>t, <2>2, <2>3, LineKept DEF Forget
<1>8. CASE Continue
  <2>1. CASE UNCHANGED queueVars
    BY <1>8, <1>t, <2>1, WritesAlone DEF Continue, queueVars
  <2>2. CASE ~Barrier /\ StartWrite(TRUE)
    <3>1. write # "writing" BY <1>8, <2>2 DEF Continue, Inv
    <3>2. Line(durable, InHand', pending', produced, seed) BY <2>2, <3>1, StartWriteMoves
    <3> QED BY <1>8, <1>t, <3>2, LineKept DEF Continue
  <2> QED BY <1>8, <2>1, <2>2 DEF Continue
<1>9. ASSUME NEW F, DrainOrResolve(F), write = "off",
             UNCHANGED <<init, seed, produced, closed, durable, automatic, target>>
      PROVE  Inv'
  <2>1. CASE StartWrite(FALSE) /\ drain' = "writing"
    <3>1. Line(durable, InHand', pending', produced, seed) BY <1>9, <2>1, StartWriteMoves
    <3> QED BY <1>9, <1>t, <2>1, <3>1, LineKept
  <2>2. CASE UNCHANGED <<pending, batch, write, background>>
    <3>1. InHand' = InHand /\ pending' = pending BY <2>2 DEF InHand
    <3>2. Line(durable, InHand', pending', produced, seed) BY <1>l, <3>1
    <3>3. write' = "off" BY <1>9, <2>2
    <3> QED BY <1>9, <1>t, <3>2, <3>3, LineKept
  <2> QED BY <1>9, <2>1, <2>2 DEF DrainOrResolve
<1>10. CASE Drain BY <1>9, <1>10 DEF Drain
<1>11. CASE DrainFails
  <2>1. InHand' = InHand /\ pending' = pending BY <1>11 DEF DrainFails, InHand, queueVars
  <2>2. Line(durable, InHand', pending', produced, seed) BY <1>l, <2>1
  <2>3. write' = "off" BY <1>11 DEF DrainFails, queueVars
  <2> QED BY <1>11, <1>t, <2>2, <2>3, LineKept DEF DrainFails
<1>12. ASSUME NEW f \in Flushes, FlushFails(f) PROVE Inv'
  BY <1>12, <1>t, WritesAlone DEF FlushFails
<1>13. ASSUME NEW f \in Flushes, JoinBarrier(f) PROVE Inv'
  <2>1. CASE write = "off" /\ DrainOrResolve({f}) BY <1>9, <1>13, <2>1 DEF JoinBarrier
  <2>2. CASE UNCHANGED <<queueVars, paused, drain>>
    BY <1>13, <1>t, <2>2, WritesAlone DEF JoinBarrier, queueVars
  <2>3. CASE drain' = "overlap" /\ UNCHANGED <<pending, batch, write, background>>
    <3>1. InHand' = InHand /\ pending' = pending BY <2>3 DEF InHand
    <3>2. Line(durable, InHand', pending', produced, seed) BY <1>l, <3>1
    <3> QED BY <1>13, <1>t, <2>3, <3>2, LineKept DEF JoinBarrier
  <2> QED BY <1>13, <2>1, <2>2, <2>3 DEF JoinBarrier
<1>14. CASE UNCHANGED vars BY <1>14, <1>t, WritesAlone DEF vars, queueVars
<1> QED
  BY <1>1, <1>2, <1>3, <1>4, <1>5, <1>6, <1>7, <1>8, <1>10, <1>11, <1>12, <1>13, <1>14
  DEF Next, Producers, Continuations, Flush, Retire, Flushes

\* Nothing is lost, doubled or reordered on the way to the store, whatever writes fail or
\* overlap a barrier and however many flushes join it.
THEOREM NothingLost == Spec => []NothingLostOrReordered
<1>1. Inv => NothingLostOrReordered
  <2> SUFFICES ASSUME Inv PROVE NothingLostOrReordered
    OBVIOUS
  <2>1. /\ durable \in Seq(Nat) /\ pending \in Seq(Nat) /\ InHand \in Seq(Nat)
        /\ produced \in Nat /\ seed \in Nat
    BY InHandType, WriteBehindAssumption DEF Inv, TypeOK
  <2>2. Line(durable, InHand, pending, produced, seed) BY DEF Inv
  <2>3. /\ Queue \in Seq(Nat)
        /\ Len(Queue) = Len(InHand) + Len(pending)
        /\ Run(Queue, produced - Len(InHand) - Len(pending))
    BY <2>1, <2>2, LinePutsBack DEF Queue
  <2>4. Len(InHand) \in Nat /\ Len(pending) \in Nat /\ Len(durable) \in Nat BY <2>1
  <2>5. \A n \in DOMAIN durable : durable[n] = n BY <2>1, <2>2 DEF Line, Run
  <2>6. \A i \in DOMAIN Queue : Queue[i] = produced - Len(Queue) + i
    <3>1. produced - Len(InHand) - Len(pending) = produced - Len(Queue) BY <2>1, <2>3, <2>4
    <3>2. DOMAIN Queue = 1..Len(Queue) BY <2>3
    <3> QED BY <2>3, <3>1, <3>2 DEF Run
  <2>7. /\ Len(durable) <= produced
        /\ Len(durable) + Len(Queue) \in produced..(produced + seed)
    BY <2>1, <2>2, <2>3, <2>4 DEF Line
  <2> QED BY <2>5, <2>6, <2>7 DEF NothingLostOrReordered
<1> QED BY <1>1, InvInit, InvNext, PTL DEF Spec

-----------------------------------------------------------------------------
(***************************************************************************)
(* No event is forgotten.                                                  *)
(***************************************************************************)

\* A window that passed during a write is remembered only while that write may succeed,
\* nobody awaits a write without a barrier, and a barrier that failed has paused the rest.
Watched ==
    /\ expired => write # "failed"
    /\ write # "off" /\ ~background => Barrier
    /\ drain = "failed" => paused
    /\ NoStrandedEvents

\* Whoever starts a write leaves nothing behind.
LEMMA StartWriteWatches ==
    ASSUME NEW b \in BOOLEAN, StartWrite(b), b \/ drain' # "none", drain' # "failed" \/ paused'
    PROVE  Watched'
BY DEF StartWrite, Watched, NoStrandedEvents, Barrier

\* A step that leaves the writes alone, and what watches over the queue.
LEMMA StillWatched ==
    ASSUME Watched, UNCHANGED <<write, background, drain, paused>>,
           expired' => expired,
           pending' # <<>> /\ init' # "failed" =>
              \/ NoStrandedEvents'
              \/ /\ pending # <<>> /\ init # "failed"
                 /\ timer => timer'
                 /\ expired => expired'
                 /\ automatic => automatic'
                 /\ \A f \in Flushes : call[f] = "init" => call'[f] = "init"
    PROVE  Watched'
BY DEF Watched, NoStrandedEvents, Barrier

LEMMA WatchedNext == Inv /\ Watched /\ [Next]_vars => Watched'
<1> SUFFICES ASSUME Inv, Watched, [Next]_vars PROVE Watched'
  OBVIOUS
<1>1. CASE InitSettles
  BY <1>1, StillWatched DEF InitSettles, queueVars
<1>2. CASE Enqueue
  <2>1. CASE ~Barrier /\ paused
    <3>1. drain' # "failed" /\ timer' /\ UNCHANGED <<write, background, drain>> /\ ~expired'
      BY <1>2, <2>1 DEF Enqueue, Barrier
    <3> QED BY <3>1 DEF Watched, NoStrandedEvents, Barrier
  <2>2. CASE ~(~Barrier /\ paused)
    <3>1. /\ UNCHANGED <<write, background, drain, paused, expired, automatic, init, call>>
          /\ timer' = (timer \/ (~Barrier /\ pending = <<>>))
      BY <1>2, <2>2 DEF Enqueue
    <3>2. CASE pending = <<>> /\ ~Barrier BY <3>1, <3>2, StillWatched DEF NoStrandedEvents
    <3>3. CASE Barrier BY <3>1, <3>3, StillWatched DEF NoStrandedEvents, Barrier
    <3>4. CASE pending # <<>> BY <3>1, <3>4, StillWatched
    <3> QED BY <3>2, <3>3, <3>4
  <2> QED BY <2>1, <2>2
<1>3. ASSUME NEW f \in Flushes, CallFlush(f) PROVE Watched'
  <2>1. call'[f] = "init" BY <1>3 DEF CallFlush, Inv, TypeOK
  <2>2. NoStrandedEvents' BY <2>1 DEF NoStrandedEvents
  <2> QED BY <1>3, <2>2, StillWatched DEF CallFlush
<1>4. CASE Deadline
  <2>1. CASE write # "off" /\ UNCHANGED <<pending, batch, write, background>> /\ expired'
    <3>1. write' = "writing" BY <1>4, <2>1 DEF Deadline, Quiet
    <3> QED BY <1>4, <2>1, <3>1 DEF Deadline, Watched, NoStrandedEvents, Barrier
  <2>2. CASE StartWrite(TRUE)
    BY <1>4, <2>2, StartWriteWatches DEF Deadline, Watched
  <2> QED BY <1>4, <2>1, <2>2 DEF Deadline
<1>5. CASE Commit
  <2>1. write = "writing" /\ write' = "written"
        /\ UNCHANGED <<pending, init, background, timer, expired, paused, automatic, drain, call>>
    BY <1>5 DEF Commit
  <2> QED BY <2>1 DEF Watched, NoStrandedEvents, Barrier
<1>6. CASE Refuse
  <2>1. write = "writing" /\ paused' /\ ~expired' /\ background' = background
        /\ drain' = IF background THEN drain ELSE "failed"
    BY <1>6 DEF Refuse
  <2> QED BY <2>1 DEF Watched, NoStrandedEvents, Barrier
<1>7. CASE Forget
  <2>1. write # "off" /\ write' = "off"
        /\ automatic' = (automatic \/ (background /\ write = "written"))
        /\ UNCHANGED <<pending, init, background, timer, expired, paused, drain, call>>
    BY <1>7 DEF Forget
  <2>2. write \in {"written", "failed"} BY <1>7 DEF Forget
  <2> QED BY <2>1, <2>2 DEF Watched, NoStrandedEvents, Barrier
<1>8. CASE Continue
  <2>1. CASE ~Barrier /\ StartWrite(TRUE)
    BY <1>8, <2>1, StartWriteWatches DEF Continue, Watched, Barrier
  <2>2. CASE (Barrier \/ pending = <<>> \/ ~expired) /\ UNCHANGED queueVars
    <3>1. UNCHANGED <<pending, write, background, timer, expired, init, paused, drain, call>>
      BY <1>8, <2>2 DEF Continue, queueVars
    <3> QED BY <2>2, <3>1 DEF Watched, NoStrandedEvents, Barrier
  <2> QED BY <1>8, <2>1, <2>2 DEF Continue
<1>9. ASSUME NEW F, DrainOrResolve(F), write = "off" PROVE Watched'
  <2>1. CASE StartWrite(FALSE) /\ drain' = "writing"
    BY <2>1, StartWriteWatches
  <2>2. CASE pending = <<>> /\ drain' = "none" /\ UNCHANGED <<pending, write>> /\ ~expired'
    BY <1>9, <2>2 DEF Watched, NoStrandedEvents
  <2> QED BY <1>9, <2>1, <2>2 DEF DrainOrResolve, Settle
<1>10. CASE Drain BY <1>9, <1>10 DEF Drain
<1>11. CASE DrainFails
  <2>1. drain = "failed" /\ drain' = "none" /\ write' = "off"
        /\ UNCHANGED <<paused, expired>>
    BY <1>11 DEF DrainFails, Settle, queueVars
  <2> QED BY <2>1 DEF Watched, NoStrandedEvents
<1>12. ASSUME NEW f \in Flushes, FlushFails(f) PROVE Watched'
  BY <1>12, StillWatched DEF FlushFails
<1>13. ASSUME NEW f \in Flushes, JoinBarrier(f) PROVE Watched'
  <2>1. CASE write = "off" /\ DrainOrResolve({f}) BY <1>9, <2>1
  <2>2. CASE Barrier /\ UNCHANGED <<queueVars, paused, drain>>
    BY <1>13, <2>2, StillWatched DEF JoinBarrier, queueVars, NoStrandedEvents, Barrier
  <2>3. CASE drain' = "overlap" /\ ~expired'
    BY <2>3 DEF Watched, NoStrandedEvents, Barrier
  <2> QED BY <1>13, <2>1, <2>2, <2>3 DEF JoinBarrier
<1>14. CASE UNCHANGED vars BY <1>14, StillWatched DEF vars, queueVars
<1> QED
  BY <1>1, <1>2, <1>3, <1>4, <1>5, <1>6, <1>7, <1>8, <1>10, <1>11, <1>12, <1>13, <1>14
  DEF Next, Producers, Continuations, Flush, Retire, Flushes

\* No event is forgotten: while some wait, a window, a write whose window passed, a barrier
\* or a flush will take them, unless a failure paused automatic writes (onDeadline,
\* continueAutomatic, requeue, drainBarrier).
THEOREM NothingIsStranded == Spec => []NoStrandedEvents
<1>1. Init => Watched
  <2> SUFFICES ASSUME Init PROVE Watched
    OBVIOUS
  <2>1. /\ expired = FALSE /\ write = "off" /\ drain = "none" /\ timer = (seed = 1)
        /\ pending = [n \in 1..seed |-> n] /\ seed \in {0, 1}
    BY DEF Init
  <2>2. seed = 0 => pending = <<>> BY <2>1
  <2> QED BY <2>1, <2>2 DEF Watched, NoStrandedEvents
<1>2. Watched => NoStrandedEvents BY DEF Watched
<1> QED BY <1>1, <1>2, InvInit, InvNext, WatchedNext, PTL DEF Spec

-----------------------------------------------------------------------------
(***************************************************************************)
(* The controller implements DurableLog.                                   *)
(***************************************************************************)

\* Where a flush is, as its caller sees it.
Seen(c) == IF c \in {"init", "joined"} THEN "pending" ELSE c
SeenCall == [f \in Flushes |-> Seen(call[f])]

\* A barrier that settles answers the flushes that joined it.
LEMMA BarrierAnswers ==
    ASSUME NEW F \in SUBSET Flushes, NEW how, how \in {"resolved", "rejected"},
           \A f \in F : call[f] \in {"init", "joined"},
           Settle(F, how)
    PROVE  /\ \A f \in F : SeenCall[f] = "pending"
           /\ SeenCall' = [f \in Flushes |-> IF f \in F THEN how ELSE SeenCall[f]]
BY DEF Settle, SeenCall, Seen

\* A barrier that has more to write looks the same to every caller.
LEMMA BarrierGoesOn ==
    ASSUME NEW F \in SUBSET Flushes, \A f \in F : call[f] \in {"init", "joined"},
           call' = [f \in Flushes |-> IF f \in F THEN "joined" ELSE call[f]]
    PROVE  SeenCall' = SeenCall
BY DEF SeenCall, Seen

\* When nothing waits and nothing is written, everything produced is stored.
LEMMA DrainedIsStored ==
    ASSUME Inv, write = "off", pending = <<>>
    PROVE  \A f \in Flushes : target[f] <= Len(durable)
<1>1. Len(durable) + Len(<<>>) + Len(<<>>) \in produced..(produced + seed)
  BY DEF Inv, Line, InHand
<1>2. produced \in Nat /\ seed \in Nat /\ Len(durable) \in Nat /\ Len(<<>>) = 0
  BY WriteBehindAssumption DEF Inv, TypeOK
<1>3. produced <= Len(durable) BY <1>1, <1>2
<1> QED BY <1>2, <1>3 DEF Inv, TypeOK

\* A step of a draining barrier is an answer to the flushes F that wait for it, or nothing.
LEMMA DrainImplements ==
    ASSUME Inv, NEW F \in SUBSET Flushes, \A f \in F : call[f] \in {"init", "joined"},
           write = "off", DrainOrResolve(F), UNCHANGED <<produced, durable, target>>
    PROVE  [Promise!Next]_(Promise!vars)
<1>1. CASE pending # <<>>
  <2>1. SeenCall' = SeenCall BY <1>1, BarrierGoesOn DEF DrainOrResolve
  <2> QED BY <2>1 DEF Promise!vars, SeenCall, Seen
<1>2. CASE pending = <<>>
  <2>1. Settle(F, "resolved") BY <1>2 DEF DrainOrResolve
  <2>2. /\ \A f \in F : SeenCall[f] = "pending"
        /\ SeenCall' = [f \in Flushes |-> IF f \in F THEN "resolved" ELSE SeenCall[f]]
    BY <2>1, BarrierAnswers
  <2>3. \A f \in F : target[f] <= Len(durable) BY <1>2, DrainedIsStored
  <2>4. Promise!Resolve(F)
    BY <2>2, <2>3 DEF Promise!Resolve, Promise!Answer, SeenCall, Seen
  <2> QED BY <2>4 DEF Promise!Next
<1> QED BY <1>1, <1>2

LEMMA StepImplements == Inv /\ Inv' /\ [Next]_vars => [Promise!Next]_(Promise!vars)
<1> SUFFICES ASSUME Inv, Inv', [Next]_vars PROVE [Promise!Next]_(Promise!vars)
  OBVIOUS
<1>n. /\ produced \in Nat /\ produced' \in Nat
      /\ Len(durable) \in Nat /\ Len(durable') \in Nat
      /\ Len(durable) <= produced /\ Len(durable') <= produced'
      /\ durable \in Seq(Nat) /\ batch \in Seq(Nat) /\ seed \in Nat
  <2>1. TypeOK /\ TypeOK' BY DEF Inv
  <2>2. /\ produced \in 0..MaxEvents /\ produced' \in 0..MaxEvents
        /\ durable \in Seq(Nat) /\ durable' \in Seq(Nat)
        /\ batch \in Seq(Nat) /\ seed \in {0, 1}
    BY <2>1 DEF TypeOK
  <2>3. Len(durable) <= produced BY DEF Inv, Line
  <2>4. Len(durable') <= produced' BY DEF Inv, Line
  <2> QED BY <2>2, <2>3, <2>4, WriteBehindAssumption
<1>s. ASSUME UNCHANGED <<produced, durable, call, target>> PROVE UNCHANGED Promise!vars
  BY <1>s DEF Promise!vars
<1>g. ASSUME UNCHANGED <<produced, call, target>>, Len(durable) <= Len(durable')
      PROVE  Promise!Store
  BY <1>n, <1>g DEF Promise!Store
<1>1. CASE InitSettles
  <2>1. Len(durable) <= Len(durable')
    <3>1. Len(<<>>) = 0 OBVIOUS
    <3> QED BY <1>1, <1>n, <3>1 DEF InitSettles, Inv
  <2> QED BY <1>1, <1>g, <2>1 DEF InitSettles, Promise!Next
<1>2. CASE Enqueue BY <1>2 DEF Enqueue, Promise!Next, Promise!Produce
<1>3. ASSUME NEW f \in Flushes, CallFlush(f) PROVE Promise!CallFlush(f)
  BY <1>3 DEF CallFlush, Promise!CallFlush, Inv, TypeOK
<1>4. CASE Deadline BY <1>4, <1>s DEF Deadline
<1>5. CASE Commit
  <2>1. PICK k \in 0..Len(batch) :
           /\ \A i \in 1..k : batch[i] <= Len(durable)
           /\ \A i \in (k + 1)..Len(batch) : batch[i] = Len(durable) + i - k
           /\ durable' = durable \o SubSeq(batch, k + 1, Len(batch))
    BY <1>5 DEF Commit
  <2>2. Line(durable, batch, pending, produced, seed) BY <1>5 DEF Inv, InHand, Commit
  <2>3. Len(durable) <= Len(durable')
    BY <1>n, <2>1, <2>2, LineStores DEF Inv, TypeOK
  <2> QED BY <1>5, <1>g, <2>3 DEF Commit, Promise!Next
<1>6. CASE Refuse BY <1>6, <1>s DEF Refuse
<1>7. CASE Forget BY <1>7, <1>s DEF Forget
<1>8. CASE Continue BY <1>8, <1>s DEF Continue
<1>9. Joined \in SUBSET Flushes /\ \A f \in Joined : call[f] \in {"init", "joined"}
  BY DEF Joined
<1>10. CASE Drain BY <1>9, <1>10, DrainImplements DEF Drain
<1>11. CASE DrainFails
  <2>1. PICK F \in SUBSET Flushes : F = Joined BY <1>9
  <2>2. /\ \A f \in F : SeenCall[f] = "pending"
        /\ SeenCall' = [f \in Flushes |-> IF f \in F THEN "rejected" ELSE SeenCall[f]]
    BY <1>9, <1>11, <2>1, BarrierAnswers DEF DrainFails
  <2>3. Promise!Reject(F)
    BY <1>11, <2>2 DEF DrainFails, Promise!Reject, Promise!Answer, SeenCall, Seen
  <2> QED BY <2>3 DEF Promise!Next
<1>12. ASSUME NEW f \in Flushes, FlushFails(f) PROVE Promise!Reject({f})
  BY <1>12 DEF FlushFails, Promise!Reject, Promise!Answer, Inv, TypeOK
<1>13. ASSUME NEW f \in Flushes, JoinBarrier(f) PROVE [Promise!Next]_(Promise!vars)
  <2>1. {f} \in SUBSET Flushes /\ \A g \in {f} : call[g] \in {"init", "joined"}
    BY <1>13 DEF JoinBarrier
  <2>2. CASE write = "off" /\ DrainOrResolve({f})
    BY <1>13, <2>1, <2>2, DrainImplements DEF JoinBarrier
  <2>3. CASE call' = [call EXCEPT ![f] = "joined"]
    <3>1. SeenCall' = SeenCall BY <1>13, <2>3 DEF JoinBarrier, SeenCall, Seen, Inv, TypeOK
    <3> QED BY <1>13, <3>1 DEF JoinBarrier, Promise!vars, SeenCall, Seen
  <2> QED BY <1>13, <2>2, <2>3 DEF JoinBarrier
<1>14. CASE UNCHANGED vars BY <1>14, <1>s DEF vars
<1>15. CASE \E f \in Flushes : CallFlush(f) BY <1>3, <1>15 DEF Promise!Next
<1>16. CASE \E f \in Flushes : FlushFails(f)
  <2>1. PICK f \in Flushes : FlushFails(f) BY <1>16
  <2>2. {f} \in SUBSET Flushes /\ Promise!Reject({f}) BY <1>12, <2>1
  <2> QED BY <2>2 DEF Promise!Next
<1> QED
  BY <1>1, <1>2, <1>4, <1>5, <1>6, <1>7, <1>8, <1>10, <1>11, <1>13, <1>14, <1>15, <1>16
  DEF Next, Producers, Continuations, Flush, Retire, Flushes, Promise!Next

\* Every behaviour of the write path is one that DurableLog allows: a flush that resolves,
\* whichever barrier it joined, stands for everything produced before it was called.
THEOREM KeepsPromise == Spec => ImplementsDurableLog
<1>1. Init => Promise!Init
  BY WriteBehindAssumption DEF Init, Promise!Init
<1> QED
  BY <1>1, InvInit, InvNext, StepImplements, PTL DEF Spec, ImplementsDurableLog, Promise!Spec
=============================================================================
