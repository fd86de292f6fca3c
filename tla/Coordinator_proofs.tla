-------------------------- MODULE Coordinator_proofs --------------------------
(***************************************************************************)
(* Theorems about Coordinator, for any number of lifecycles, calls, events *)
(* and reloads: the cursor of the bookkeeping is the length of the log,    *)
(* what a call reserved is the log as it is stored, nobody waits for what  *)
(* will not come, the log is a beginning of its owner's history, and no    *)
(* repair closes the turn of a session that goes on.                       *)
(*                                                                         *)
(* The first invariant, Inv, is about types, the chain and the cursor.     *)
(* Waiting, which says for everybody who waits where his answer is to      *)
(* come from, and Histories, which relates the log to the histories of the *)
(* lifecycles, are inductive given Inv.                                    *)
(***************************************************************************)
EXTENDS Coordinator, SequenceTheorems, TLAPS

-----------------------------------------------------------------------------
(***************************************************************************)
(* The inductive invariant.                                                *)
(***************************************************************************)

Initializations == {"created", "suffix"}
OfSessions == Initializations \cup {"write", "retire"}

\* What waits in the chain for a lifecycle: one initialization while it is pending, one write
\* that is under way, or its retirement.
SessionsQueueOnce ==
    /\ \A i \in DOMAIN chain :
         /\ chain[i].op \in OfSessions => chain[i].of \in Lifecycles
         /\ chain[i].op \in Initializations => init[chain[i].of] = "pending"
         /\ chain[i].op = "write" => /\ init[chain[i].of] = "ready"
                                     /\ writing[chain[i].of] # "no"
                                     /\ batch[chain[i].of] <= Len(events[chain[i].of])
         /\ chain[i].op = "retire" => /\ init[chain[i].of] = "ready"
                                      /\ writing[chain[i].of] = "no"
                                      /\ retiring[chain[i].of] = "queued"
    /\ \A i, j \in DOMAIN chain :
         /\ i # j
         /\ \/ chain[i].op \in Initializations /\ chain[j].op \in Initializations
            \/ chain[i].op = chain[j].op /\ chain[i].op \in {"write", "retire"}
         => chain[i].of # chain[j].of
    /\ \A s \in Lifecycles : /\ sent[s] <= Len(events[s])
                             /\ writing[s] = "barrier" => retiring[s] # "no"

\* Nobody is initialized behind the lifecycle that the store holds.
HolderIsLast ==
    \A s \in Lifecycles : holder = s =>
        /\ init[s] # "none" /\ retiring[s] = "no"
        /\ init[s] = "pending" =>
             \E i \in DOMAIN chain :
                 /\ chain[i].op \in Initializations /\ chain[i].of = s
                 /\ \A j \in DOMAIN chain : j > i => chain[j].op \notin Initializations
        /\ init[s] # "pending" =>
             \A i \in DOMAIN chain : chain[i].op \notin Initializations

\* A lifecycle that has something to store, or may have, owns the identity.
WorkersOwn ==
    \A s \in Lifecycles :
        init[s] = "ready" /\ (holder = s \/ HasWork(s)) => state.owner = s

\* The cursor is exact; an identity without owner is balanced.
Exact ==
    /\ state.owner # "none" => state.cursor = Len(log) /\ ~torn
    /\ state.owner = Nobody => ~Open(log)
    /\ torn => log # <<>>
    /\ running => chain # <<>>
    /\ chain # <<>> /\ running /\ Head(chain).op = "append" => state.owner # "none"

\* The first events of a restored lifecycle still fit behind the log.
SuffixesFit ==
    \A i \in DOMAIN chain : chain[i].op = "suffix" =>
        /\ \A j \in DOMAIN chain : chain[j].op # "append"
        /\ state.owner = chain[i].of => state.cursor <= sent[chain[i].of]

\* What a call does is of its kind.
KindsFit ==
    /\ \A c \in Calls : /\ call[c] = "join" => kind[c] # "append"
                        /\ call[c] = "await" => kind[c] \in {"prepare", "load"}
                        /\ call[c] = "check" => kind[c] = "inspect"
    /\ \A i \in DOMAIN chain :
         /\ chain[i].op \notin OfSessions => chain[i].of \in Calls
         /\ chain[i].op = "commit" => kind[chain[i].of] \in {"prepare", "load"}
         /\ chain[i].op = "current" => kind[chain[i].of] = "inspect"
         /\ chain[i].op = "append" => kind[chain[i].of] = "append"

\* Behind a commit that can still give a reservation nothing waits that would spoil it.
CommitsAreAlone ==
    /\ \A i \in DOMAIN chain : chain[i].op = "commit" =>
         /\ call[chain[i].of] \in {"queued", "rejected"}
         /\ Mine(chain[i].of) =>
              \A j \in DOMAIN chain :
                  j > i => chain[j].op \notin Initializations \cup {"append"}
    /\ \A i, j \in DOMAIN chain :
         i # j /\ chain[i].op = "commit" /\ chain[j].op = "commit" => chain[i].of # chain[j].of
    /\ \A c \in Calls : Mine(c) =>
         /\ kind[c] \in {"prepare", "load"} /\ entry.source = source[c]
         /\ call[c] = IF entry.phase = "reserved" THEN "reserved" ELSE "queued"

\* A reservation is of the log, without owner, and nothing waits that would change that.
ReservedAlone ==
    \A c \in Calls : call[c] = "reserved" =>
        /\ entry # NoEntry /\ entry.phase = "reserved" /\ entry.by = c
        /\ entry.source = Stored /\ ~torn /\ ~Open(log)
        /\ state = OwnedBy(Nobody, Len(log), TRUE)
        /\ \A i \in DOMAIN chain : chain[i].op \notin Initializations \cup {"append"}

Inv == /\ TypeOK /\ SessionsQueueOnce /\ HolderIsLast /\ WorkersOwn /\ Exact
       /\ SuffixesFit /\ KindsFit /\ CommitsAreAlone /\ ReservedAlone

-----------------------------------------------------------------------------
(***************************************************************************)
(* Logs and the chain.                                                     *)
(***************************************************************************)

\* What is not about turns leaves a log as balanced as it was.
LEMMA NoteKeepsBalance ==
    ASSUME NEW l \in Seq(Events), NEW e \in Events, e.what = "note", ~Open(l)
    PROVE  ~Open(Append(l, e))
<1> DEFINE m == Append(l, e)
<1>1. /\ DOMAIN l = 1 .. Len(l) /\ DOMAIN m = 1 .. Len(l) + 1
      /\ \A i \in 1 .. Len(l) : m[i] = l[i]
      /\ m[Len(l) + 1] = e /\ Len(l) \in Nat
  OBVIOUS
<1> HIDE DEF m
<1> SUFFICES ASSUME Open(m) PROVE FALSE
  BY DEF m
<1>2. PICK i \in DOMAIN m : m[i].what = "start" /\ \A j \in DOMAIN m : j > i => m[j].what # "end"
  BY DEF Open
<1>3. i \in DOMAIN l /\ l[i].what = "start"
  BY <1>1, <1>2
<1>4. PICK j \in DOMAIN l : j > i /\ l[j].what = "end"
  BY <1>3 DEF Open
<1>5. QED
  BY <1>1, <1>2, <1>4

\* A log that was closed is balanced.
LEMMA BalancedIsBalanced ==
    ASSUME NEW l \in Seq(Events)
    PROVE  /\ Balanced(l) \in Seq(Events) /\ ~Open(Balanced(l))
           /\ ~Open(l) => Balanced(l) = l
           /\ l # <<>> => Balanced(l) # <<>>
<1> DEFINE e == Event(Nobody, "end")
           m == Append(l, e)
<1>1. e \in Events /\ e.what = "end"
  BY DEF Event, Events
<1> HIDE DEF e
<1>2. /\ m \in Seq(Events) /\ m # <<>>
      /\ DOMAIN m = 1 .. Len(l) + 1 /\ m[Len(l) + 1] = e
      /\ \A i \in 1 .. Len(l) : m[i] = l[i]
      /\ Len(l) \in Nat
  BY <1>1
<1> HIDE DEF m
<1>3. ~Open(m)
  <2> SUFFICES ASSUME NEW i \in DOMAIN m, m[i].what = "start",
                      \A j \in DOMAIN m : j > i => m[j].what # "end"
               PROVE  FALSE
    BY DEF Open
  <2>1. i # Len(l) + 1
    BY <1>1, <1>2
  <2>2. QED
    BY <1>1, <1>2, <2>1
<1>4. Balanced(l) = IF Open(l) THEN m ELSE l
  BY DEF Balanced, e, m
<1>5. QED
  BY <1>2, <1>3, <1>4

\* A link is added behind the others.
LEMMA EnqueueAdds ==
    ASSUME chain \in Seq(Links), NEW op, NEW of, Enqueue(op, of)
    PROVE  /\ DOMAIN chain = 1 .. Len(chain) /\ Len(chain) \in Nat
           /\ DOMAIN chain' = 1 .. Len(chain) + 1
           /\ \A i \in 1 .. Len(chain) : chain'[i] = chain[i]
           /\ chain'[Len(chain) + 1].op = op /\ chain'[Len(chain) + 1].of = of
           /\ chain' # <<>>
           /\ chain # <<>> => Head(chain') = Head(chain)
           /\ chain = <<>> => Head(chain').op = op
BY DEF Enqueue

\* The first link is taken away.
LEMMA EndsRemoves ==
    ASSUME chain \in Seq(Links), NEW op, NEW of, AtFront(op, of), Ends
    PROVE  /\ DOMAIN chain = 1 .. Len(chain) /\ Len(chain) \in Nat \ {0}
           /\ DOMAIN chain' = 1 .. Len(chain) - 1
           /\ \A i \in 1 .. Len(chain) - 1 : chain'[i] = chain[i + 1]
           /\ chain[1].op = op /\ chain[1].of = of
           /\ ~running'
BY DEF Ends, AtFront

-----------------------------------------------------------------------------
(***************************************************************************)
(* Types.                                                                  *)
(***************************************************************************)

LEMMA EnqueueIsTyped ==
    ASSUME TypeOK, NEW op \in Operations, NEW of \in Lifecycles \cup Calls, Enqueue(op, of)
    PROVE  chain' \in Seq(Links)
<1>1. [op |-> op, of |-> of] \in Links
  BY DEF Links
<1>2. QED
  BY <1>1 DEF TypeOK, Enqueue

LEMMA EndsIsTyped ==
    ASSUME TypeOK, NEW op, NEW of, AtFront(op, of), Ends
    PROVE  chain' \in Seq(Links) /\ running' \in BOOLEAN
<1>1. chain \in Seq(Links) /\ chain # <<>>
  BY DEF TypeOK, AtFront
<1>2. QED
  BY <1>1, HeadTailProperties DEF Ends

LEMMA RemovesIsTyped ==
    ASSUME TypeOK, NEW c, NEW p \in Places, Removes(c, p)
    PROVE  call' \in [Calls -> Places] /\ entry' = NoEntry
BY DEF TypeOK, Places, Removes

LEMMA GoesIsTyped ==
    ASSUME TypeOK, NEW c, NEW p \in Places, Goes(c, p)
    PROVE  call' \in [Calls -> Places]
BY DEF TypeOK, Places, Goes

LEMMA SettlesIsTyped ==
    ASSUME TypeOK, NEW s \in Lifecycles, NEW p \in {"done", "failed"}, Settles(s, p)
    PROVE  /\ call' \in [Calls -> Places] /\ retirement' \in Lifecycles \cup {Nobody}
           /\ retiring' \in [Lifecycles -> {"no", "flushing", "queued", "done", "failed"}]
BY DEF TypeOK, Places, Settles

\* Lifecycles are published, produce, write and leave.
LEMMA LifecyclesKeepTypes ==
    ASSUME TypeOK, NEW s \in Lifecycles,
           CreateFresh(s) \/ Produce(s) \/ StartWrite(s) \/ Dispose(s) \/ Flushed(s)
    PROVE  TypeOK'
<1> USE CoordinatorAssumption
<1>1. \A w \in {"start", "end", "note"} : Event(s, w) \in Events
  BY DEF Event, Events
<1>2. CASE CreateFresh(s)
  <2>1. PICK history \in {<<>>, <<Event(s, "note")>>} : Published(s, history)
    BY <1>2 DEF CreateFresh
  <2>2. history \in Seq(Events)
    <3>1. <<Event(s, "note")>> \in Seq(Events) /\ <<>> \in Seq(Events)
      BY <1>1
    <3>2. QED
      BY <3>1
  <2>3. chain' \in Seq(Links)
    BY <1>2, EnqueueIsTyped DEF CreateFresh, Operations
  <2>4. QED
    BY <1>2, <2>1, <2>2, <2>3 DEF TypeOK, CreateFresh, Published, logVars, callVars
<1>3. CASE Produce(s)
  <2>1. Append(events[s], Event(s, IF Open(events[s]) THEN "end" ELSE "start")) \in Seq(Events)
    BY <1>1 DEF TypeOK
  <2>2. events' \in [Lifecycles -> Seq(Events)]
    BY <1>3, <2>1 DEF Produce, TypeOK
  <2>3. QED
    BY <1>3, <2>2 DEF TypeOK, Produce, logVars, callVars
<1>4. CASE StartWrite(s)
  <2>1. chain' \in Seq(Links)
    BY <1>4, EnqueueIsTyped DEF StartWrite, Operations
  <2>2. Len(events[s]) \in Nat
    BY DEF TypeOK
  <2>3. QED
    BY <1>4, <2>1, <2>2 DEF TypeOK, StartWrite, logVars, callVars
<1>5. CASE Dispose(s)
  BY <1>5 DEF TypeOK, Dispose, logVars, callVars
<1>6. CASE Flushed(s)
  <2>1. chain' \in Seq(Links)
    <3>1. CASE UNCHANGED chain
      BY <3>1 DEF TypeOK, Links
    <3>2. CASE Enqueue("retire", s)
      BY <3>2, EnqueueIsTyped DEF Operations
    <3>3. QED
      BY <1>6, <3>1, <3>2 DEF Flushed
  <2>2. /\ call' \in [Calls -> Places] /\ retirement' \in Lifecycles \cup {Nobody}
        /\ retiring' \in [Lifecycles -> {"no", "flushing", "queued", "done", "failed"}]
    <3>1. CASE Settles(s, "failed")
      BY <3>1, SettlesIsTyped
    <3>2. CASE retiring' = [retiring EXCEPT ![s] = "queued"] /\ UNCHANGED <<retirement, call>>
      BY <3>2 DEF TypeOK
    <3>3. QED
      BY <1>6, <3>1, <3>2 DEF Flushed
  <2>3. QED
    BY <1>6, <2>1, <2>2 DEF TypeOK, Flushed, logVars, callVars
<1>7. QED
  BY <1>2, <1>3, <1>4, <1>5, <1>6

\* A landing continues the log and takes the identity.
LEMMA LandsIsTyped ==
    ASSUME TypeOK, NEW s \in Lifecycles, NEW cursor \in Nat, NEW upto \in Nat,
           upto <= Len(events[s]), Lands(s, cursor, upto)
    PROVE  /\ log' \in Seq(Events) /\ state' \in States /\ entry' \in Entries
           /\ call' \in [Calls -> Places]
<1>1. SubSeq(events[s], cursor + 1, upto) \in Seq(Events)
  <2>1. events[s] \in Seq(Events) /\ Len(events[s]) \in Nat
    BY DEF TypeOK
  <2>2. \A i \in cursor + 1 .. upto : events[s][i] \in Events
    BY <2>1
  <2>3. QED
    BY <2>2, SubSeqProperties
<1>2. log' \in Seq(Events)
  BY <1>1 DEF Lands, TypeOK
<1>3. state' \in States
  BY DEF Lands, States, OwnedBy
<1>4. QED
  BY <1>2, <1>3, RemovesIsTyped DEF Lands, Invalidates, Entries, Places

LEMMA TakesOwnershipIsTyped ==
    ASSUME TypeOK, NEW s \in Lifecycles, NEW cursor \in Nat, NEW materialized \in BOOLEAN,
           sent[s] <= Len(events[s]), TakesOwnership(s, cursor, materialized)
    PROVE  /\ log' \in Seq(Events) /\ state' \in States /\ entry' \in Entries
           /\ call' \in [Calls -> Places]
           /\ init' \in [Lifecycles -> {"none", "pending", "ready", "failed"}]
<1>1. sent[s] \in Nat
  BY DEF TypeOK
<1>2. OwnedBy(s, cursor, materialized) \in States
  BY DEF States, OwnedBy
<1>3. CASE Lands(s, cursor, sent[s]) /\ init' = [init EXCEPT ![s] = "ready"]
  BY <1>1, <1>3, LandsIsTyped DEF TypeOK
<1>4. CASE /\ init' \in {[init EXCEPT ![s] = "ready"], [init EXCEPT ![s] = "failed"]}
           /\ state' = OwnedBy(s, cursor, materialized)
           /\ UNCHANGED <<log, entry, call>>
  BY <1>2, <1>4 DEF TypeOK
<1>5. QED
  BY <1>3, <1>4 DEF TakesOwnership

\* The operations of sessions in the chain.
LEMMA SessionOperationsKeepTypes ==
    ASSUME TypeOK, NEW s \in Lifecycles, SessionsQueueOnce, SessionOperation(s)
    PROVE  TypeOK'
<1> USE CoordinatorAssumption
<1>1. sent[s] <= Len(events[s]) /\ sent[s] \in Nat
  BY DEF SessionsQueueOnce, TypeOK
<1>2. chain' \in Seq(Links) /\ running' \in BOOLEAN
  <2>1. CASE WriteBegins(s)
    BY <2>1 DEF WriteBegins, Begins, TypeOK
  <2>2. CASE ~WriteBegins(s)
    BY <2>2, EndsIsTyped DEF SessionOperation, Created, Suffix, WriteLands, WriteFails, Retire,
       AtHead, Running
  <2>3. QED
    BY <2>1, <2>2
<1>3. CASE Created(s)
  <2>1. /\ log' \in Seq(Events) /\ state' \in States /\ entry' \in Entries
        /\ call' \in [Calls -> Places]
        /\ init' \in [Lifecycles -> {"none", "pending", "ready", "failed"}]
    <3>1. NoState \in States
      BY DEF States
    <3>2. state.owner \notin {"none"} => state.cursor \in Nat /\ state.materialized \in BOOLEAN
      BY DEF States, TypeOK, NoState
    <3>3. Len(log) \in Nat
      BY DEF TypeOK
    <3>4. CASE \E cursor \in Nat, materialized \in BOOLEAN : TakesOwnership(s, cursor, materialized)
      BY <1>1, <3>4, TakesOwnershipIsTyped
    <3>5. CASE /\ init' = [init EXCEPT ![s] = "failed"]
               /\ state' = IF Abandoned THEN NoState ELSE state
               /\ UNCHANGED <<log, entry, call>>
      BY <3>1, <3>5 DEF TypeOK
    <3>6. state.owner = Nobody => state.owner # "none"
      OBVIOUS
    <3>7. QED
      BY <1>3, <3>2, <3>3, <3>4, <3>5, <3>6 DEF Created
  <2>2. torn' \in BOOLEAN
    BY <1>3 DEF Created, TypeOK
  <2>3. QED
    BY <1>2, <1>3, <2>1, <2>2 DEF TypeOK, Created, callVars
<1>4. CASE Suffix(s)
  <2>1. /\ log' \in Seq(Events) /\ state' \in States /\ entry' \in Entries
        /\ call' \in [Calls -> Places]
        /\ init' \in [Lifecycles -> {"none", "pending", "ready", "failed"}]
    <3>1. CASE state = OwnedBy(s, state.cursor, state.materialized) /\ Lands(s, state.cursor, sent[s])
      <4>1. state.cursor \in Nat
        BY <3>1 DEF States, TypeOK, NoState
      <4>2. QED
        BY <1>1, <1>4, <3>1, <4>1, LandsIsTyped DEF Suffix, TypeOK
    <3>2. CASE init' = [init EXCEPT ![s] = "failed"] /\ UNCHANGED <<log, state, entry, call>>
      BY <3>2 DEF TypeOK
    <3>3. QED
      BY <1>4, <3>1, <3>2 DEF Suffix
  <2>2. QED
    BY <1>2, <1>4, <2>1 DEF TypeOK, Suffix, callVars
<1>5. CASE WriteBegins(s)
  BY <1>2, <1>5 DEF TypeOK, WriteBegins, lifeVars, logVars, callVars
<1>6. CASE WriteLands(s)
  <2>1. batch[s] \in Nat /\ batch[s] <= Len(events[s])
    <3>1. 1 \in DOMAIN chain /\ chain[1].op = "write" /\ chain[1].of = s
      BY <1>6, EndsRemoves DEF WriteLands, Running, TypeOK
    <3>2. QED
      BY <3>1 DEF SessionsQueueOnce, TypeOK
  <2>2. /\ log' \in Seq(Events) /\ state' \in States /\ entry' \in Entries
        /\ call' \in [Calls -> Places]
    <3>1. state.cursor \in Nat
      BY DEF States, TypeOK, NoState
    <3>2. QED
      BY <1>6, <2>1, <3>1, LandsIsTyped DEF WriteLands, TypeOK
  <2>3. QED
    BY <1>2, <1>6, <2>1, <2>2 DEF TypeOK, WriteLands, callVars
<1>7. CASE WriteFails(s)
  <2>1. /\ call' \in [Calls -> Places] /\ retirement' \in Lifecycles \cup {Nobody}
        /\ retiring' \in [Lifecycles -> {"no", "flushing", "queued", "done", "failed"}]
    <3>1. CASE Settles(s, "failed")
      BY <3>1, SettlesIsTyped
    <3>2. CASE UNCHANGED <<retiring, retirement, call>>
      BY <3>2 DEF TypeOK
    <3>3. QED
      BY <1>7, <3>1, <3>2 DEF WriteFails
  <2>2. QED
    BY <1>2, <1>7, <2>1 DEF TypeOK, WriteFails, logVars, callVars
<1>8. CASE Retire(s)
  <2>1. state' \in States
    BY <1>8 DEF Retire, States, TypeOK
  <2>2. QED
    BY <1>2, <1>8, <2>1, SettlesIsTyped DEF TypeOK, Retire, logVars, callVars
<1>9. QED
  BY <1>3, <1>4, <1>5, <1>6, <1>7, <1>8 DEF SessionOperation

LEMMA GivesUpIsTyped ==
    ASSUME TypeOK, NEW c \in Calls, NEW p \in Places, GivesUp(c, p)
    PROVE  call' \in [Calls -> Places] /\ entry' \in Entries
<1>1. CASE Removes(c, p)
  BY <1>1, RemovesIsTyped DEF Entries
<1>2. CASE Goes(c, p) /\ UNCHANGED entry
  BY <1>2, GoesIsTyped DEF TypeOK
<1>3. QED
  BY <1>1, <1>2 DEF GivesUp

\* What is known of a preparation.
LEMMA EntryIsTyped ==
    ASSUME TypeOK
    PROVE  /\ NoEntry \in Entries
           /\ Stored \in Sources /\ Unread \in Sources
           /\ entry # NoEntry =>
                /\ entry.by \in Calls /\ entry.source \in Sources
                /\ \A f \in {"ready", "reserved", "committing"} : \A c \in Calls :
                     /\ [entry EXCEPT !.phase = f] \in Entries
                     /\ [entry EXCEPT !.phase = f, !.by = c] \in Entries
           /\ \A f \in {"loading", "ready"} : \A c \in Calls : \A x \in Sources :
                [phase |-> f, by |-> c, source |-> x] \in Entries
           /\ entry.phase = "ready" => entry # NoEntry
           /\ \A c : Mine(c) => entry # NoEntry
<1>1. Stored \in Sources
  BY DEF TypeOK, Sources, Stored
<1>2. Unread \in Sources
  <2>1. <<>> \in Seq(Events)
    OBVIOUS
  <2>2. QED
    BY <2>1 DEF Sources, Unread
<1>3. NoEntry \in Entries /\ NoEntry.phase = "none"
  BY DEF Entries, NoEntry
<1>4. CASE entry = NoEntry
  BY <1>1, <1>2, <1>3, <1>4 DEF Entries, Mine
<1>5. CASE entry \in [phase : {"loading", "ready", "committing", "reserved"}, by : Calls,
                    source : Sources]
  BY <1>1, <1>2, <1>3, <1>5 DEF Entries, Mine
<1>6. QED
  BY <1>4, <1>5 DEF TypeOK, Entries

\* What is known of the session state.
LEMMA StateIsTyped ==
    ASSUME TypeOK
    PROVE  /\ state.cursor \in Nat /\ state.materialized \in BOOLEAN
           /\ state.owner \in Lifecycles \cup {Nobody, "none"}
           /\ state = NoState <=> state.owner = "none"
           /\ state.owner # "none" =>
                 state = [cursor |-> state.cursor, materialized |-> state.materialized,
                          owner |-> state.owner]
<1> USE CoordinatorAssumption
<1>1. CASE state = NoState
  BY <1>1 DEF NoState, OwnedBy, States
<1>2. CASE state \in [cursor : Nat, materialized : BOOLEAN, owner : Lifecycles \cup {Nobody}]
  BY <1>2 DEF NoState, OwnedBy, States
<1>3. QED
  BY <1>1, <1>2 DEF TypeOK, States

\* The operations of calls in the chain.
LEMMA CallOperationsKeepTypes ==
    ASSUME TypeOK, Exact, NEW c \in Calls, CallOperation(c)
    PROVE  TypeOK'
<1> USE CoordinatorAssumption
<1>0. /\ \A d \in Calls : call[d] \in Places
      /\ {"again", "rejected", "await", "check", "done", "reserved", "queued"} \subseteq Places
      /\ OnLive(c) \in Places /\ Retry(c) \in Places
      /\ log \in Seq(Events) /\ Balanced(log) \in Seq(Events)
  BY BalancedIsBalanced DEF TypeOK, Places, OnLive, Retry
<1>1. chain' \in Seq(Links) /\ running' \in BOOLEAN
  <2>1. CASE CommitBegins(c)
    BY <2>1 DEF CommitBegins, Begins, TypeOK
  <2>2. CASE Begins /\ AppendBegins(c)
    BY <2>2 DEF Begins, TypeOK
  <2>3. CASE Ends /\ \E op : AtFront(op, c)
    BY <2>3, EndsIsTyped
  <2>4. QED
    BY <2>1, <2>2, <2>3 DEF CallOperation, Load, LoadFails, CommitStale, CommitFails, Commit,
       Current, Dropped, AppendBegins, AppendLands, AppendFails, AtHead, Running
<1>2. CASE Load(c)
  <2>1. entry' \in Entries
    BY <1>2, EntryIsTyped DEF Load, TypeOK
  <2>2. call' \in [Calls -> Places]
    BY <1>0, <1>2 DEF Load
  <2>3. source' \in [Calls -> Sources]
    BY <1>2, EntryIsTyped DEF Load, TypeOK
  <2>4. QED
    BY <1>1, <1>2, <2>1, <2>2, <2>3 DEF TypeOK, Load, logVars, lifeVars
<1>3. CASE LoadFails(c)
  <2>1. entry' \in Entries
    BY <1>3, EntryIsTyped DEF LoadFails, TypeOK
  <2>2. call' \in [Calls -> Places]
    BY <1>0, <1>3 DEF LoadFails
  <2>3. QED
    BY <1>1, <1>3, <2>1, <2>2 DEF TypeOK, LoadFails, logVars, lifeVars, callVars
<1>4. CASE CommitBegins(c)
  BY <1>1, <1>4 DEF TypeOK, CommitBegins, logVars, lifeVars, callVars
<1>5. CASE CommitStale(c)
  <2>1. log' \in Seq(Events) /\ torn' \in BOOLEAN
    BY <1>0, <1>5 DEF CommitStale, TypeOK, logVars
  <2>2. call' \in [Calls -> Places] /\ entry' \in Entries
    BY <1>0, <1>5, GivesUpIsTyped DEF CommitStale
  <2>3. QED
    BY <1>1, <1>5, <2>1, <2>2 DEF TypeOK, CommitStale, lifeVars, callVars
<1>6. CASE CommitFails(c)
  <2>1. call' \in [Calls -> Places] /\ entry' \in Entries
    BY <1>0, <1>6, GivesUpIsTyped DEF CommitFails
  <2>2. QED
    BY <1>1, <1>6, <2>1 DEF TypeOK, CommitFails, logVars, lifeVars, callVars
<1>7. CASE Commit(c)
  <2>1. state' \in States
    <3>1. Len(source[c].log) \in Nat
      BY DEF TypeOK, Sources
    <3>2. QED
      BY <1>7, <3>1 DEF Commit, States, OwnedBy
  <2>2. call' \in [Calls -> Places] /\ entry' \in Entries
    <3>1. CASE \E p \in Places : Removes(c, p)
      BY <3>1, RemovesIsTyped, EntryIsTyped
    <3>2. CASE /\ entry' \in {entry} \cup {[entry EXCEPT !.phase = f] : f \in {"ready", "reserved"}}
               /\ entry' # entry => Mine(c)
               /\ \E p \in Places : Goes(c, p)
      <4>1. entry' \in Entries
        BY <3>2, EntryIsTyped DEF TypeOK
      <4>2. QED
        BY <3>2, <4>1, GoesIsTyped
    <3>3. QED
      BY <1>0, <1>7, <3>1, <3>2 DEF Commit
  <2>3. QED
    BY <1>1, <1>7, <2>1, <2>2 DEF TypeOK, Commit, logVars, lifeVars, callVars
<1>8. CASE Current(c)
  <2>1. call' \in [Calls -> Places] /\ entry' \in Entries
    <3>1. CASE Removes(c, "again")
      BY <1>0, <3>1, RemovesIsTyped, EntryIsTyped
    <3>2. CASE UNCHANGED entry /\ \E p \in {"done", "again"} : Goes(c, p)
      BY <1>0, <3>2, GoesIsTyped DEF TypeOK
    <3>3. QED
      BY <1>8, <3>1, <3>2 DEF Current
  <2>2. QED
    BY <1>1, <1>8, <2>1 DEF TypeOK, Current, logVars, lifeVars, callVars
<1>9. CASE Dropped(c)
  BY <1>1, <1>9 DEF TypeOK, Dropped, logVars, lifeVars, callVars
<1>10. CASE AppendBegins(c)
  <2>1. log' \in Seq(Events) /\ torn' \in BOOLEAN
    BY <1>0, <1>10 DEF AppendBegins, TypeOK, logVars
  <2>2. state' \in States
    <3>1. OwnedBy(Nobody, Len(log'), TRUE) \in States
      BY <2>1 DEF OwnedBy, States
    <3>2. QED
      BY <1>10, <3>1 DEF AppendBegins, TypeOK
  <2>3. call' \in [Calls -> Places] /\ entry' \in Entries
    <3>1. CASE \E p \in {"queued", "rejected"} : Removes(c, p)
      BY <1>0, <3>1, RemovesIsTyped, EntryIsTyped
    <3>2. CASE UNCHANGED entry /\ \E p \in {"queued", "rejected"} : Goes(c, p)
      BY <1>0, <3>2, GoesIsTyped DEF TypeOK
    <3>3. QED
      BY <1>10, <3>1, <3>2 DEF AppendBegins
  <2>4. QED
    BY <1>1, <1>10, <2>1, <2>2, <2>3 DEF TypeOK, AppendBegins, lifeVars, callVars
<1>11. CASE AppendLands(c)
  <2>1. log' \in Seq(Events)
    <3>1. Event(c, "note") \in Events
      BY DEF Event, Events
    <3>2. QED
      BY <1>11, <3>1 DEF AppendLands, TypeOK
  <2>2. state' \in States
    <3>1. state.owner # "none"
      BY <1>11 DEF AppendLands, Running, AtFront, Exact
    <3>2. OwnedBy(state.owner, state.cursor + 1, TRUE) \in States
      BY <3>1, StateIsTyped DEF OwnedBy, States
    <3>3. QED
      BY <1>11, <3>2 DEF AppendLands
  <2>3. QED
    BY <1>0, <1>1, <1>11, <2>1, <2>2, RemovesIsTyped, EntryIsTyped
       DEF TypeOK, AppendLands, lifeVars, callVars
<1>12. CASE AppendFails(c)
  BY <1>0, <1>1, <1>12, GoesIsTyped DEF TypeOK, AppendFails, logVars, lifeVars, callVars
<1>13. QED
  BY <1>2, <1>3, <1>4, <1>5, <1>6, <1>7, <1>8, <1>9, <1>10, <1>11, <1>12 DEF CallOperation

\* What calls do outside the chain.
CallStep(c) ==
    \/ Call(c) \/ TakeReady(c) \/ Check(c) \/ AppendCall(c) \/ Abort(c) \/ Release(c)
    \/ \E s \in Lifecycles : Publish(c, s)

LEMMA CallStepsKeepTypes ==
    ASSUME TypeOK, ReservedAlone, NEW c \in Calls, CallStep(c)
    PROVE  TypeOK'
<1> USE CoordinatorAssumption
<1>0. /\ OnLive(c) \in Places
      /\ {"drain", "join", "check", "await", "queued", "rejected", "done"} \subseteq Places
      /\ {"load", "commit", "current", "append", "suffix"} \subseteq Operations
  BY DEF Places, Operations, OnLive
<1>1. CASE Call(c)
  <2>1. CASE Enter(c)
    <3>1. CASE holder # Nobody
      BY <1>0, <1>1, <2>1, <3>1, GoesIsTyped
         DEF Enter, TypeOK, Call, logVars, lifeVars
    <3>2. CASE holder = Nobody /\ entry = NoEntry
      <4>1. chain' \in Seq(Links) /\ entry' \in Entries /\ call' \in [Calls -> Places]
        BY <1>0, <2>1, <3>2, EnqueueIsTyped, EntryIsTyped, GoesIsTyped DEF Enter
      <4>2. on' = [on EXCEPT ![c] = c] /\ UNCHANGED source
        BY <2>1, <3>2 DEF Enter
      <4>3. on' \in [Calls -> Lifecycles \cup Calls \cup {Nobody}]
        BY <4>2 DEF TypeOK
      <4>4. QED
        BY <1>1, <4>1, <4>2, <4>3 DEF TypeOK, Call, logVars, lifeVars
    <3>3. CASE holder = Nobody /\ entry # NoEntry
      <4>1. entry.by \in Calls /\ entry.source \in Sources
        BY <3>3, EntryIsTyped
      <4>2. call' \in [Calls -> Places] /\ UNCHANGED <<entry, chain>>
        BY <1>0, <2>1, <3>3, GoesIsTyped DEF Enter
      <4>3. /\ on' \in {on, [on EXCEPT ![c] = entry.by]}
            /\ source' \in {source, [source EXCEPT ![c] = entry.source]}
        BY <2>1, <3>3 DEF Enter
      <4>4. /\ on' \in [Calls -> Lifecycles \cup Calls \cup {Nobody}]
            /\ source' \in [Calls -> Sources]
        BY <4>1, <4>3 DEF TypeOK
      <4>5. QED
        BY <1>1, <4>2, <4>4 DEF TypeOK, Call, logVars, lifeVars
    <3>4. QED
      BY <3>1, <3>2, <3>3
  <2>2. CASE Goes(c, "drain") /\ on' = [on EXCEPT ![c] = retirement] /\ UNCHANGED <<entry, chain, source>>
    BY <1>0, <1>1, <2>2, GoesIsTyped DEF TypeOK, Call, logVars, lifeVars
  <2>3. QED
    BY <1>1, <2>1, <2>2 DEF Call
<1>2. CASE TakeReady(c)
  <2>1. chain' \in Seq(Links) /\ entry' \in Entries /\ call' \in [Calls -> Places]
    BY <1>0, <1>2, EnqueueIsTyped, EntryIsTyped, GoesIsTyped DEF TakeReady
  <2>2. entry.source \in Sources
    BY <1>2, EntryIsTyped DEF TakeReady
  <2>3. QED
    BY <1>2, <2>1, <2>2 DEF TypeOK, TakeReady, logVars, lifeVars
<1>3. CASE Check(c)
  <2>1. chain' \in Seq(Links) /\ call' \in [Calls -> Places]
    <3>1. CASE UNCHANGED chain
      BY <1>0, <1>3, <3>1, GoesIsTyped DEF Check, TypeOK
    <3>2. CASE Enqueue("current", c)
      BY <1>0, <1>3, <3>2, EnqueueIsTyped, GoesIsTyped DEF Check
    <3>3. QED
      BY <1>3, <3>1, <3>2 DEF Check
  <2>2. QED
    BY <1>3, <2>1 DEF TypeOK, Check, logVars, lifeVars, callVars
<1>4. CASE AppendCall(c)
  <2>1. chain' \in Seq(Links) /\ call' \in [Calls -> Places]
    BY <1>0, <1>4, EnqueueIsTyped, GoesIsTyped DEF AppendCall
  <2>2. QED
    BY <1>4, <2>1, EntryIsTyped DEF TypeOK, AppendCall, logVars, lifeVars
<1>5. CASE Abort(c)
  <2>1. call' \in [Calls -> Places] /\ entry' \in Entries
    <3>1. CASE UNCHANGED <<entry, call>>
      BY <3>1 DEF TypeOK
    <3>2. CASE GivesUp(c, "rejected")
      BY <1>0, <3>2, GivesUpIsTyped
    <3>3. QED
      BY <1>5, <3>1, <3>2 DEF Abort
  <2>2. QED
    BY <1>5, <2>1 DEF TypeOK, Abort, logVars, lifeVars
<1>6. CASE Release(c)
  <2>1. call' \in [Calls -> Places] /\ entry' \in Entries
    <3>1. CASE Removes(c, "done")
      BY <1>0, <3>1, RemovesIsTyped, EntryIsTyped
    <3>2. CASE entry' = [entry EXCEPT !.phase = "ready"] /\ Goes(c, "done")
      BY <1>0, <1>6, <3>2, GoesIsTyped, EntryIsTyped DEF Release, ReservedAlone
    <3>3. QED
      BY <1>6, <3>1, <3>2 DEF Release
  <2>2. QED
    BY <1>6, <2>1 DEF TypeOK, Release, logVars, lifeVars, callVars
<1>7. ASSUME NEW s \in Lifecycles, Publish(c, s)
      PROVE  TypeOK'
  <2> DEFINE history == Append(entry.source.log, Event(s, "note"))
  <2>1. Event(s, "note") \in Events /\ entry.source.log \in Seq(Events)
    BY <1>7, EntryIsTyped DEF Publish, Event, Events, Sources
  <2>2. history \in Seq(Events) /\ Len(history) \in Nat
    BY <2>1
  <2>3. chain' \in Seq(Links) /\ call' \in [Calls -> Places] /\ entry' \in Entries
    BY <1>0, <1>7, EnqueueIsTyped, RemovesIsTyped, EntryIsTyped DEF Publish
  <2>4. state' \in States
    BY <1>7, StateIsTyped DEF Publish, States
  <2>5. /\ events' = [events EXCEPT ![s] = history]
        /\ sent' = [sent EXCEPT ![s] = Len(history)]
    BY <1>7 DEF Publish, Published
  <2> HIDE DEF history
  <2>6. events' \in [Lifecycles -> Seq(Events)] /\ sent' \in [Lifecycles -> Nat]
    BY <2>2, <2>5 DEF TypeOK
  <2>7. QED
    BY <1>7, <2>3, <2>4, <2>6 DEF TypeOK, Publish, Published, logVars, callVars
<1>8. QED
  BY <1>1, <1>2, <1>3, <1>4, <1>5, <1>6, <1>7 DEF CallStep

\* A reload keeps the log and the live session.
LEMMA ReloadKeepsTypes ==
    ASSUME TypeOK, Reload
    PROVE  TypeOK'
<1> USE CoordinatorAssumption
<1>1. chain' \in Seq(Links)
  <2>1. CASE UNCHANGED chain
    BY <2>1 DEF TypeOK
  <2>2. CASE holder # Nobody /\ Enqueue("created", holder)
    BY <2>2, EnqueueIsTyped DEF TypeOK, Operations
  <2>3. QED
    BY <2>1, <2>2 DEF Reload
<1>2. sent' \in [Lifecycles -> Nat]
  <2>1. \A s \in Lifecycles : Len(events[s]) \in Nat
    BY DEF TypeOK
  <2>2. QED
    BY <2>1 DEF Reload, TypeOK
<1>3. state' \in States /\ entry' \in Entries
  BY DEF Reload, States, Entries
<1>4. reloads' \in 0 .. MaxReloads
  BY DEF Reload, TypeOK
<1>5. QED
  BY <1>1, <1>2, <1>3, <1>4 DEF Reload, TypeOK, logVars, callVars

LEMMA InitIsTyped ==
    ASSUME Init
    PROVE  TypeOK
<1> USE CoordinatorAssumption
<1>1. <<Event(Nobody, "start")>> \in Seq(Events) /\ <<>> \in Seq(Events)
  <2>1. Event(Nobody, "start") \in Events
    BY DEF Event, Events
  <2>2. QED
    BY <2>1
<1>2. log \in Seq(Events)
  BY <1>1 DEF Init
<1>3. \A c \in Calls : source[c] \in Sources
  BY <1>1 DEF Init, Unread, Sources
<1>4. chain \in Seq(Links)
  BY DEF Init
<1>5. /\ holder \in Lifecycles \cup {Nobody} /\ retirement \in Lifecycles \cup {Nobody}
      /\ torn \in BOOLEAN /\ running \in BOOLEAN /\ reloads \in 0 .. MaxReloads
      /\ state \in States /\ entry \in Entries /\ aborted \subseteq Calls
  <2>1. torn \in BOOLEAN /\ running \in BOOLEAN
    BY DEF Init
  <2>2. reloads \in 0 .. MaxReloads
    BY DEF Init
  <2>3. state \in States /\ entry \in Entries
    BY DEF Init, States, Entries
  <2>4. QED
    BY <2>1, <2>2, <2>3 DEF Init
<1>6. /\ events \in [Lifecycles -> Seq(Events)]
      /\ init \in [Lifecycles -> {"none", "pending", "ready", "failed"}]
      /\ sent \in [Lifecycles -> Nat] /\ batch \in [Lifecycles -> Nat]
  BY <1>1 DEF Init
<1>7. /\ writing \in [Lifecycles -> {"no", "background", "barrier"}]
      /\ retiring \in [Lifecycles -> {"no", "flushing", "queued", "done", "failed"}]
  BY DEF Init
<1>8. /\ kind \in [Calls -> {"prepare", "load", "inspect", "append"}]
      /\ call \in [Calls -> Places] /\ on \in [Calls -> Lifecycles \cup Calls \cup {Nobody}]
      /\ source \in [Calls -> Sources]
  BY <1>3 DEF Init, Places
<1>9. QED
  BY <1>2, <1>4, <1>5, <1>6, <1>7, <1>8 DEF TypeOK

-----------------------------------------------------------------------------
(***************************************************************************)
(* What calls do leaves what waits for sessions, and the other way round.  *)
(***************************************************************************)

\* The links of a kind are the same in both chains, up to a shift.
Kept(K, d) ==
    /\ \A i \in DOMAIN chain' : i \in Nat /\ chain'[i].op \in K =>
          i + d \in DOMAIN chain /\ chain'[i] = chain[i + d]
    /\ \A i \in DOMAIN chain : chain[i].op \in K =>
          i - d \in DOMAIN chain' /\ chain'[i - d] = chain[i]

\* The chain has no links but old ones, in their order.
Shrinks(d) == \A i \in DOMAIN chain' : i + d \in DOMAIN chain /\ chain'[i] = chain[i + d]

LEMMA ChainIsNumbered ==
    ASSUME TypeOK
    PROVE  /\ DOMAIN chain = 1 .. Len(chain) /\ Len(chain) \in Nat
           /\ DOMAIN chain \subseteq Nat
           /\ \A i \in DOMAIN chain : chain[i].op \in Operations
                                      /\ chain[i].of \in Lifecycles \cup Calls
<1>1. DOMAIN chain = 1 .. Len(chain) /\ Len(chain) \in Nat /\ \A i \in DOMAIN chain : chain[i] \in Links
  BY DEF TypeOK
<1>2. QED
  BY <1>1 DEF Links

LEMMA ChainsAreNumbered ==
    ASSUME TypeOK, TypeOK'
    PROVE  DOMAIN chain \subseteq Nat /\ DOMAIN chain' \subseteq Nat
<1>1. chain \in Seq(Links) /\ chain' \in Seq(Links)
  BY DEF TypeOK
<1>2. QED
  BY <1>1

LEMMA ChainShrinks ==
    ASSUME TypeOK, UNCHANGED chain \/ (Ends /\ \E op, of : AtFront(op, of))
    PROVE  \E d \in {0, 1} : Shrinks(d)
<1>1. CASE UNCHANGED chain
  <2>1. Shrinks(0)
    BY <1>1, ChainIsNumbered DEF Shrinks
  <2>2. QED
    BY <2>1
<1>2. CASE Ends /\ \E op, of : AtFront(op, of)
  <2>1. PICK op, of : AtFront(op, of)
    BY <1>2
  <2>2. /\ DOMAIN chain = 1 .. Len(chain) /\ Len(chain) \in Nat \ {0}
        /\ DOMAIN chain' = 1 .. Len(chain) - 1
        /\ \A i \in 1 .. Len(chain) - 1 : chain'[i] = chain[i + 1]
    <3>1. chain \in Seq(Links)
      BY DEF TypeOK
    <3>2. QED
      BY <1>2, <2>1, <3>1, EndsRemoves
  <2>3. Shrinks(1)
    BY <2>2 DEF Shrinks
  <2>4. QED
    BY <2>3
<1>3. QED
  BY <1>1, <1>2

\* Links of one kind are kept when one of another comes or goes.
LEMMA LinksAreKept ==
    ASSUME TypeOK, NEW K,
           \/ UNCHANGED chain
           \/ \E op, of : op \notin K /\ Enqueue(op, of)
           \/ Ends /\ \E op, of : op \notin K /\ AtFront(op, of)
    PROVE  \E d \in {0, 1} : Kept(K, d)
<1>1. CASE UNCHANGED chain
  <2>1. Kept(K, 0)
    BY <1>1, ChainIsNumbered DEF Kept
  <2>2. QED
    BY <2>1
<1>2. ASSUME NEW op, NEW of, op \notin K, Enqueue(op, of)
      PROVE  Kept(K, 0)
  <2>1. /\ DOMAIN chain = 1 .. Len(chain) /\ Len(chain) \in Nat
        /\ DOMAIN chain' = 1 .. Len(chain) + 1
        /\ \A i \in 1 .. Len(chain) : chain'[i] = chain[i]
        /\ chain'[Len(chain) + 1].op = op
    <3>1. chain \in Seq(Links)
      BY DEF TypeOK
    <3>2. QED
      BY <1>2, <3>1, EnqueueAdds
  <2>2. QED
    BY <1>2, <2>1 DEF Kept
<1>3. ASSUME NEW op, NEW of, op \notin K, AtFront(op, of), Ends
      PROVE  Kept(K, 1)
  <2>1. /\ DOMAIN chain = 1 .. Len(chain) /\ Len(chain) \in Nat \ {0}
        /\ DOMAIN chain' = 1 .. Len(chain) - 1
        /\ \A i \in 1 .. Len(chain) - 1 : chain'[i] = chain[i + 1]
        /\ chain[1].op = op
    <3>1. chain \in Seq(Links)
      BY DEF TypeOK
    <3>2. QED
      BY <1>3, <3>1, EndsRemoves
  <2>2. QED
    BY <1>3, <2>1 DEF Kept
<1>4. QED
  BY <1>1, <1>2, <1>3

\* Sessions do not notice what calls do in the chain.
LEMMA CallsLeaveSessions ==
    ASSUME TypeOK, TypeOK', SessionsQueueOnce, HolderIsLast,
           UNCHANGED <<holder, events, init, sent, writing, batch, retiring>>,
           \/ UNCHANGED chain
           \/ \E op, of : op \notin OfSessions /\ Enqueue(op, of)
           \/ Ends /\ \E op, of : op \notin OfSessions /\ AtFront(op, of)
    PROVE  SessionsQueueOnce' /\ HolderIsLast'
<1>1. PICK d \in {0, 1} : Kept(OfSessions, d)
  BY LinksAreKept
<1>2. DOMAIN chain \subseteq Nat /\ DOMAIN chain' \subseteq Nat
  BY ChainsAreNumbered
<1>3. SessionsQueueOnce'
  <2>1. ASSUME NEW i \in DOMAIN chain', chain'[i].op \in OfSessions
        PROVE  i + d \in DOMAIN chain /\ chain'[i] = chain[i + d] /\ i \in Nat
    BY <1>1, <1>2, <2>1 DEF Kept
  <2>2. \A i, j \in DOMAIN chain' : i # j => i + d # j + d
    BY <1>2
  <2>3. Initializations \subseteq OfSessions /\ "write" \in OfSessions /\ "retire" \in OfSessions
    BY DEF OfSessions, Initializations
  <2>4. QED
    BY <2>1, <2>2, <2>3 DEF SessionsQueueOnce
<1>4. HolderIsLast'
  <2> SUFFICES ASSUME NEW s \in Lifecycles, holder = s
               PROVE  /\ init[s] # "none" /\ retiring[s] = "no"
                      /\ init[s] = "pending" =>
                           \E i \in DOMAIN chain' :
                             /\ chain'[i].op \in Initializations /\ chain'[i].of = s
                             /\ \A j \in DOMAIN chain' : j > i => chain'[j].op \notin Initializations
                      /\ init[s] # "pending" =>
                           \A i \in DOMAIN chain' : chain'[i].op \notin Initializations
    BY DEF HolderIsLast
  <2>1. Initializations \subseteq OfSessions
    BY DEF OfSessions
  <2>2. ASSUME init[s] = "pending"
        PROVE  \E i \in DOMAIN chain' :
                 /\ chain'[i].op \in Initializations /\ chain'[i].of = s
                 /\ \A j \in DOMAIN chain' : j > i => chain'[j].op \notin Initializations
    <3>1. PICK i \in DOMAIN chain :
             /\ chain[i].op \in Initializations /\ chain[i].of = s
             /\ \A j \in DOMAIN chain : j > i => chain[j].op \notin Initializations
      BY <2>2 DEF HolderIsLast
    <3>2. i - d \in DOMAIN chain' /\ chain'[i - d] = chain[i]
      BY <1>1, <2>1, <3>1 DEF Kept
    <3>3. ASSUME NEW j \in DOMAIN chain', j > i - d
          PROVE  chain'[j].op \notin Initializations
      <4>1. i \in Nat /\ j \in Nat
        BY <1>2
      <4>2. j + d > i
        BY <3>3, <4>1
      <4>3. QED
        BY <1>1, <2>1, <3>1, <4>1, <4>2 DEF Kept
    <3>4. QED
      BY <3>1, <3>2, <3>3
  <2>3. ASSUME init[s] # "pending", NEW i \in DOMAIN chain'
        PROVE  chain'[i].op \notin Initializations
    BY <1>1, <1>2, <2>1, <2>3 DEF Kept, HolderIsLast
  <2>4. QED
    BY <2>2, <2>3 DEF HolderIsLast
<1>5. QED
  BY <1>3, <1>4

\* Mine, in the next state.
MineNext(c) ==
    entry' # NoEntry /\ entry'.phase \in {"committing", "reserved"} /\ entry'.by = c

\* Calls do not notice what sessions do: those that waited may be woken, a preparation may
\* be invalidated, and an initialization starts to wait only when there is none.
LEMMA SessionsLeaveCalls ==
    ASSUME TypeOK, TypeOK', KindsFit, CommitsAreAlone,
           UNCHANGED <<kind, source>>, entry' \in {entry, NoEntry},
           \A c \in Calls :
              \/ call'[c] = call[c]
              \/ /\ call[c] \notin {"queued", "rejected"}
                 /\ call'[c] \notin {"join", "await", "check", "reserved"}
                 /\ call[c] = "reserved" => entry' = NoEntry,
           \/ UNCHANGED chain
           \/ \E op \in OfSessions, s \in Lifecycles :
                 (op \in Initializations => entry' = NoEntry) /\ Enqueue(op, s)
           \/ Ends /\ \E op, of : AtFront(op, of)
    PROVE  KindsFit' /\ CommitsAreAlone'
<1>0. \A c : MineNext(c) => Mine(c) /\ entry' = entry /\ entry' # NoEntry
  BY DEF Mine, MineNext
<1>1. CASE \E d \in {0, 1} : Shrinks(d)
  <2>1. PICK d \in {0, 1} : Shrinks(d)
    BY <1>1
  <2>2. DOMAIN chain \subseteq Nat /\ DOMAIN chain' \subseteq Nat
    BY ChainsAreNumbered
  <2>3. \A i, j \in DOMAIN chain' : /\ i # j => i + d # j + d
                                    /\ i > j => i + d > j + d
    BY <2>2
  <2>4. \A i \in DOMAIN chain' : i + d \in DOMAIN chain /\ chain'[i] = chain[i + d]
    BY <2>1 DEF Shrinks
  <2>5. KindsFit'
    <3>1. \A c \in Calls : call'[c] \in {"join", "await", "check"} => call'[c] = call[c]
      OBVIOUS
    <3>2. QED
      BY <2>4, <3>1 DEF KindsFit
  <2>6. CommitsAreAlone'
    <3>1. ASSUME NEW i \in DOMAIN chain', chain'[i].op = "commit"
          PROVE  /\ chain'[i].of \in Calls
                 /\ call'[chain'[i].of] \in {"queued", "rejected"}
                 /\ MineNext(chain'[i].of) =>
                      \A j \in DOMAIN chain' :
                        j > i => chain'[j].op \notin Initializations \cup {"append"}
      <4>1. chain'[i].of \in Calls
        BY <2>4, <3>1 DEF KindsFit, OfSessions, Initializations
      <4>2. call'[chain'[i].of] \in {"queued", "rejected"}
        BY <2>4, <3>1, <4>1 DEF CommitsAreAlone
      <4>3. ASSUME MineNext(chain'[i].of), NEW j \in DOMAIN chain', j > i
            PROVE  chain'[j].op \notin Initializations \cup {"append"}
        <5>1. Mine(chain[i + d].of)
          BY <1>0, <2>4, <4>3
        <5>2. QED
          BY <2>3, <2>4, <3>1, <4>3, <5>1 DEF CommitsAreAlone
      <4>4. QED
        BY <4>1, <4>2, <4>3
    <3>2. \A i, j \in DOMAIN chain' :
            i # j /\ chain'[i].op = "commit" /\ chain'[j].op = "commit"
              => chain'[i].of # chain'[j].of
      BY <2>3, <2>4 DEF CommitsAreAlone
    <3>3. ASSUME NEW c \in Calls, MineNext(c)
          PROVE  /\ kind'[c] \in {"prepare", "load"} /\ entry'.source = source'[c]
                 /\ call'[c] = IF entry'.phase = "reserved" THEN "reserved" ELSE "queued"
      BY <1>0, <3>3 DEF CommitsAreAlone
    <3>4. QED
      BY <3>1, <3>2, <3>3 DEF CommitsAreAlone, Mine, MineNext
  <2>7. QED
    BY <2>5, <2>6
<1>2. CASE \E op \in OfSessions, s \in Lifecycles :
              (op \in Initializations => entry' = NoEntry) /\ Enqueue(op, s)
  <2>1. PICK op \in OfSessions, s \in Lifecycles :
               (op \in Initializations => entry' = NoEntry) /\ Enqueue(op, s)
    BY <1>2
  <2>2. /\ DOMAIN chain = 1 .. Len(chain) /\ Len(chain) \in Nat
        /\ DOMAIN chain' = 1 .. Len(chain) + 1
        /\ \A i \in 1 .. Len(chain) : chain'[i] = chain[i]
        /\ chain'[Len(chain) + 1].op = op
    <3>1. chain \in Seq(Links)
      BY DEF TypeOK
    <3>2. QED
      BY <2>1, <3>1, EnqueueAdds
  <2>3. \A i \in DOMAIN chain' : chain'[i].op \notin OfSessions =>
           i \in DOMAIN chain /\ chain'[i] = chain[i]
    BY <2>1, <2>2
  <2>4. \A p \in {"commit", "current", "append"} : p \notin OfSessions
    BY DEF OfSessions, Initializations
  <2>5. KindsFit'
    <3>1. \A c \in Calls : call'[c] \in {"join", "await", "check"} => call'[c] = call[c]
      OBVIOUS
    <3>2. QED
      BY <2>3, <2>4, <3>1 DEF KindsFit
  <2>6. CommitsAreAlone'
    <3>1. ASSUME NEW i \in DOMAIN chain', chain'[i].op = "commit"
          PROVE  /\ call'[chain'[i].of] \in {"queued", "rejected"}
                 /\ MineNext(chain'[i].of) =>
                      \A j \in DOMAIN chain' :
                        j > i => chain'[j].op \notin Initializations \cup {"append"}
      <4>1. i \in DOMAIN chain /\ chain'[i] = chain[i]
        BY <2>3, <2>4, <3>1
      <4>2. chain[i].of \in Calls
        BY <2>4, <3>1, <4>1 DEF KindsFit
      <4>3. call'[chain'[i].of] \in {"queued", "rejected"}
        BY <3>1, <4>1, <4>2 DEF CommitsAreAlone
      <4>4. ASSUME MineNext(chain'[i].of), NEW j \in DOMAIN chain', j > i
            PROVE  chain'[j].op \notin Initializations \cup {"append"}
        <5>1. Mine(chain[i].of) /\ entry' # NoEntry
          BY <1>0, <4>1, <4>4
        <5>2. CASE j \in DOMAIN chain
          BY <2>2, <3>1, <4>1, <4>4, <5>1, <5>2 DEF CommitsAreAlone
        <5>3. CASE j = Len(chain) + 1
          BY <2>1, <2>2, <2>4, <5>1, <5>3
        <5>4. QED
          BY <2>2, <5>2, <5>3
      <4>5. QED
        BY <4>3, <4>4
    <3>2. \A i, j \in DOMAIN chain' :
            i # j /\ chain'[i].op = "commit" /\ chain'[j].op = "commit"
              => chain'[i].of # chain'[j].of
      BY <2>3, <2>4 DEF CommitsAreAlone
    <3>3. ASSUME NEW c \in Calls, MineNext(c)
          PROVE  /\ kind'[c] \in {"prepare", "load"} /\ entry'.source = source'[c]
                 /\ call'[c] = IF entry'.phase = "reserved" THEN "reserved" ELSE "queued"
      BY <1>0, <3>3 DEF CommitsAreAlone
    <3>4. QED
      BY <3>1, <3>2, <3>3 DEF CommitsAreAlone, Mine, MineNext
  <2>7. QED
    BY <2>5, <2>6
<1>3. QED
  BY <1>1, <1>2, ChainShrinks

\* Nor do reservations, when the log and the preparation stay, and the state unless a
\* lifecycle owns it.
LEMMA SessionsLeaveReservations ==
    ASSUME TypeOK, ReservedAlone,
           UNCHANGED <<log, torn, entry>>, state' = state \/ state.owner \in Lifecycles,
           \A c \in Calls : call'[c] = "reserved" => call[c] = "reserved",
           \/ UNCHANGED chain
           \/ \E op \in {"write", "retire"} : \E s : Enqueue(op, s)
           \/ Ends /\ \E op, of : AtFront(op, of)
    PROVE  ReservedAlone'
<1> USE CoordinatorAssumption
<1>1. \A i \in DOMAIN chain' :
         \/ \E j \in DOMAIN chain : chain'[i] = chain[j]
         \/ chain'[i].op \in {"write", "retire"}
  <2>1. CASE \E d \in {0, 1} : Shrinks(d)
    BY <2>1 DEF Shrinks
  <2>2. ASSUME NEW op \in {"write", "retire"}, NEW s, Enqueue(op, s)
        PROVE  <1>1
    <3>1. chain \in Seq(Links)
      BY DEF TypeOK
    <3>2. /\ DOMAIN chain = 1 .. Len(chain) /\ Len(chain) \in Nat
          /\ DOMAIN chain' = 1 .. Len(chain) + 1
          /\ \A i \in 1 .. Len(chain) : chain'[i] = chain[i]
          /\ chain'[Len(chain) + 1].op = op
      BY <2>2, <3>1, EnqueueAdds
    <3>3. QED
      BY <3>2
  <2>3. QED
    BY <2>1, <2>2, ChainShrinks
<1>2. ASSUME NEW c \in Calls, call[c] = "reserved"
      PROVE  state.owner = Nobody
  BY <1>2 DEF ReservedAlone, OwnedBy
<1>3. \A p \in {"write", "retire"} : p \notin Initializations \cup {"append"}
  BY DEF Initializations
<1>4. QED
  BY <1>1, <1>2, <1>3 DEF ReservedAlone, Stored

-----------------------------------------------------------------------------
(***************************************************************************)
(* Lifecycles come and go.                                                 *)
(***************************************************************************)

LEMMA EnqueueAddsToTyped ==
    ASSUME TypeOK, NEW op, NEW of, Enqueue(op, of)
    PROVE  /\ DOMAIN chain = 1 .. Len(chain) /\ Len(chain) \in Nat
           /\ DOMAIN chain' = 1 .. Len(chain) + 1
           /\ \A i \in 1 .. Len(chain) : chain'[i] = chain[i]
           /\ chain'[Len(chain) + 1].op = op /\ chain'[Len(chain) + 1].of = of
           /\ chain' # <<>>
           /\ chain # <<>> => Head(chain') = Head(chain)
           /\ chain = <<>> => Head(chain').op = op
<1>1. chain \in Seq(Links)
  BY DEF TypeOK
<1>2. QED
  BY <1>1, EnqueueAdds

LEMMA EndsRemovesFromTyped ==
    ASSUME TypeOK, NEW op, NEW of, AtFront(op, of), Ends
    PROVE  /\ DOMAIN chain = 1 .. Len(chain) /\ Len(chain) \in Nat \ {0}
           /\ DOMAIN chain' = 1 .. Len(chain) - 1
           /\ \A i \in 1 .. Len(chain) - 1 : chain'[i] = chain[i + 1]
           /\ 1 \in DOMAIN chain /\ chain[1].op = op /\ chain[1].of = of
           /\ ~running'
<1>1. chain \in Seq(Links)
  BY DEF TypeOK
<1>2. QED
  BY <1>1, EndsRemoves

\* What the bookkeeping knows does not depend on what is added behind the chain.
LEMMA EnqueueIsExact ==
    ASSUME TypeOK, Exact, NEW op, NEW of, Enqueue(op, of),
           UNCHANGED <<log, torn, running>>, state'.owner \in {state.owner} \cup Lifecycles,
           state'.owner # "none" => state.owner # "none" /\ state'.cursor = state.cursor
    PROVE  Exact'
<1> USE CoordinatorAssumption
<1>1. /\ chain' # <<>>
      /\ chain # <<>> => Head(chain') = Head(chain)
  BY EnqueueAddsToTyped
<1>2. QED
  BY <1>1 DEF Exact

\* The log of a published lifecycle is queued behind those before it.
LEMMA PublicationsAreLast ==
    ASSUME TypeOK, SessionsQueueOnce, HolderIsLast,
           NEW s \in Lifecycles, NEW history \in Seq(Events), Admits(s), Published(s, history),
           NEW op \in Initializations, Enqueue(op, s)
    PROVE  SessionsQueueOnce' /\ HolderIsLast'
<1> USE CoordinatorAssumption
<1>1. /\ DOMAIN chain = 1 .. Len(chain) /\ Len(chain) \in Nat
      /\ DOMAIN chain' = 1 .. Len(chain) + 1
      /\ \A i \in 1 .. Len(chain) : chain'[i] = chain[i]
      /\ chain'[Len(chain) + 1].op = op /\ chain'[Len(chain) + 1].of = s
  BY EnqueueAddsToTyped
<1>2. /\ init[s] = "none" /\ retiring[s] = "no" /\ holder = Nobody /\ holder' = s
      /\ init'[s] = "pending" /\ sent'[s] = Len(history) /\ events'[s] = history
      /\ \A t \in Lifecycles \ {s} : /\ init'[t] = init[t] /\ sent'[t] = sent[t]
                                     /\ events'[t] = events[t]
      /\ UNCHANGED <<writing, batch, retiring>>
  BY DEF Admits, Published, TypeOK
<1>3. Len(history) \in Nat
  OBVIOUS
<1>4. /\ \A i \in DOMAIN chain : chain[i].op \in OfSessions => chain[i].of \in Lifecycles \ {s}
      /\ op \in OfSessions /\ op \notin {"write", "retire"}
  BY <1>2 DEF SessionsQueueOnce, OfSessions, Initializations
<1>5. SessionsQueueOnce'
  <2>1. ASSUME NEW i \in DOMAIN chain'
        PROVE  /\ chain'[i].op \in OfSessions => chain'[i].of \in Lifecycles
               /\ chain'[i].op \in Initializations => init'[chain'[i].of] = "pending"
               /\ chain'[i].op = "write" => /\ init'[chain'[i].of] = "ready"
                                            /\ writing'[chain'[i].of] # "no"
                                            /\ batch'[chain'[i].of] <= Len(events'[chain'[i].of])
               /\ chain'[i].op = "retire" => /\ init'[chain'[i].of] = "ready"
                                             /\ writing'[chain'[i].of] = "no"
                                             /\ retiring'[chain'[i].of] = "queued"
    <3>1. CASE i = Len(chain) + 1
      BY <1>1, <1>2, <1>4, <3>1
    <3>2. CASE i \in DOMAIN chain
      BY <1>1, <1>2, <1>4, <3>2 DEF SessionsQueueOnce, OfSessions
    <3>3. QED
      BY <1>1, <3>1, <3>2
  <2>2. ASSUME NEW i \in DOMAIN chain', NEW j \in DOMAIN chain', i # j,
               \/ chain'[i].op \in Initializations /\ chain'[j].op \in Initializations
               \/ chain'[i].op = chain'[j].op /\ chain'[i].op \in {"write", "retire"}
        PROVE  chain'[i].of # chain'[j].of
    <3>1. CASE i \in DOMAIN chain /\ j \in DOMAIN chain
      BY <1>1, <2>2, <3>1 DEF SessionsQueueOnce
    <3>2. CASE i = Len(chain) + 1
      BY <1>1, <1>4, <2>2, <3>2 DEF OfSessions
    <3>3. CASE j = Len(chain) + 1
      BY <1>1, <1>4, <2>2, <3>3 DEF OfSessions
    <3>4. QED
      BY <1>1, <3>1, <3>2, <3>3
  <2>3. \A t \in Lifecycles : /\ sent'[t] <= Len(events'[t])
                              /\ writing'[t] = "barrier" => retiring'[t] # "no"
    BY <1>2, <1>3 DEF SessionsQueueOnce
  <2>4. QED
    BY <2>1, <2>2, <2>3 DEF SessionsQueueOnce
<1>6. HolderIsLast'
  <2>1. Len(chain) + 1 \in DOMAIN chain' /\ \A j \in DOMAIN chain' : ~(j > Len(chain) + 1)
    BY <1>1
  <2>2. QED
    BY <1>1, <1>2, <2>1 DEF HolderIsLast
<1>7. QED
  BY <1>5, <1>6

\* A lifecycle that was published has nothing to store yet.
LEMMA PublicationsDoNoWork ==
    ASSUME TypeOK, WorkersOwn, NEW s \in Lifecycles, NEW history, Published(s, history),
           UNCHANGED state \/ state.owner \notin Lifecycles
    PROVE  WorkersOwn'
<1>1. ASSUME NEW t \in Lifecycles, init'[t] = "ready", holder' = t \/ HasWork(t)'
      PROVE  state'.owner = t
  <2>1. t # s
    BY <1>1 DEF Published, TypeOK
  <2>2. init[t] = "ready" /\ HasWork(t)
    BY <1>1, <2>1 DEF Published, TypeOK, HasWork
  <2>3. QED
    BY <2>2 DEF WorkersOwn
<1>2. QED
  BY <1>1 DEF WorkersOwn

LEMMA CreateFreshKeepsInv ==
    ASSUME Inv, NEW s \in Lifecycles, CreateFresh(s)
    PROVE  Inv'
<1> USE CoordinatorAssumption
<1>0. PICK history \in {<<>>, <<Event(s, "note")>>} : Published(s, history)
  BY DEF CreateFresh
<1>1. TypeOK /\ TypeOK'
  BY LifecyclesKeepTypes DEF Inv
<1>2. history \in Seq(Events)
  <2>1. Event(s, "note") \in Events
    BY DEF Event, Events
  <2>2. <<>> \in Seq(Events) /\ <<Event(s, "note")>> \in Seq(Events)
    BY <2>1
  <2>3. QED
    BY <1>0, <2>2
<1>3. "created" \in Initializations /\ "created" \in OfSessions
  BY DEF Initializations, OfSessions
<1>4. SessionsQueueOnce' /\ HolderIsLast'
  BY <1>0, <1>1, <1>2, <1>3, PublicationsAreLast DEF CreateFresh, Inv
<1>5. WorkersOwn'
  BY <1>0, <1>1, PublicationsDoNoWork DEF CreateFresh, Inv
<1>6. Exact'
  BY <1>0, <1>1, EnqueueIsExact DEF CreateFresh, Published, Inv, logVars
<1>7. SuffixesFit'
  <2>1. /\ DOMAIN chain = 1 .. Len(chain) /\ Len(chain) \in Nat
        /\ DOMAIN chain' = 1 .. Len(chain) + 1
        /\ \A i \in 1 .. Len(chain) : chain'[i] = chain[i]
        /\ chain'[Len(chain) + 1].op = "created"
    BY <1>1, EnqueueAddsToTyped DEF CreateFresh
  <2>2. \A i \in DOMAIN chain : chain[i].op = "suffix" => chain[i].of \in Lifecycles \ {s}
    <3>1. init[s] = "none"
      BY DEF CreateFresh, Admits
    <3>2. QED
      BY <3>1 DEF Inv, SessionsQueueOnce, Initializations, OfSessions
  <2>3. \A t \in Lifecycles \ {s} : sent'[t] = sent[t]
    BY <1>0, <1>1 DEF Published, TypeOK
  <2>4. state' = state
    BY DEF CreateFresh
  <2>5. QED
    BY <2>1, <2>2, <2>3, <2>4 DEF SuffixesFit, Inv
<1>8. KindsFit' /\ CommitsAreAlone'
  BY <1>0, <1>1, <1>3, SessionsLeaveCalls DEF CreateFresh, Published, Inv, callVars
<1>9. ReservedAlone'
  BY DEF CreateFresh, ReservedAlone, Inv
<1>10. QED
  BY <1>1, <1>4, <1>5, <1>6, <1>7, <1>8, <1>9 DEF Inv

LEMMA PublishKeepsInv ==
    ASSUME Inv, NEW c \in Calls, NEW s \in Lifecycles, Publish(c, s)
    PROVE  Inv'
<1> USE CoordinatorAssumption
<1> DEFINE history == Append(entry.source.log, Event(s, "note"))
<1>0. Published(s, history)
  BY DEF Publish
<1>1. TypeOK /\ TypeOK'
  BY CallStepsKeepTypes DEF Inv, CallStep
<1>2. /\ entry # NoEntry /\ entry.by = c /\ call[c] = "reserved"
      /\ entry.source = Stored /\ entry.source.log = log /\ ~torn
      /\ state = OwnedBy(Nobody, Len(log), TRUE)
      /\ \A i \in DOMAIN chain : chain[i].op \notin Initializations \cup {"append"}
  <2>1. call[c] = "reserved"
    BY DEF Publish
  <2>2. Stored.log = log
    BY DEF Stored
  <2>3. QED
    BY <2>1, <2>2 DEF Inv, ReservedAlone
<1>3. history \in Seq(Events) /\ Len(history) = Len(log) + 1 /\ Len(log) \in Nat
  <2>1. Event(s, "note") \in Events /\ log \in Seq(Events)
    BY <1>1 DEF Event, Events, TypeOK
  <2>2. QED
    BY <1>2, <2>1
<1> HIDE DEF history
<1>4. /\ "suffix" \in Initializations /\ "suffix" \in OfSessions
      /\ state.owner = Nobody /\ state.cursor = Len(log)
      /\ state'.owner = s /\ state'.cursor = Len(log)
  BY <1>2 DEF Initializations, OfSessions, OwnedBy, Publish
<1>5. SessionsQueueOnce' /\ HolderIsLast'
  BY <1>0, <1>1, <1>3, <1>4, PublicationsAreLast DEF Publish, Inv
<1>6. WorkersOwn'
  BY <1>0, <1>1, <1>4, PublicationsDoNoWork DEF Inv
<1>7. Exact'
  BY <1>0, <1>1, <1>4, EnqueueIsExact DEF Publish, Published, Inv, logVars
<1>8. SuffixesFit'
  <2>1. /\ DOMAIN chain = 1 .. Len(chain) /\ Len(chain) \in Nat
        /\ DOMAIN chain' = 1 .. Len(chain) + 1
        /\ \A i \in 1 .. Len(chain) : chain'[i] = chain[i]
        /\ chain'[Len(chain) + 1].op = "suffix" /\ chain'[Len(chain) + 1].of = s
    BY <1>1, EnqueueAddsToTyped DEF Publish
  <2>2. sent'[s] = Len(log) + 1
    BY <1>0, <1>1, <1>3 DEF Published, TypeOK
  <2>3. \A i \in DOMAIN chain' : /\ chain'[i].op # "append"
                                 /\ chain'[i].op = "suffix" => i = Len(chain) + 1
    BY <1>2, <1>4, <2>1
  <2>4. QED
    BY <1>3, <1>4, <2>1, <2>2, <2>3 DEF SuffixesFit
<1>9. entry' = NoEntry /\ UNCHANGED <<kind, source>>
  BY <1>0 DEF Publish, Removes, Published, callVars
<1>10. \A d \in Calls : \/ call'[d] = call[d] /\ d # c
                        \/ /\ call[d] \in {"await", "reserved"}
                           /\ call'[d] \in {"again", "done"}
  BY <1>2 DEF Publish, Removes
<1>11. KindsFit' /\ CommitsAreAlone'
  BY <1>1, <1>4, <1>9, <1>10, SessionsLeaveCalls DEF Publish, Inv
<1>12. ReservedAlone'
  BY <1>2, <1>10 DEF ReservedAlone, Inv
<1>13. QED
  BY <1>1, <1>5, <1>6, <1>7, <1>8, <1>11, <1>12 DEF Inv

LEMMA ProduceKeepsInv ==
    ASSUME Inv, NEW s \in Lifecycles, Produce(s)
    PROVE  Inv'
<1> USE CoordinatorAssumption
<1>1. TypeOK /\ TypeOK'
  BY LifecyclesKeepTypes DEF Inv
<1>2. /\ Len(events'[s]) = Len(events[s]) + 1 /\ Len(events[s]) \in Nat
      /\ \A t \in Lifecycles \ {s} : events'[t] = events[t]
  <2>1. events[s] \in Seq(Events) /\ events \in [Lifecycles -> Seq(Events)]
    BY <1>1 DEF TypeOK
  <2>2. QED
    BY <2>1 DEF Produce
<1>3. \A t \in Lifecycles : Len(events[t]) <= Len(events'[t])
  <2>1. \A t \in Lifecycles : Len(events[t]) \in Nat
    BY <1>1 DEF TypeOK
  <2>2. QED
    BY <1>2, <2>1
<1>4. \A t \in Lifecycles : /\ sent[t] \in Nat /\ batch[t] \in Nat
                            /\ Len(events[t]) \in Nat /\ Len(events'[t]) \in Nat
  <2>1. events \in [Lifecycles -> Seq(Events)] /\ events' \in [Lifecycles -> Seq(Events)]
    BY <1>1 DEF TypeOK
  <2>2. \A t \in Lifecycles : Len(events[t]) \in Nat /\ Len(events'[t]) \in Nat
    BY <2>1
  <2>3. QED
    BY <1>1, <2>2 DEF TypeOK
<1>5. SessionsQueueOnce'
  BY <1>3, <1>4 DEF Inv, SessionsQueueOnce, OfSessions, Produce
<1>6. HolderIsLast' /\ Exact' /\ SuffixesFit' /\ KindsFit'
  BY DEF Inv, HolderIsLast, Exact, SuffixesFit, KindsFit, Produce, logVars, callVars
<1>7. WorkersOwn'
  BY <1>2 DEF Inv, WorkersOwn, HasWork, Produce
<1>8. CommitsAreAlone' /\ ReservedAlone'
  BY <1>1, SessionsLeaveCalls, SessionsLeaveReservations DEF Inv, Produce, logVars, callVars
<1>9. QED
  BY <1>1, <1>5, <1>6, <1>7, <1>8 DEF Inv

\* A link of a session is added that is no initialization.
LEMMA WorkIsQueuedOnce ==
    ASSUME TypeOK, TypeOK', SessionsQueueOnce, HolderIsLast,
           NEW s \in Lifecycles, NEW op \in {"write", "retire"}, Enqueue(op, s),
           UNCHANGED <<holder, init, sent, events>>, init[s] = "ready",
           \A t \in Lifecycles \ {s} :
              writing'[t] = writing[t] /\ batch'[t] = batch[t] /\ retiring'[t] = retiring[t],
           writing[s] = "no",
           \/ op = "write" /\ writing'[s] # "no" /\ batch'[s] <= Len(events[s])
              /\ retiring[s] # "queued" /\ retiring'[s] = retiring[s]
              /\ (writing'[s] = "barrier" => retiring[s] # "no")
           \/ op = "retire" /\ writing'[s] = "no" /\ retiring[s] = "flushing"
              /\ retiring'[s] = "queued"
    PROVE  SessionsQueueOnce' /\ HolderIsLast'
<1>1. /\ DOMAIN chain = 1 .. Len(chain) /\ Len(chain) \in Nat
      /\ DOMAIN chain' = 1 .. Len(chain) + 1
      /\ \A i \in 1 .. Len(chain) : chain'[i] = chain[i]
      /\ chain'[Len(chain) + 1].op = op /\ chain'[Len(chain) + 1].of = s
  BY EnqueueAddsToTyped
<1>2. \A i \in DOMAIN chain : chain[i].op \in OfSessions => chain[i].of \in Lifecycles \ {s}
  BY DEF SessionsQueueOnce, OfSessions, Initializations
<1>3. op \in OfSessions /\ op \notin Initializations
  BY DEF OfSessions, Initializations
<1>4. SessionsQueueOnce'
  <2>1. ASSUME NEW i \in DOMAIN chain'
        PROVE  /\ chain'[i].op \in OfSessions => chain'[i].of \in Lifecycles
               /\ chain'[i].op \in Initializations => init'[chain'[i].of] = "pending"
               /\ chain'[i].op = "write" => /\ init'[chain'[i].of] = "ready"
                                            /\ writing'[chain'[i].of] # "no"
                                            /\ batch'[chain'[i].of] <= Len(events'[chain'[i].of])
               /\ chain'[i].op = "retire" => /\ init'[chain'[i].of] = "ready"
                                             /\ writing'[chain'[i].of] = "no"
                                             /\ retiring'[chain'[i].of] = "queued"
    <3>1. CASE i = Len(chain) + 1
      BY <1>1, <1>3, <3>1
    <3>2. CASE i \in DOMAIN chain
      BY <1>1, <1>2, <3>2 DEF SessionsQueueOnce, OfSessions
    <3>3. QED
      BY <1>1, <3>1, <3>2
  <2>2. ASSUME NEW i \in DOMAIN chain', NEW j \in DOMAIN chain', i # j,
               \/ chain'[i].op \in Initializations /\ chain'[j].op \in Initializations
               \/ chain'[i].op = chain'[j].op /\ chain'[i].op \in {"write", "retire"}
        PROVE  chain'[i].of # chain'[j].of
    <3>1. CASE i \in DOMAIN chain /\ j \in DOMAIN chain
      BY <1>1, <2>2, <3>1 DEF SessionsQueueOnce
    <3>2. CASE i = Len(chain) + 1
      BY <1>1, <1>2, <2>2, <3>2 DEF OfSessions
    <3>3. CASE j = Len(chain) + 1
      BY <1>1, <1>2, <2>2, <3>3 DEF OfSessions
    <3>4. QED
      BY <1>1, <3>1, <3>2, <3>3
  <2>3. \A t \in Lifecycles : /\ sent'[t] <= Len(events'[t])
                              /\ writing'[t] = "barrier" => retiring'[t] # "no"
    BY DEF SessionsQueueOnce
  <2>4. QED
    BY <2>1, <2>2, <2>3 DEF SessionsQueueOnce
<1>5. HolderIsLast'
  <2> SUFFICES ASSUME NEW t \in Lifecycles, holder = t
               PROVE  /\ init[t] # "none" /\ retiring'[t] = "no"
                      /\ init[t] = "pending" =>
                           \E i \in DOMAIN chain' :
                             /\ chain'[i].op \in Initializations /\ chain'[i].of = t
                             /\ \A j \in DOMAIN chain' : j > i => chain'[j].op \notin Initializations
                      /\ init[t] # "pending" =>
                           \A i \in DOMAIN chain' : chain'[i].op \notin Initializations
    BY DEF HolderIsLast
  <2>1. init[t] # "none" /\ retiring'[t] = "no"
    BY DEF HolderIsLast
  <2>2. ASSUME init[t] = "pending"
        PROVE  \E i \in DOMAIN chain' :
                 /\ chain'[i].op \in Initializations /\ chain'[i].of = t
                 /\ \A j \in DOMAIN chain' : j > i => chain'[j].op \notin Initializations
    <3>1. PICK i \in DOMAIN chain :
             /\ chain[i].op \in Initializations /\ chain[i].of = t
             /\ \A j \in DOMAIN chain : j > i => chain[j].op \notin Initializations
      BY <2>2 DEF HolderIsLast
    <3>2. QED
      BY <1>1, <1>3, <3>1
  <2>3. ASSUME init[t] # "pending", NEW i \in DOMAIN chain'
        PROVE  chain'[i].op \notin Initializations
    BY <1>1, <1>3, <2>3 DEF HolderIsLast
  <2>4. QED
    BY <2>1, <2>2, <2>3
<1>6. QED
  BY <1>4, <1>5

\* The same of what a first event that still fits needs.
LEMMA EnqueueKeepsSuffixes ==
    ASSUME TypeOK, SuffixesFit, UNCHANGED <<state, sent>>,
           NEW op, op \notin {"suffix", "append"}, NEW of, Enqueue(op, of)
    PROVE  SuffixesFit'
<1>1. /\ DOMAIN chain = 1 .. Len(chain) /\ Len(chain) \in Nat
      /\ DOMAIN chain' = 1 .. Len(chain) + 1
      /\ \A i \in 1 .. Len(chain) : chain'[i] = chain[i]
      /\ chain'[Len(chain) + 1].op = op
  BY EnqueueAddsToTyped
<1>2. QED
  BY <1>1 DEF SuffixesFit

LEMMA StartWriteKeepsInv ==
    ASSUME Inv, NEW s \in Lifecycles, StartWrite(s)
    PROVE  Inv'
<1> USE CoordinatorAssumption
<1>1. TypeOK /\ TypeOK'
  BY LifecyclesKeepTypes DEF Inv
<1>2. /\ writing'[s] = IF retiring[s] = "no" THEN "background" ELSE "barrier"
      /\ batch'[s] = Len(events[s])
      /\ \A t \in Lifecycles \ {s} : writing'[t] = writing[t] /\ batch'[t] = batch[t]
  BY <1>1 DEF StartWrite, TypeOK
<1>3. Len(events[s]) <= Len(events[s])
  <2>1. Len(events[s]) \in Nat
    BY <1>1 DEF TypeOK
  <2>2. QED
    BY <2>1
<1>4. SessionsQueueOnce' /\ HolderIsLast'
  BY <1>1, <1>2, <1>3, WorkIsQueuedOnce DEF StartWrite, Inv
<1>5. WorkersOwn'
  BY <1>2 DEF Inv, WorkersOwn, HasWork, StartWrite
<1>6. Exact' /\ SuffixesFit'
  BY <1>1, EnqueueIsExact, EnqueueKeepsSuffixes DEF Inv, StartWrite, logVars
<1>7. KindsFit' /\ CommitsAreAlone'
  <2>1. "write" \in OfSessions /\ "write" \notin Initializations
    BY DEF OfSessions, Initializations
  <2>2. QED
    BY <1>1, <2>1, SessionsLeaveCalls DEF StartWrite, Inv, callVars
<1>8. ReservedAlone'
  BY <1>1, SessionsLeaveReservations DEF StartWrite, Inv, logVars
<1>9. QED
  BY <1>1, <1>4, <1>5, <1>6, <1>7, <1>8 DEF Inv

LEMMA DisposeKeepsInv ==
    ASSUME Inv, NEW s \in Lifecycles, Dispose(s)
    PROVE  Inv'
<1> USE CoordinatorAssumption
<1>1. TypeOK /\ TypeOK'
  BY LifecyclesKeepTypes DEF Inv
<1>2. /\ retiring[s] = "no" /\ retiring'[s] = "flushing"
      /\ \A t \in Lifecycles \ {s} : retiring'[t] = retiring[t]
  BY <1>1 DEF Inv, HolderIsLast, Dispose, TypeOK
<1>3. SessionsQueueOnce'
  BY <1>2 DEF Inv, SessionsQueueOnce, OfSessions, Dispose
<1>4. HolderIsLast' /\ Exact' /\ SuffixesFit' /\ KindsFit'
  BY DEF Inv, HolderIsLast, Exact, SuffixesFit, KindsFit, Dispose, logVars, callVars
<1>5. WorkersOwn'
  BY DEF Inv, WorkersOwn, HasWork, Dispose
<1>6. CommitsAreAlone' /\ ReservedAlone'
  BY <1>1, SessionsLeaveCalls, SessionsLeaveReservations DEF Inv, Dispose, logVars, callVars
<1>7. QED
  BY <1>1, <1>3, <1>4, <1>5, <1>6 DEF Inv

LEMMA FlushedKeepsInv ==
    ASSUME Inv, NEW s \in Lifecycles, Flushed(s)
    PROVE  Inv'
<1> USE CoordinatorAssumption
<1>1. TypeOK /\ TypeOK'
  BY LifecyclesKeepTypes DEF Inv
<1>2. CASE init[s] = "failed" /\ Settles(s, "failed") /\ UNCHANGED chain
  <2>1. /\ retiring[s] = "flushing" /\ retiring'[s] = "failed"
        /\ \A t \in Lifecycles \ {s} : retiring'[t] = retiring[t]
    BY <1>1, <1>2 DEF Flushed, Settles, TypeOK
  <2>2. SessionsQueueOnce'
    BY <1>2, <2>1 DEF Inv, SessionsQueueOnce, OfSessions, Flushed
  <2>3. HolderIsLast'
    BY <1>2, <2>1 DEF Inv, HolderIsLast, Flushed
  <2>4. WorkersOwn' /\ Exact' /\ SuffixesFit'
    BY <1>2 DEF Inv, WorkersOwn, HasWork, Exact, SuffixesFit, Flushed, logVars
  <2>5. \A c \in Calls : \/ call'[c] = call[c]
                         \/ call[c] = "drain" /\ call'[c] \in {"rejected", "enter"}
    BY <1>2 DEF Settles
  <2>6. KindsFit' /\ CommitsAreAlone'
    BY <1>1, <1>2, <2>5, SessionsLeaveCalls DEF Inv, Flushed, callVars
  <2>7. ReservedAlone'
    BY <1>1, <1>2, <2>5, SessionsLeaveReservations DEF Inv, Flushed, logVars
  <2>8. QED
    BY <1>1, <2>2, <2>3, <2>4, <2>6, <2>7 DEF Inv
<1>3. CASE /\ init[s] = "ready" /\ ~HasWork(s)
           /\ retiring' = [retiring EXCEPT ![s] = "queued"]
           /\ Enqueue("retire", s)
           /\ UNCHANGED <<retirement, call>>
  <2>1. /\ retiring[s] = "flushing" /\ retiring'[s] = "queued" /\ writing[s] = "no"
        /\ \A t \in Lifecycles \ {s} : retiring'[t] = retiring[t]
    BY <1>1, <1>3 DEF Flushed, HasWork, TypeOK
  <2>2. SessionsQueueOnce' /\ HolderIsLast'
    BY <1>1, <1>3, <2>1, WorkIsQueuedOnce DEF Flushed, Inv
  <2>3. WorkersOwn'
    BY <1>3 DEF Inv, WorkersOwn, HasWork, Flushed
  <2>4. Exact' /\ SuffixesFit'
    BY <1>1, <1>3, EnqueueIsExact, EnqueueKeepsSuffixes DEF Inv, Flushed, logVars
  <2>5. KindsFit' /\ CommitsAreAlone'
    <3>1. "retire" \in OfSessions /\ "retire" \notin Initializations
      BY DEF OfSessions, Initializations
    <3>2. QED
      BY <1>1, <1>3, <3>1, SessionsLeaveCalls DEF Flushed, Inv, callVars
  <2>6. ReservedAlone'
    BY <1>1, <1>3, SessionsLeaveReservations DEF Flushed, Inv, logVars
  <2>7. QED
    BY <1>1, <2>2, <2>3, <2>4, <2>5, <2>6 DEF Inv
<1>4. QED
  BY <1>2, <1>3 DEF Flushed

LEMMA ReloadKeepsInv ==
    ASSUME Inv, Reload
    PROVE  Inv'
<1> USE CoordinatorAssumption
<1>1. TypeOK /\ TypeOK'
  BY ReloadKeepsTypes DEF Inv
<1>2. /\ chain = <<>>
      /\ \A i \in DOMAIN chain' : /\ i = 1 /\ holder \in Lifecycles
                                  /\ chain'[i] = [op |-> "created", of |-> holder]
      /\ holder # Nobody => 1 \in DOMAIN chain' /\ chain' # <<>>
      /\ chain' # <<>> => Head(chain') = [op |-> "created", of |-> holder]
  <2>1. CASE holder = Nobody
    BY <2>1 DEF Reload
  <2>2. CASE holder # Nobody
    <3> DEFINE first == [op |-> "created", of |-> holder]
    <3>1. chain = <<>> /\ chain' = Append(chain, first) /\ holder \in Lifecycles
      BY <1>1, <2>2 DEF Reload, Enqueue, TypeOK
    <3> HIDE DEF first
    <3>2. chain' = <<first>>
      BY <3>1
    <3>3. QED
      BY <2>2, <3>1, <3>2 DEF first
  <2>3. QED
    BY <2>1, <2>2
<1>3. /\ "created" \in Initializations /\ "created" \in OfSessions
      /\ "created" \notin {"write", "retire", "suffix", "commit", "current", "append"}
  BY DEF Initializations, OfSessions
<1>4. \A s \in Lifecycles : /\ init'[s] = IF s = holder THEN "pending" ELSE "none"
                            /\ sent'[s] <= Len(events[s])
  <2>1. \A s \in Lifecycles : Len(events[s]) \in Nat
    BY <1>1 DEF TypeOK
  <2>2. QED
    BY <2>1 DEF Reload, Inv, SessionsQueueOnce
<1>5. SessionsQueueOnce'
  BY <1>2, <1>3, <1>4 DEF Inv, SessionsQueueOnce, Reload
<1>6. HolderIsLast'
  <2>1. \A j \in DOMAIN chain' : ~(j > 1)
    BY <1>2
  <2>2. QED
    BY <1>2, <1>3, <1>4, <2>1 DEF Inv, HolderIsLast, Reload
<1>7. WorkersOwn'
  BY <1>4 DEF WorkersOwn
<1>8. Exact'
  BY <1>2, <1>3 DEF Inv, Exact, Reload, NoState, logVars
<1>9. SuffixesFit'
  BY <1>2, <1>3 DEF SuffixesFit
<1>10. KindsFit'
  BY <1>2, <1>3 DEF Inv, KindsFit, Reload, callVars
<1>11. CommitsAreAlone'
  BY <1>2, <1>3 DEF CommitsAreAlone, Reload, Mine
<1>12. ReservedAlone'
  BY DEF ReservedAlone, Reload
<1>13. QED
  BY <1>1, <1>5, <1>6, <1>7, <1>8, <1>9, <1>10, <1>11, <1>12 DEF Inv

-----------------------------------------------------------------------------
(***************************************************************************)
(* The operations of sessions in the chain.                                *)
(***************************************************************************)

\* A link of a session that was at the front was its only one.
LEMMA SessionLinkEnds ==
    ASSUME TypeOK, SessionsQueueOnce, NEW s \in Lifecycles, NEW op \in OfSessions,
           AtFront(op, s), Ends
    PROVE  /\ \A i \in DOMAIN chain' :
                /\ i \in Nat /\ i + 1 \in DOMAIN chain /\ chain'[i] = chain[i + 1]
                /\ chain'[i].op \in OfSessions => chain'[i].of \in Lifecycles \ {s}
           /\ \A i \in DOMAIN chain : i \in Nat /\ (i # 1 => i - 1 \in DOMAIN chain')
           /\ 1 \in DOMAIN chain /\ chain[1].op = op /\ chain[1].of = s
<1>1. /\ DOMAIN chain = 1 .. Len(chain) /\ Len(chain) \in Nat \ {0}
      /\ DOMAIN chain' = 1 .. Len(chain) - 1
      /\ \A i \in 1 .. Len(chain) - 1 : chain'[i] = chain[i + 1]
      /\ 1 \in DOMAIN chain /\ chain[1].op = op /\ chain[1].of = s
  BY EndsRemovesFromTyped
<1>2. ASSUME NEW i \in DOMAIN chain', chain'[i].op \in OfSessions
      PROVE  chain'[i].of \in Lifecycles \ {s}
  <2>1. i + 1 \in DOMAIN chain /\ chain'[i] = chain[i + 1] /\ i + 1 # 1
    BY <1>1
  <2>2. chain[i + 1].of \in Lifecycles
    BY <1>2, <2>1 DEF SessionsQueueOnce
  <2>3. ASSUME chain[i + 1].of = s
        PROVE  FALSE
    <3>1. \/ op \in Initializations /\ chain[i + 1].op \in Initializations
          \/ op \in Initializations /\ chain[i + 1].op \in {"write", "retire"}
          \/ op \in {"write", "retire"} /\ chain[i + 1].op \in Initializations
          \/ op \in {"write", "retire"} /\ chain[i + 1].op \in {"write", "retire"}
      BY <1>2, <2>1 DEF OfSessions
    <3>2. QED
      BY <1>1, <2>1, <2>3, <3>1 DEF SessionsQueueOnce
  <2>4. QED
    BY <2>1, <2>2, <2>3
<1>3. QED
  BY <1>1, <1>2

\* The others are queued as before.
LEMMA OthersAreQueued ==
    ASSUME TypeOK, TypeOK', SessionsQueueOnce, HolderIsLast,
           NEW s \in Lifecycles, NEW op \in OfSessions, AtFront(op, s), Ends,
           UNCHANGED <<holder, events>>,
           \A t \in Lifecycles \ {s} :
              /\ init'[t] = init[t] /\ writing'[t] = writing[t] /\ batch'[t] = batch[t]
              /\ retiring'[t] = retiring[t] /\ sent'[t] = sent[t],
           sent'[s] <= Len(events[s]), writing'[s] = "barrier" => retiring'[s] # "no",
           holder = s => init'[s] \notin {"none", "pending"} /\ retiring'[s] = "no"
    PROVE  SessionsQueueOnce' /\ HolderIsLast'
<1>1. /\ \A i \in DOMAIN chain' :
           /\ i \in Nat /\ i + 1 \in DOMAIN chain /\ chain'[i] = chain[i + 1]
           /\ chain'[i].op \in OfSessions => chain'[i].of \in Lifecycles \ {s}
      /\ \A i \in DOMAIN chain : i \in Nat /\ (i # 1 => i - 1 \in DOMAIN chain')
      /\ 1 \in DOMAIN chain /\ chain[1].op = op /\ chain[1].of = s
  BY SessionLinkEnds
<1>2. Initializations \subseteq OfSessions /\ "write" \in OfSessions /\ "retire" \in OfSessions
  BY DEF OfSessions
<1>3. \A i, j \in DOMAIN chain' : /\ i # j => i + 1 # j + 1
                                  /\ i > j => i + 1 > j + 1
  BY <1>1
<1>4. SessionsQueueOnce'
  BY <1>1, <1>2, <1>3 DEF SessionsQueueOnce
<1>5. HolderIsLast'
  <2> SUFFICES ASSUME NEW t \in Lifecycles, holder = t
               PROVE  /\ init'[t] # "none" /\ retiring'[t] = "no"
                      /\ init'[t] = "pending" =>
                           \E i \in DOMAIN chain' :
                             /\ chain'[i].op \in Initializations /\ chain'[i].of = t
                             /\ \A j \in DOMAIN chain' : j > i => chain'[j].op \notin Initializations
                      /\ init'[t] # "pending" =>
                           \A i \in DOMAIN chain' : chain'[i].op \notin Initializations
    BY DEF HolderIsLast
  <2>1. init'[t] # "none" /\ retiring'[t] = "no"
    BY DEF HolderIsLast
  <2>2. ASSUME init'[t] = "pending"
        PROVE  \E i \in DOMAIN chain' :
                 /\ chain'[i].op \in Initializations /\ chain'[i].of = t
                 /\ \A j \in DOMAIN chain' : j > i => chain'[j].op \notin Initializations
    <3>1. t # s /\ init[t] = "pending"
      BY <2>2
    <3>2. PICK i \in DOMAIN chain :
             /\ chain[i].op \in Initializations /\ chain[i].of = t
             /\ \A j \in DOMAIN chain : j > i => chain[j].op \notin Initializations
      BY <3>1 DEF HolderIsLast
    <3>3. i # 1 /\ i - 1 \in DOMAIN chain' /\ chain'[i - 1] = chain[i]
      BY <1>1, <3>1, <3>2
    <3>4. \A j \in DOMAIN chain' : j > i - 1 => j + 1 > i
      BY <1>1
    <3>5. QED
      BY <1>1, <3>2, <3>3, <3>4
  <2>3. ASSUME init'[t] # "pending", NEW k \in DOMAIN chain'
        PROVE  chain'[k].op \notin Initializations
    <3>1. CASE init[t] # "pending"
      BY <1>1, <3>1 DEF HolderIsLast
    <3>2. CASE init[t] = "pending"
      <4>1. t = s
        BY <2>3, <3>2
      <4>2. PICK i \in DOMAIN chain :
               /\ chain[i].op \in Initializations /\ chain[i].of = t
               /\ \A j \in DOMAIN chain : j > i => chain[j].op \notin Initializations
        BY <3>2 DEF HolderIsLast
      <4>3. i = 1
        BY <1>1, <1>2, <4>1, <4>2
      <4>4. k + 1 > 1
        BY <1>1
      <4>5. QED
        BY <1>1, <4>2, <4>3, <4>4
    <3>3. QED
      BY <3>1, <3>2
  <2>4. QED
    BY <2>1, <2>2, <2>3
<1>6. QED
  BY <1>4, <1>5

\* A landing ends where the bookkeeping says.
LEMMA LandsIsExact ==
    ASSUME TypeOK, NEW s \in Lifecycles, NEW cursor \in Nat, NEW upto \in Nat,
           cursor <= upto, upto <= Len(events[s]), cursor = Len(log), Lands(s, cursor, upto)
    PROVE  /\ state'.owner = s /\ state'.cursor = upto /\ Len(log') = upto
           /\ entry' = NoEntry
           /\ \A c \in Calls : \/ call'[c] = call[c]
                               \/ call[c] = "await" /\ call'[c] = "again"
<1> USE CoordinatorAssumption
<1>1. events[s] \in Seq(Events) /\ log \in Seq(Events) /\ Len(events[s]) \in Nat
  BY DEF TypeOK
<1>2. /\ SubSeq(events[s], cursor + 1, upto) \in Seq(Events)
      /\ Len(SubSeq(events[s], cursor + 1, upto)) = upto - cursor
  <2>1. \A i \in cursor + 1 .. upto : events[s][i] \in Events
    BY <1>1
  <2>2. SubSeq(events[s], cursor + 1, upto) \in Seq(Events)
    BY <2>1, SubSeqProperties
  <2>3. Len(SubSeq(events[s], cursor + 1, upto)) = upto - cursor
    BY <1>1, SubSeqProperties
  <2>4. QED
    BY <2>2, <2>3
<1>3. Len(log') = Len(log) + (upto - cursor)
  <2>1. log' = log \o SubSeq(events[s], cursor + 1, upto)
    BY DEF Lands
  <2>2. QED
    BY <1>1, <1>2, <2>1, ConcatProperties
<1>4. state'.owner = s /\ state'.cursor = upto
  BY DEF Lands, OwnedBy
<1>5. entry' = NoEntry /\ \A c \in Calls : \/ call'[c] = call[c]
                                           \/ call[c] = "await" /\ call'[c] = "again"
  BY DEF Lands, Invalidates, Removes
<1>6. QED
  BY <1>1, <1>3, <1>4, <1>5

\* Who takes the identity at the end of the log has it at the end of the log.
LEMMA TakesOwnershipIsExact ==
    ASSUME TypeOK, NEW s \in Lifecycles, sent[s] <= Len(events[s]),
           NEW materialized, TakesOwnership(s, Len(log), materialized)
    PROVE  /\ state'.owner = s /\ state'.cursor = Len(log')
           /\ init'[s] \in {"ready", "failed"}
           /\ \A t \in Lifecycles \ {s} : init'[t] = init[t]
           /\ entry' \in {entry, NoEntry}
           /\ \A c \in Calls : \/ call'[c] = call[c]
                               \/ call[c] = "await" /\ call'[c] = "again"
<1>1. sent[s] \in Nat /\ Len(log) \in Nat /\ init \in [Lifecycles -> {"none", "pending", "ready", "failed"}]
  BY DEF TypeOK
<1>2. CASE /\ sent[s] > Len(log) /\ init' = [init EXCEPT ![s] = "ready"]
           /\ Lands(s, Len(log), sent[s])
  <2>1. Len(log) <= sent[s]
    BY <1>1, <1>2
  <2>2. /\ state'.owner = s /\ state'.cursor = sent[s] /\ Len(log') = sent[s]
        /\ entry' = NoEntry
        /\ \A c \in Calls : \/ call'[c] = call[c]
                            \/ call[c] = "await" /\ call'[c] = "again"
    BY <1>1, <1>2, <2>1, LandsIsExact
  <2>3. QED
    BY <1>1, <1>2, <2>2
<1>3. CASE /\ init' \in {[init EXCEPT ![s] = "ready"], [init EXCEPT ![s] = "failed"]}
           /\ state' = OwnedBy(s, Len(log), materialized)
           /\ UNCHANGED <<log, entry, call>>
  BY <1>1, <1>3 DEF OwnedBy
<1>4. QED
  BY <1>2, <1>3 DEF TakesOwnership

\* What an initialization does to the bookkeeping.
Initializes(s) ==
    /\ \/ state'.owner = s /\ state'.cursor = Len(log') /\ ~torn'
       \/ init'[s] = "failed" /\ state' \in {state, NoState} /\ UNCHANGED <<log, torn>>
    /\ init'[s] \in {"ready", "failed"}
    /\ \A t \in Lifecycles \ {s} : init'[t] = init[t]
    /\ \A t \in Lifecycles \ {s} :
          init[t] = "ready" /\ HasWork(t) /\ state.owner = t => state' = state
    /\ entry' \in {entry, NoEntry}
    /\ \A c \in Calls : \/ call'[c] = call[c]
                        \/ call[c] = "await" /\ call'[c] = "again"

LEMMA InitializationKeepsInv ==
    ASSUME Inv, TypeOK', NEW s \in Lifecycles, NEW op \in Initializations, AtHead(op, s), Ends,
           Initializes(s),
           UNCHANGED <<holder, events, sent, writing, batch, retiring, kind, source>>
    PROVE  Inv'
<1> USE CoordinatorAssumption
<1>1. TypeOK /\ AtFront(op, s) /\ op \in OfSessions
  BY DEF Inv, AtHead, OfSessions
<1>2. /\ \A i \in DOMAIN chain' :
           /\ i \in Nat /\ i + 1 \in DOMAIN chain /\ chain'[i] = chain[i + 1]
           /\ chain'[i].op \in OfSessions => chain'[i].of \in Lifecycles \ {s}
      /\ 1 \in DOMAIN chain /\ chain[1].op = op /\ chain[1].of = s
  BY <1>1, SessionLinkEnds DEF Inv
<1>3. \A c \in Calls : call[c] # "reserved"
  BY <1>2 DEF Inv, ReservedAlone
<1>4. SessionsQueueOnce' /\ HolderIsLast'
  <2>1. /\ sent'[s] <= Len(events[s]) /\ (writing'[s] = "barrier" => retiring'[s] # "no")
        /\ \A t \in Lifecycles : holder = t => retiring[t] = "no"
    BY DEF Inv, SessionsQueueOnce, HolderIsLast
  <2>2. SessionsQueueOnce /\ HolderIsLast
    BY DEF Inv
  <2>3. \A t \in Lifecycles \ {s} : init'[t] = init[t]
    BY DEF Initializes
  <2>4. init'[s] \notin {"none", "pending"}
    BY DEF Initializes
  <2>5. QED
    BY <1>1, <2>1, <2>2, <2>3, <2>4, OthersAreQueued
<1>5. WorkersOwn'
  <2> SUFFICES ASSUME NEW t \in Lifecycles, init'[t] = "ready", holder = t \/ HasWork(t)
               PROVE  state'.owner = t
    BY DEF WorkersOwn, HasWork
  <2>1. CASE t = s
    BY <2>1 DEF Initializes
  <2>2. CASE t # s
    <3>1. init[t] = "ready" /\ state.owner = t
      BY <2>2 DEF Initializes, Inv, WorkersOwn
    <3>2. holder # t
      BY <1>2, <3>1 DEF Inv, HolderIsLast
    <3>3. QED
      BY <2>2, <3>1, <3>2 DEF Initializes
  <2>3. QED
    BY <2>1, <2>2
<1>6. Exact'
  <2>1. ~running'
    BY DEF Ends
  <2>2. CASE state'.owner = s /\ state'.cursor = Len(log') /\ ~torn'
    BY <2>1, <2>2 DEF Exact
  <2>3. CASE state' \in {state, NoState} /\ UNCHANGED <<log, torn>>
    BY <2>1, <2>3 DEF Exact, Inv, NoState
  <2>4. QED
    BY <2>2, <2>3 DEF Initializes
<1>7. SuffixesFit'
  <2> SUFFICES ASSUME NEW i \in DOMAIN chain', chain'[i].op = "suffix"
               PROVE  /\ \A j \in DOMAIN chain' : chain'[j].op # "append"
                      /\ state'.owner = chain'[i].of => state'.cursor <= sent[chain'[i].of]
    BY DEF SuffixesFit
  <2>1. chain'[i].of \in Lifecycles \ {s}
    BY <1>2 DEF OfSessions, Initializations
  <2>2. state'.owner = chain'[i].of => state' = state
    BY <2>1 DEF Initializes, NoState
  <2>3. QED
    BY <1>2, <2>2 DEF Inv, SuffixesFit
<1>8. KindsFit' /\ CommitsAreAlone'
  BY <1>1, SessionsLeaveCalls DEF Inv, Initializes
<1>9. ReservedAlone'
  BY <1>3 DEF ReservedAlone, Initializes
<1>10. QED
  BY <1>4, <1>5, <1>6, <1>7, <1>8, <1>9 DEF Inv

LEMMA CreatedKeepsInv ==
    ASSUME Inv, NEW s \in Lifecycles, Created(s)
    PROVE  Inv'
<1> USE CoordinatorAssumption
<1>1. TypeOK /\ TypeOK'
  BY SessionOperationsKeepTypes DEF Inv, SessionOperation
<1>2. sent[s] <= Len(events[s]) /\ Len(log) \in Nat
  BY <1>1 DEF Inv, SessionsQueueOnce, TypeOK
<1>3. Untracked => \A t \in Lifecycles : ~(init[t] = "ready" /\ HasWork(t) /\ state.owner = t)
  BY DEF Untracked, Abandoned, NoState
<1>4. Initializes(s)
  <2>1. CASE \E cursor, materialized :
               /\ cursor = Len(log) /\ TakesOwnership(s, cursor, materialized) /\ ~torn'
               /\ state.owner = Nobody \/ Untracked
    BY <1>1, <1>2, <1>3, <2>1, TakesOwnershipIsExact DEF Initializes
  <2>2. CASE /\ init' = [init EXCEPT ![s] = "failed"]
             /\ state' = IF Abandoned THEN NoState ELSE state
             /\ UNCHANGED <<log, torn, entry, call>>
    <3>1. init'[s] = "failed" /\ \A t \in Lifecycles \ {s} : init'[t] = init[t]
      BY <1>1, <2>2 DEF TypeOK
    <3>2. Abandoned => Untracked
      BY DEF Untracked
    <3>3. QED
      BY <1>3, <2>2, <3>1, <3>2 DEF Initializes
  <2>3. CASE /\ ~Untracked /\ state.owner = Nobody
             /\ TakesOwnership(s, state.cursor, state.materialized) /\ UNCHANGED torn
    BY <2>1, <2>3 DEF Inv, Exact
  <2>4. CASE Untracked /\ TakesOwnership(s, Len(log), TRUE) /\ torn' = FALSE
    BY <2>1, <2>4
  <2>5. CASE Untracked /\ log = <<>> /\ TakesOwnership(s, 0, FALSE) /\ UNCHANGED torn
    <3>1. Len(log) = 0 /\ ~torn
      BY <2>5 DEF Inv, Exact
    <3>2. QED
      BY <2>1, <2>5, <3>1
  <2>6. QED
    BY <2>2, <2>3, <2>4, <2>5 DEF Created
<1>5. AtHead("created", s) /\ Ends
      /\ UNCHANGED <<holder, events, sent, writing, batch, retiring, kind, source>>
  BY DEF Created, callVars
<1>6. "created" \in Initializations
  BY DEF Initializations
<1>7. QED
  BY <1>1, <1>4, <1>5, <1>6, InitializationKeepsInv

LEMMA SuffixKeepsInv ==
    ASSUME Inv, NEW s \in Lifecycles, Suffix(s)
    PROVE  Inv'
<1> USE CoordinatorAssumption
<1>1. TypeOK /\ TypeOK'
  BY SessionOperationsKeepTypes DEF Inv, SessionOperation
<1>2. AtHead("suffix", s) /\ Ends
      /\ UNCHANGED <<torn, holder, events, sent, writing, batch, retiring, kind, source>>
  BY DEF Suffix, callVars
<1>3. Initializes(s)
  <2>1. CASE /\ state = OwnedBy(s, state.cursor, state.materialized)
             /\ init' = [init EXCEPT ![s] = "ready"]
             /\ Lands(s, state.cursor, sent[s])
    <3>1. state.owner = s /\ state.cursor \in Nat /\ sent[s] \in Nat
      <4>1. OwnedBy(s, state.cursor, state.materialized).owner = s
        BY DEF OwnedBy
      <4>2. state.cursor \in Nat
        BY <1>1, StateIsTyped
      <4>3. QED
        BY <1>1, <2>1, <4>1, <4>2 DEF TypeOK
    <3>2. state.cursor = Len(log) /\ ~torn
      BY <3>1 DEF Inv, Exact
    <3>3. 1 \in DOMAIN chain /\ chain[1].op = "suffix" /\ chain[1].of = s
      BY <1>1, <1>2, EndsRemovesFromTyped DEF AtHead
    <3>4. state.cursor <= sent[s] /\ sent[s] <= Len(events[s])
      BY <3>1, <3>3 DEF Inv, SuffixesFit, SessionsQueueOnce
    <3>5. /\ state'.owner = s /\ state'.cursor = sent[s] /\ Len(log') = sent[s]
          /\ entry' = NoEntry
          /\ \A c \in Calls : \/ call'[c] = call[c]
                              \/ call[c] = "await" /\ call'[c] = "again"
      BY <1>1, <2>1, <3>1, <3>2, <3>4, LandsIsExact
    <3>6. init'[s] = "ready" /\ \A t \in Lifecycles \ {s} : init'[t] = init[t]
      BY <1>1, <2>1 DEF TypeOK
    <3>7. QED
      BY <1>2, <3>1, <3>2, <3>5, <3>6 DEF Initializes
  <2>2. CASE init' = [init EXCEPT ![s] = "failed"] /\ UNCHANGED <<log, state, entry, call>>
    BY <1>1, <1>2, <2>2 DEF Initializes, TypeOK
  <2>3. QED
    BY <2>1, <2>2 DEF Suffix
<1>4. "suffix" \in Initializations
  BY DEF Initializations
<1>5. QED
  BY <1>1, <1>2, <1>3, <1>4, InitializationKeepsInv

\* Only the head of the chain is looked at when an operation begins.
LEMMA BeginsKeepsInv ==
    ASSUME Inv, TypeOK', NEW op, op # "append", NEW of, AtHead(op, of), Begins,
           UNCHANGED <<logVars, holder, lifeVars, state, entry, call, kind, source>>
    PROVE  Inv'
<1>1. Head(chain).op # "append" /\ chain # <<>>
  BY DEF AtHead, AtFront
<1>2. Exact'
  BY <1>1 DEF Inv, Exact, Begins, logVars
<1>3. SessionsQueueOnce' /\ HolderIsLast'
  BY DEF Inv, SessionsQueueOnce, HolderIsLast, Begins, lifeVars
<1>4. WorkersOwn' /\ SuffixesFit'
  BY DEF Inv, WorkersOwn, SuffixesFit, HasWork, Begins, lifeVars
<1>5. KindsFit' /\ CommitsAreAlone'
  BY DEF Inv, KindsFit, CommitsAreAlone, Mine, Begins
<1>6. ReservedAlone'
  BY DEF Inv, ReservedAlone, Stored, Begins, logVars
<1>7. QED
  BY <1>2, <1>3, <1>4, <1>5, <1>6 DEF Inv

\* Behind an operation of a session that is no initialization, what fits still fits.
LEMMA SessionLinkKeepsSuffixes ==
    ASSUME TypeOK, SessionsQueueOnce, SuffixesFit,
           NEW s \in Lifecycles, NEW op \in OfSessions, AtFront(op, s), Ends,
           state'.owner \in Lifecycles \ {s} => state' = state,
           \A t \in Lifecycles \ {s} : sent'[t] = sent[t]
    PROVE  SuffixesFit'
<1>1. \A i \in DOMAIN chain' :
         /\ i + 1 \in DOMAIN chain /\ chain'[i] = chain[i + 1]
         /\ chain'[i].op \in OfSessions => chain'[i].of \in Lifecycles \ {s}
  BY SessionLinkEnds
<1>2. "suffix" \in OfSessions
  BY DEF OfSessions, Initializations
<1>3. ASSUME NEW i \in DOMAIN chain', chain'[i].op = "suffix"
      PROVE  /\ \A j \in DOMAIN chain' : chain'[j].op # "append"
             /\ state'.owner = chain'[i].of => state'.cursor <= sent'[chain'[i].of]
  BY <1>1, <1>2, <1>3 DEF SuffixesFit
<1>4. QED
  BY <1>3 DEF SuffixesFit

LEMMA WriteLandsKeepsInv ==
    ASSUME Inv, NEW s \in Lifecycles, WriteLands(s)
    PROVE  Inv'
<1> USE CoordinatorAssumption
<1>1. TypeOK /\ TypeOK'
  BY SessionOperationsKeepTypes DEF Inv, SessionOperation
<1>2. AtFront("write", s) /\ Ends /\ "write" \in OfSessions
  BY DEF WriteLands, Running, OfSessions
<1>3. 1 \in DOMAIN chain /\ chain[1].op = "write" /\ chain[1].of = s
  BY <1>1, <1>2, EndsRemovesFromTyped
<1>4. /\ init[s] = "ready" /\ writing[s] # "no" /\ batch[s] <= Len(events[s])
  BY <1>3 DEF Inv, SessionsQueueOnce
<1>5. state.owner = s /\ state.cursor = Len(log) /\ ~torn
  BY <1>4 DEF Inv, WorkersOwn, HasWork, Exact
<1>6. /\ state'.owner = s /\ state'.cursor = Len(log') /\ ~torn' /\ entry' \in {entry, NoEntry}
      /\ \A c \in Calls : \/ call'[c] = call[c]
                          \/ call[c] = "await" /\ call'[c] = "again"
  <2>1. CASE state.cursor < batch[s] /\ Lands(s, state.cursor, batch[s])
    <3>1. state.cursor \in Nat /\ batch[s] \in Nat
      BY <1>1, StateIsTyped DEF TypeOK
    <3>2. state.cursor <= batch[s]
      BY <2>1, <3>1
    <3>3. /\ state'.owner = s /\ state'.cursor = batch[s] /\ Len(log') = batch[s]
          /\ entry' = NoEntry
          /\ \A c \in Calls : \/ call'[c] = call[c]
                              \/ call[c] = "await" /\ call'[c] = "again"
      BY <1>1, <1>4, <1>5, <2>1, <3>1, <3>2, LandsIsExact
    <3>4. QED
      BY <1>5, <3>3 DEF WriteLands
  <2>2. CASE UNCHANGED <<log, state, entry, call>>
    BY <1>5, <2>2 DEF WriteLands
  <2>3. QED
    BY <2>1, <2>2 DEF WriteLands
<1>7. /\ sent'[s] = batch[s] /\ writing'[s] = "no"
      /\ \A t \in Lifecycles \ {s} : sent'[t] = sent[t] /\ writing'[t] = writing[t]
  BY <1>1 DEF WriteLands, TypeOK
<1>8. SessionsQueueOnce' /\ HolderIsLast'
  <2>1. SessionsQueueOnce /\ HolderIsLast /\ \A t \in Lifecycles : holder = t => retiring[t] = "no"
    BY DEF Inv, HolderIsLast
  <2>2. QED
    BY <1>1, <1>2, <1>4, <1>7, <2>1, OthersAreQueued DEF WriteLands
<1>9. WorkersOwn'
  <2> SUFFICES ASSUME NEW t \in Lifecycles, init'[t] = "ready", holder' = t \/ HasWork(t)'
               PROVE  state'.owner = t
    BY DEF WorkersOwn
  <2>1. CASE t # s
    BY <1>5, <1>7, <2>1 DEF Inv, WorkersOwn, HasWork, WriteLands
  <2>2. QED
    BY <1>6, <2>1
<1>10. Exact'
  BY <1>6 DEF Exact, Ends, WriteLands
<1>11. SuffixesFit'
  BY <1>1, <1>2, <1>6, <1>7, SessionLinkKeepsSuffixes DEF Inv
<1>12. KindsFit' /\ CommitsAreAlone'
  BY <1>1, <1>2, <1>6, SessionsLeaveCalls DEF Inv, WriteLands, callVars
<1>13. ReservedAlone'
  <2>1. \A c \in Calls : call[c] # "reserved"
    BY <1>5 DEF Inv, ReservedAlone, OwnedBy
  <2>2. QED
    BY <1>6, <2>1 DEF ReservedAlone
<1>14. QED
  BY <1>1, <1>8, <1>9, <1>10, <1>11, <1>12, <1>13 DEF Inv

LEMMA WriteFailsKeepsInv ==
    ASSUME Inv, NEW s \in Lifecycles, WriteFails(s)
    PROVE  Inv'
<1> USE CoordinatorAssumption
<1>1. TypeOK /\ TypeOK'
  BY SessionOperationsKeepTypes DEF Inv, SessionOperation
<1>2. AtFront("write", s) /\ Ends /\ "write" \in OfSessions
  BY DEF WriteFails, OfSessions
<1>3. 1 \in DOMAIN chain /\ chain[1].op = "write" /\ chain[1].of = s
  BY <1>1, <1>2, EndsRemovesFromTyped
<1>4. init[s] = "ready" /\ writing[s] # "no"
  BY <1>3 DEF Inv, SessionsQueueOnce
<1>5. /\ writing'[s] = "no"
      /\ \A t \in Lifecycles \ {s} : writing'[t] = writing[t] /\ retiring'[t] = retiring[t]
      /\ writing[s] # "barrier" => retiring' = retiring
      /\ \A c \in Calls : \/ call'[c] = call[c]
                          \/ call[c] = "drain" /\ call'[c] \in {"rejected", "enter"}
  BY <1>1 DEF WriteFails, Settles, TypeOK
<1>6. SessionsQueueOnce' /\ HolderIsLast'
  <2>1. SessionsQueueOnce /\ HolderIsLast
    BY DEF Inv
  <2>2. holder = s => retiring'[s] = "no"
    BY <1>5, <2>1 DEF HolderIsLast, SessionsQueueOnce
  <2>3. sent[s] <= Len(events[s])
    BY <2>1 DEF SessionsQueueOnce
  <2>4. QED
    BY <1>1, <1>2, <1>4, <1>5, <2>1, <2>2, <2>3, OthersAreQueued DEF WriteFails
<1>7. WorkersOwn'
  BY <1>5, <1>4 DEF Inv, WorkersOwn, HasWork, WriteFails
<1>8. Exact'
  BY DEF Inv, Exact, Ends, WriteFails, logVars
<1>9. SuffixesFit'
  BY <1>1, <1>2, SessionLinkKeepsSuffixes DEF Inv, WriteFails
<1>10. KindsFit' /\ CommitsAreAlone'
  BY <1>1, <1>2, <1>5, SessionsLeaveCalls DEF Inv, WriteFails, callVars
<1>11. ReservedAlone'
  BY <1>1, <1>2, <1>5, SessionsLeaveReservations DEF Inv, WriteFails, logVars
<1>12. QED
  BY <1>1, <1>6, <1>7, <1>8, <1>9, <1>10, <1>11 DEF Inv

LEMMA RetireKeepsInv ==
    ASSUME Inv, NEW s \in Lifecycles, Retire(s)
    PROVE  Inv'
<1> USE CoordinatorAssumption
<1>1. TypeOK /\ TypeOK'
  BY SessionOperationsKeepTypes DEF Inv, SessionOperation
<1>2. AtFront("retire", s) /\ Ends /\ "retire" \in OfSessions
  BY DEF Retire, AtHead, OfSessions
<1>3. 1 \in DOMAIN chain /\ chain[1].op = "retire" /\ chain[1].of = s
  BY <1>1, <1>2, EndsRemovesFromTyped
<1>4. init[s] = "ready" /\ writing[s] = "no" /\ retiring[s] = "queued" /\ holder # s
  BY <1>3 DEF Inv, SessionsQueueOnce, HolderIsLast
<1>5. /\ init'[s] = "none" /\ sent'[s] = 0
      /\ \A t \in Lifecycles \ {s} : /\ init'[t] = init[t] /\ sent'[t] = sent[t]
                                     /\ batch'[t] = batch[t] /\ retiring'[t] = retiring[t]
      /\ \A c \in Calls : \/ call'[c] = call[c]
                          \/ call[c] = "drain" /\ call'[c] \in {"rejected", "enter"}
  BY <1>1 DEF Retire, Settles, TypeOK
<1>6. state' = IF state.owner = s THEN NoState ELSE state
  BY DEF Retire
<1>7. SessionsQueueOnce' /\ HolderIsLast'
  <2>1. SessionsQueueOnce /\ HolderIsLast
    BY DEF Inv
  <2>2. sent'[s] <= Len(events[s])
    <3>1. Len(events[s]) \in Nat
      BY <1>1 DEF TypeOK
    <3>2. QED
      BY <1>5, <3>1
  <2>3. QED
    BY <1>1, <1>2, <1>4, <1>5, <2>1, <2>2, OthersAreQueued DEF Retire
<1>8. WorkersOwn'
  <2> SUFFICES ASSUME NEW t \in Lifecycles, init'[t] = "ready", holder' = t \/ HasWork(t)'
               PROVE  state'.owner = t
    BY DEF WorkersOwn
  <2>1. t # s
    BY <1>5
  <2>2. state.owner = t
    BY <1>5, <2>1 DEF Inv, WorkersOwn, HasWork, Retire
  <2>3. QED
    BY <1>6, <2>1, <2>2
<1>9. Exact'
  BY <1>6 DEF Inv, Exact, Ends, Retire, NoState, logVars
<1>10. SuffixesFit'
  <2>1. state'.owner \in Lifecycles \ {s} => state' = state
    BY <1>6 DEF NoState
  <2>2. QED
    BY <1>1, <1>2, <1>5, <2>1, SessionLinkKeepsSuffixes DEF Inv
<1>11. KindsFit' /\ CommitsAreAlone'
  BY <1>1, <1>2, <1>5, SessionsLeaveCalls DEF Inv, Retire, callVars
<1>12. ReservedAlone'
  BY <1>1, <1>2, <1>5, <1>6, SessionsLeaveReservations DEF Inv, Retire, logVars
<1>13. QED
  BY <1>1, <1>7, <1>8, <1>9, <1>10, <1>11, <1>12 DEF Inv

-----------------------------------------------------------------------------
(***************************************************************************)
(* Calls.                                                                  *)
(***************************************************************************)

\* The links of calls.  A call whose commit is queued stays queued or rejected; who comes to
\* have the preparation has no commit in the chain that another operation could spoil.
LEMMA CallsStayAlone ==
    ASSUME TypeOK, TypeOK', KindsFit, CommitsAreAlone, NEW c \in Calls, UNCHANGED kind,
           \A d \in Calls : call[d] \in {"queued", "rejected"} =>
              \/ call'[d] \in {"queued", "rejected"}
              \/ \A i \in DOMAIN chain' : ~(chain'[i].op = "commit" /\ chain'[i].of = d),
           \A d \in Calls :
              /\ call'[d] = "join" => kind[d] # "append"
              /\ call'[d] = "await" => kind[d] \in {"prepare", "load"}
              /\ call'[d] = "check" => kind[d] = "inspect",
           \A d \in Calls : MineNext(d) =>
              /\ Mine(d) \/ call[d] \notin {"queued", "rejected"}
              /\ kind[d] \in {"prepare", "load"} /\ entry'.source = source'[d]
              /\ call'[d] = IF entry'.phase = "reserved" THEN "reserved" ELSE "queued",
           \/ \E d \in {0, 1} : Shrinks(d)
           \/ /\ Enqueue("load", c)
           \/ /\ Enqueue("current", c) /\ kind[c] = "inspect"
           \/ /\ Enqueue("append", c) /\ kind[c] = "append" /\ \A d \in Calls : ~MineNext(d)
           \/ /\ Enqueue("commit", c) /\ kind[c] \in {"prepare", "load"}
              /\ call[c] \notin {"queued", "rejected"} /\ call'[c] = "queued"
    PROVE  KindsFit' /\ CommitsAreAlone'
<1>1. DOMAIN chain \subseteq Nat /\ DOMAIN chain' \subseteq Nat
  BY ChainsAreNumbered
<1>2. \A i \in DOMAIN chain : chain[i].op = "commit" =>
          chain[i].of \in Calls /\ call[chain[i].of] \in {"queued", "rejected"}
  BY DEF KindsFit, CommitsAreAlone, OfSessions, Initializations
<1>3. CASE \E d \in {0, 1} : Shrinks(d)
  <2>1. PICK d \in {0, 1} : Shrinks(d)
    BY <1>3
  <2>2. \A i \in DOMAIN chain' : i + d \in DOMAIN chain /\ chain'[i] = chain[i + d]
    BY <2>1 DEF Shrinks
  <2>3. \A i, j \in DOMAIN chain' : /\ i # j => i + d # j + d
                                    /\ i > j => i + d > j + d
    BY <1>1
  <2>4. KindsFit'
    BY <2>2 DEF KindsFit
  <2>5. CommitsAreAlone'
    <3>1. ASSUME NEW i \in DOMAIN chain', chain'[i].op = "commit"
          PROVE  /\ call'[chain'[i].of] \in {"queued", "rejected"}
                 /\ MineNext(chain'[i].of) =>
                      \A j \in DOMAIN chain' :
                        j > i => chain'[j].op \notin Initializations \cup {"append"}
      <4>1. chain'[i].of \in Calls /\ call[chain'[i].of] \in {"queued", "rejected"}
        BY <1>2, <2>2, <3>1
      <4>2. call'[chain'[i].of] \in {"queued", "rejected"}
        BY <3>1, <4>1
      <4>3. ASSUME MineNext(chain'[i].of), NEW j \in DOMAIN chain', j > i
            PROVE  chain'[j].op \notin Initializations \cup {"append"}
        <5>1. Mine(chain[i + d].of)
          BY <2>2, <4>1, <4>3
        <5>2. QED
          BY <2>2, <2>3, <3>1, <4>3, <5>1 DEF CommitsAreAlone
      <4>4. QED
        BY <4>2, <4>3
    <3>2. \A i, j \in DOMAIN chain' :
            i # j /\ chain'[i].op = "commit" /\ chain'[j].op = "commit"
              => chain'[i].of # chain'[j].of
      BY <2>2, <2>3 DEF CommitsAreAlone
    <3>3. QED
      BY <3>1, <3>2 DEF CommitsAreAlone, Mine, MineNext
  <2>6. QED
    BY <2>4, <2>5
<1>4. ASSUME NEW op \in {"load", "current", "append", "commit"}, Enqueue(op, c),
             op = "current" => kind[c] = "inspect", op = "append" => kind[c] = "append",
             op = "append" => \A d \in Calls : ~MineNext(d),
             op = "commit" => /\ kind[c] \in {"prepare", "load"} /\ call'[c] = "queued"
                              /\ call[c] \notin {"queued", "rejected"}
      PROVE  KindsFit' /\ CommitsAreAlone'
  <2>1. /\ DOMAIN chain = 1 .. Len(chain) /\ Len(chain) \in Nat
        /\ DOMAIN chain' = 1 .. Len(chain) + 1
        /\ \A i \in 1 .. Len(chain) : chain'[i] = chain[i]
        /\ chain'[Len(chain) + 1].op = op /\ chain'[Len(chain) + 1].of = c
    BY <1>4, EnqueueAddsToTyped
  <2>2. op \notin OfSessions /\ op \notin Initializations
    BY DEF OfSessions, Initializations
  <2>3. KindsFit'
    BY <1>4, <2>1, <2>2 DEF KindsFit
  <2>4. CommitsAreAlone'
    <3>1. ASSUME NEW i \in DOMAIN chain', chain'[i].op = "commit"
          PROVE  /\ call'[chain'[i].of] \in {"queued", "rejected"}
                 /\ MineNext(chain'[i].of) =>
                      \A j \in DOMAIN chain' :
                        j > i => chain'[j].op \notin Initializations \cup {"append"}
      <4>1. CASE i = Len(chain) + 1
        <5>1. \A j \in DOMAIN chain' : ~(j > i)
          BY <2>1, <4>1
        <5>2. QED
          BY <1>4, <2>1, <3>1, <4>1, <5>1
      <4>2. CASE i \in DOMAIN chain
        <5>1. chain'[i] = chain[i] /\ chain[i].op = "commit"
          BY <2>1, <3>1, <4>2
        <5>2. chain[i].of \in Calls /\ call[chain[i].of] \in {"queued", "rejected"}
          BY <1>2, <4>2, <5>1
        <5>3. call'[chain'[i].of] \in {"queued", "rejected"}
          BY <3>1, <5>1, <5>2
        <5>4. ASSUME MineNext(chain'[i].of), NEW j \in DOMAIN chain', j > i
              PROVE  chain'[j].op \notin Initializations \cup {"append"}
          <6>1. Mine(chain[i].of)
            BY <5>1, <5>2, <5>4
          <6>2. CASE j \in DOMAIN chain
            BY <2>1, <4>2, <5>1, <5>4, <6>1, <6>2 DEF CommitsAreAlone
          <6>3. CASE j = Len(chain) + 1
            BY <1>4, <2>1, <2>2, <5>1, <5>2, <5>4, <6>3
          <6>4. QED
            BY <2>1, <6>2, <6>3
        <5>5. QED
          BY <5>3, <5>4
      <4>3. QED
        BY <2>1, <4>1, <4>2
    <3>2. ASSUME NEW i \in DOMAIN chain', NEW j \in DOMAIN chain', i # j,
                 chain'[i].op = "commit", chain'[j].op = "commit"
          PROVE  chain'[i].of # chain'[j].of
      <4>1. CASE i \in DOMAIN chain /\ j \in DOMAIN chain
        BY <2>1, <3>2, <4>1 DEF CommitsAreAlone
      <4>2. CASE i = Len(chain) + 1 /\ j \in DOMAIN chain
        BY <1>2, <1>4, <2>1, <3>2, <4>2
      <4>3. CASE j = Len(chain) + 1 /\ i \in DOMAIN chain
        BY <1>2, <1>4, <2>1, <3>2, <4>3
      <4>4. QED
        BY <2>1, <3>2, <4>1, <4>2, <4>3
    <3>3. QED
      BY <3>1, <3>2 DEF CommitsAreAlone, Mine, MineNext
  <2>5. QED
    BY <2>3, <2>4
<1>5. QED
  BY <1>3, <1>4

\* A reservation that stays is as it was.
LEMMA ReservationsStay ==
    ASSUME TypeOK, ReservedAlone,
           \A d \in Calls : call'[d] = "reserved" =>
              call[d] = "reserved" /\ UNCHANGED <<entry, log, torn, state>>,
           \/ \E d \in {0, 1} : Shrinks(d)
           \/ \E op \in {"load", "commit", "current"} : \E of : Enqueue(op, of)
           \/ \A d \in Calls : call'[d] # "reserved"
    PROVE  ReservedAlone'
<1> SUFFICES ASSUME NEW d \in Calls, call'[d] = "reserved"
             PROVE  /\ entry' # NoEntry /\ entry'.phase = "reserved" /\ entry'.by = d
                    /\ entry'.source = Stored' /\ ~torn' /\ ~Open(log')
                    /\ state' = OwnedBy(Nobody, Len(log'), TRUE)
                    /\ \A i \in DOMAIN chain' :
                          chain'[i].op \notin Initializations \cup {"append"}
  BY DEF ReservedAlone
<1>1. call[d] = "reserved" /\ UNCHANGED <<entry, log, torn, state>>
  OBVIOUS
<1>2. \A i \in DOMAIN chain : chain[i].op \notin Initializations \cup {"append"}
  BY <1>1 DEF ReservedAlone
<1>3. \A i \in DOMAIN chain' : chain'[i].op \notin Initializations \cup {"append"}
  <2>1. CASE \E k \in {0, 1} : Shrinks(k)
    BY <1>2, <2>1 DEF Shrinks
  <2>2. ASSUME NEW op \in {"load", "commit", "current"}, NEW of, Enqueue(op, of)
        PROVE  <1>3
    <3>1. /\ DOMAIN chain = 1 .. Len(chain) /\ Len(chain) \in Nat
          /\ DOMAIN chain' = 1 .. Len(chain) + 1
          /\ \A i \in 1 .. Len(chain) : chain'[i] = chain[i]
          /\ chain'[Len(chain) + 1].op = op
      BY <2>2, EnqueueAddsToTyped
    <3>2. op \notin Initializations \cup {"append"}
      BY DEF Initializations
    <3>3. QED
      BY <1>2, <3>1, <3>2
  <2>3. QED
    BY <2>1, <2>2
<1>4. QED
  BY <1>1, <1>3 DEF ReservedAlone, Stored

\* What calls do outside the chain leaves the sessions and the bookkeeping.
LEMMA CallsLeaveBookkeeping ==
    ASSUME Inv, TypeOK', UNCHANGED <<logVars, holder, lifeVars, state, running>>,
           \/ UNCHANGED chain
           \/ \E op \in {"load", "current", "commit", "append"} : \E c : Enqueue(op, c)
    PROVE  SessionsQueueOnce' /\ HolderIsLast' /\ WorkersOwn' /\ Exact'
<1> USE CoordinatorAssumption
<1>1. \A op \in {"load", "current", "commit", "append"} : op \notin OfSessions
  BY DEF OfSessions, Initializations
<1>2. SessionsQueueOnce' /\ HolderIsLast'
  BY <1>1, CallsLeaveSessions DEF Inv, lifeVars
<1>3. WorkersOwn'
  BY DEF Inv, WorkersOwn, HasWork, lifeVars
<1>4. Exact'
  <2>1. CASE UNCHANGED chain
    BY <2>1 DEF Inv, Exact, logVars
  <2>2. CASE \E op \in {"load", "current", "commit", "append"} : \E c : Enqueue(op, c)
    BY <2>2, EnqueueIsExact DEF Inv, logVars
  <2>3. QED
    BY <2>1, <2>2
<1>5. QED
  BY <1>2, <1>3, <1>4

LEMMA UnchangedShrinks ==
    ASSUME TypeOK, UNCHANGED chain
    PROVE  \E d \in {0, 1} : Shrinks(d)
BY ChainShrinks

\* The preparation that a call has was committed by it.
LEMMA OwnersHaveKinds ==
    ASSUME Inv
    PROVE  /\ \A d \in Calls : Mine(d) =>
                /\ kind[d] \in {"prepare", "load"} /\ entry.source = source[d]
                /\ call[d] = IF entry.phase = "reserved" THEN "reserved" ELSE "queued"
           /\ \A d \in Calls :
                /\ call[d] = "join" => kind[d] # "append"
                /\ call[d] = "await" => kind[d] \in {"prepare", "load"}
                /\ call[d] = "check" => kind[d] = "inspect"
BY DEF Inv, CommitsAreAlone, KindsFit

LEMMA CallKeepsInv ==
    ASSUME Inv, NEW c \in Calls, Call(c)
    PROVE  Inv'
<1> USE CoordinatorAssumption
<1>1. TypeOK /\ TypeOK'
  BY CallStepsKeepTypes DEF Inv, CallStep
<1>2. call[c] \in {"idle", "again", "enter"} /\ kind[c] # "append" /\ UNCHANGED kind
  BY DEF Call
<1>3. \/ UNCHANGED chain /\ entry' = entry
      \/ Enqueue("load", c) /\ entry = NoEntry /\ entry'.phase = "loading"
  BY DEF Call, Enter
<1>4. /\ call'[c] \in {"done", "rejected", "join", "check", "await", "drain"}
      /\ call'[c] = "check" => kind[c] = "inspect"
      /\ call'[c] = "await" => kind[c] # "inspect"
      /\ \A d \in Calls \ {c} : call'[d] = call[d] /\ source'[d] = source[d]
  <2>1. \E p \in {"done", "rejected", "join", "check", "await", "drain"} :
          /\ Goes(c, p)
          /\ p = "check" => kind[c] = "inspect"
          /\ p = "await" => kind[c] # "inspect"
    BY DEF Call, Enter, OnLive
  <2>2. \A d \in Calls \ {c} : source'[d] = source[d]
    BY <1>1 DEF Call, Enter, TypeOK
  <2>3. call \in [Calls -> Places]
    BY <1>1 DEF TypeOK
  <2>4. QED
    BY <2>1, <2>2, <2>3 DEF Goes
<1>5. kind[c] \in {"prepare", "load", "inspect", "append"}
  BY <1>1 DEF TypeOK
<1>6. SessionsQueueOnce' /\ HolderIsLast' /\ WorkersOwn' /\ Exact'
  BY <1>1, <1>3, CallsLeaveBookkeeping DEF Call
<1>7. SuffixesFit'
  BY <1>1, <1>3, EnqueueKeepsSuffixes DEF Inv, SuffixesFit, Call, lifeVars
<1>8. KindsFit' /\ CommitsAreAlone'
  <2>1. \A d \in Calls : MineNext(d) => Mine(d) /\ entry' = entry /\ d # c
    BY <1>2, <1>3, OwnersHaveKinds DEF MineNext, Mine
  <2>2. \A d \in Calls :
          /\ call'[d] = "join" => kind[d] # "append"
          /\ call'[d] = "await" => kind[d] \in {"prepare", "load"}
          /\ call'[d] = "check" => kind[d] = "inspect"
    BY <1>2, <1>4, <1>5, OwnersHaveKinds
  <2>3. (\E d \in {0, 1} : Shrinks(d)) \/ Enqueue("load", c)
    BY <1>1, <1>3, UnchangedShrinks
  <2>4. \A d \in Calls : MineNext(d) =>
              /\ Mine(d) /\ kind[d] \in {"prepare", "load"} /\ entry'.source = source'[d]
              /\ call'[d] = IF entry'.phase = "reserved" THEN "reserved" ELSE "queued"
    BY <1>4, <2>1, OwnersHaveKinds
  <2>5. \A d \in Calls : call[d] \in {"queued", "rejected"} => call'[d] \in {"queued", "rejected"}
    BY <1>2, <1>4
  <2>6. KindsFit /\ CommitsAreAlone
    BY DEF Inv
  <2>7. QED
    BY <1>1, <1>2, <2>2, <2>3, <2>4, <2>5, <2>6, CallsStayAlone
<1>9. ReservedAlone'
  <2>1. \A d \in Calls : call'[d] = "reserved" => call[d] = "reserved" /\ entry' = entry
    BY <1>3, <1>4 DEF Inv, ReservedAlone
  <2>2. (\E d \in {0, 1} : Shrinks(d)) \/ Enqueue("load", c)
    BY <1>1, <1>3, UnchangedShrinks
  <2>3. UNCHANGED <<log, torn, state>>
    BY DEF Call, logVars
  <2>4. QED
    BY <1>1, <2>1, <2>2, <2>3, ReservationsStay DEF Inv
<1>10. QED
  BY <1>1, <1>6, <1>7, <1>8, <1>9 DEF Inv

LEMMA TakeReadyKeepsInv ==
    ASSUME Inv, NEW c \in Calls, TakeReady(c)
    PROVE  Inv'
<1> USE CoordinatorAssumption
<1>1. TypeOK /\ TypeOK'
  BY CallStepsKeepTypes DEF Inv, CallStep
<1>2. /\ call[c] = "await" /\ entry.phase = "ready" /\ Enqueue("commit", c)
      /\ kind[c] \in {"prepare", "load"} /\ UNCHANGED kind
  BY OwnersHaveKinds DEF TakeReady
<1>3. /\ call'[c] = "queued" /\ source'[c] = entry.source
      /\ \A d \in Calls \ {c} : call'[d] = call[d] /\ source'[d] = source[d]
  BY <1>1 DEF TakeReady, Goes, TypeOK
<1>4. entry'.phase = "committing" /\ entry'.by = c /\ entry'.source = entry.source
  <2>1. entry \in [phase : {"loading", "ready", "committing", "reserved"}, by : Calls,
                   source : Sources]
    BY <1>1, <1>2 DEF TypeOK, Entries, NoEntry
  <2>2. QED
    BY <2>1 DEF TakeReady
<1>5. SessionsQueueOnce' /\ HolderIsLast' /\ WorkersOwn' /\ Exact'
  BY <1>1, <1>2, CallsLeaveBookkeeping DEF TakeReady
<1>6. SuffixesFit'
  BY <1>1, <1>2, EnqueueKeepsSuffixes DEF Inv, TakeReady, lifeVars
<1>7. KindsFit' /\ CommitsAreAlone'
  <2>1. \A d \in Calls : MineNext(d) => d = c
    BY <1>4 DEF MineNext
  <2>2. \A d \in Calls :
          /\ call'[d] = "join" => kind[d] # "append"
          /\ call'[d] = "await" => kind[d] \in {"prepare", "load"}
          /\ call'[d] = "check" => kind[d] = "inspect"
    BY <1>3, OwnersHaveKinds
  <2>3. \A d \in Calls : MineNext(d) =>
              /\ call[d] \notin {"queued", "rejected"}
              /\ kind[d] \in {"prepare", "load"} /\ entry'.source = source'[d]
              /\ call'[d] = IF entry'.phase = "reserved" THEN "reserved" ELSE "queued"
    BY <1>2, <1>3, <1>4, <2>1
  <2>4. \A d \in Calls : call[d] \in {"queued", "rejected"} => call'[d] \in {"queued", "rejected"}
    BY <1>3
  <2>5. KindsFit /\ CommitsAreAlone /\ call[c] \notin {"queued", "rejected"}
    BY <1>2 DEF Inv
  <2>6. QED
    BY <1>1, <1>2, <1>3, <2>2, <2>3, <2>4, <2>5, CallsStayAlone
<1>8. ReservedAlone'
  <2>1. \A d \in Calls : call'[d] # "reserved"
    BY <1>2, <1>3 DEF Inv, ReservedAlone
  <2>2. QED
    BY <2>1 DEF ReservedAlone
<1>9. QED
  BY <1>1, <1>5, <1>6, <1>7, <1>8 DEF Inv

LEMMA CheckKeepsInv ==
    ASSUME Inv, NEW c \in Calls, Check(c)
    PROVE  Inv'
<1> USE CoordinatorAssumption
<1>1. TypeOK /\ TypeOK'
  BY CallStepsKeepTypes DEF Inv, CallStep
<1>2. /\ call[c] = "check" /\ kind[c] = "inspect" /\ UNCHANGED <<kind, source, entry>>
      /\ UNCHANGED chain \/ Enqueue("current", c)
  BY OwnersHaveKinds DEF Check, callVars
<1>3. /\ call'[c] \in {"done", "queued"}
      /\ \A d \in Calls \ {c} : call'[d] = call[d]
  BY <1>1 DEF Check, Goes, TypeOK
<1>4. SessionsQueueOnce' /\ HolderIsLast' /\ WorkersOwn' /\ Exact'
  BY <1>1, <1>2, CallsLeaveBookkeeping DEF Check
<1>5. SuffixesFit'
  BY <1>1, <1>2, EnqueueKeepsSuffixes DEF Inv, SuffixesFit, Check, lifeVars
<1>6. (\E d \in {0, 1} : Shrinks(d)) \/ Enqueue("current", c)
  BY <1>1, <1>2, UnchangedShrinks
<1>7. KindsFit' /\ CommitsAreAlone'
  <2>1. \A d \in Calls : MineNext(d) => Mine(d) /\ d # c
    BY <1>2, OwnersHaveKinds DEF MineNext, Mine
  <2>2. \A d \in Calls :
          /\ call'[d] = "join" => kind[d] # "append"
          /\ call'[d] = "await" => kind[d] \in {"prepare", "load"}
          /\ call'[d] = "check" => kind[d] = "inspect"
    BY <1>3, OwnersHaveKinds
  <2>3. \A d \in Calls : MineNext(d) =>
              /\ Mine(d) /\ kind[d] \in {"prepare", "load"} /\ entry'.source = source'[d]
              /\ call'[d] = IF entry'.phase = "reserved" THEN "reserved" ELSE "queued"
    BY <1>2, <1>3, <2>1, OwnersHaveKinds
  <2>4. \A d \in Calls : call[d] \in {"queued", "rejected"} => call'[d] \in {"queued", "rejected"}
    BY <1>2, <1>3
  <2>5. KindsFit /\ CommitsAreAlone
    BY DEF Inv
  <2>6. QED
    BY <1>1, <1>2, <1>6, <2>2, <2>3, <2>4, <2>5, CallsStayAlone
<1>8. ReservedAlone'
  <2>1. \A d \in Calls : call'[d] = "reserved" => call[d] = "reserved"
    BY <1>3
  <2>2. UNCHANGED <<entry, log, torn, state>>
    BY DEF Check, logVars
  <2>3. QED
    BY <1>1, <1>6, <2>1, <2>2, ReservationsStay DEF Inv
<1>9. QED
  BY <1>1, <1>4, <1>5, <1>7, <1>8 DEF Inv

LEMMA AppendCallKeepsInv ==
    ASSUME Inv, NEW c \in Calls, AppendCall(c)
    PROVE  Inv'
<1> USE CoordinatorAssumption
<1>1. TypeOK /\ TypeOK'
  BY CallStepsKeepTypes DEF Inv, CallStep
<1>2. /\ call[c] = "idle" /\ kind[c] = "append" /\ UNCHANGED <<kind, entry>>
      /\ Enqueue("append", c) /\ \A d \in Calls : ~Mine(d)
  BY DEF AppendCall
<1>3. /\ call'[c] = "queued"
      /\ \A d \in Calls \ {c} : call'[d] = call[d]
  BY <1>1 DEF AppendCall, Goes, TypeOK
<1>4. SessionsQueueOnce' /\ HolderIsLast' /\ WorkersOwn' /\ Exact'
  BY <1>1, <1>2, CallsLeaveBookkeeping DEF AppendCall
<1>5. SuffixesFit'
  <2>1. /\ DOMAIN chain = 1 .. Len(chain) /\ Len(chain) \in Nat
        /\ DOMAIN chain' = 1 .. Len(chain) + 1
        /\ \A i \in 1 .. Len(chain) : chain'[i] = chain[i]
        /\ chain'[Len(chain) + 1].op = "append"
    BY <1>1, <1>2, EnqueueAddsToTyped
  <2>2. \A i \in DOMAIN chain : chain[i].op # "suffix"
    <3>1. \A s \in Lifecycles : init[s] = "none"
      BY DEF AppendCall, Live
    <3>2. QED
      BY <3>1 DEF Inv, SessionsQueueOnce, OfSessions, Initializations
  <2>3. QED
    BY <2>1, <2>2 DEF SuffixesFit
<1>6. KindsFit' /\ CommitsAreAlone'
  <2>1. \A d \in Calls : ~MineNext(d)
    BY <1>2 DEF MineNext, Mine
  <2>2. \A d \in Calls :
          /\ call'[d] = "join" => kind[d] # "append"
          /\ call'[d] = "await" => kind[d] \in {"prepare", "load"}
          /\ call'[d] = "check" => kind[d] = "inspect"
    BY <1>3, OwnersHaveKinds
  <2>3. \A d \in Calls : call[d] \in {"queued", "rejected"} => call'[d] \in {"queued", "rejected"}
    BY <1>2, <1>3
  <2>4. KindsFit /\ CommitsAreAlone
    BY DEF Inv
  <2>5. QED
    BY <1>1, <1>2, <2>1, <2>2, <2>3, <2>4, CallsStayAlone
<1>7. ReservedAlone'
  <2>1. \A d \in Calls : call[d] # "reserved"
    BY <1>2 DEF Inv, ReservedAlone, Mine
  <2>2. QED
    BY <1>3, <2>1 DEF ReservedAlone
<1>8. QED
  BY <1>1, <1>4, <1>5, <1>6, <1>7 DEF Inv

\* A preparation is given up, or not touched: who has it afterwards had it before.
LEMMA GivesUpTheOwn ==
    ASSUME TypeOK, NEW c \in Calls, NEW p, GivesUp(c, p)
    PROVE  /\ call'[c] = p
           /\ \A d \in Calls \ {c} : \/ call'[d] = call[d]
                                     \/ call[d] = "await" /\ call'[d] = "again"
           /\ entry' \in {entry, NoEntry} /\ (Mine(c) => entry' = NoEntry)
           /\ entry' # entry => Mine(c)
           /\ \A d : MineNext(d) => Mine(d) /\ d # c /\ entry' = entry
<1>1. CASE Mine(c) /\ Removes(c, p)
  BY <1>1 DEF Removes, MineNext
<1>2. CASE ~Mine(c) /\ Goes(c, p) /\ UNCHANGED entry
  BY <1>2 DEF Goes, MineNext, Mine, TypeOK
<1>3. QED
  BY <1>1, <1>2 DEF GivesUp

LEMMA AbortKeepsInv ==
    ASSUME Inv, NEW c \in Calls, Abort(c)
    PROVE  Inv'
<1> USE CoordinatorAssumption
<1>1. TypeOK /\ TypeOK'
  BY CallStepsKeepTypes DEF Inv, CallStep
<1>2. /\ call[c] \notin {"reserved", "rejected"} /\ UNCHANGED <<kind, source, chain>>
      /\ \E d \in {0, 1} : Shrinks(d)
  BY <1>1, UnchangedShrinks DEF Abort
<1>3. /\ \A d \in Calls \ {c} : \/ call'[d] = call[d]
                                \/ call[d] = "await" /\ call'[d] = "again"
      /\ call'[c] = call[c] \/ call'[c] = "rejected"
      /\ entry' \in {entry, NoEntry} /\ (entry' # entry => Mine(c))
      /\ \A d : MineNext(d) => Mine(d) /\ entry' = entry /\ call'[d] = call[d]
  <2>1. CASE UNCHANGED <<entry, call>>
    BY <2>1 DEF MineNext, Mine
  <2>2. CASE GivesUp(c, "rejected")
    <3>1. /\ call'[c] = "rejected"
          /\ \A d \in Calls \ {c} : \/ call'[d] = call[d]
                                    \/ call[d] = "await" /\ call'[d] = "again"
          /\ entry' \in {entry, NoEntry} /\ (entry' # entry => Mine(c))
          /\ \A d : MineNext(d) => Mine(d) /\ d # c /\ entry' = entry
      BY <1>1, <2>2, GivesUpTheOwn
    <3>2. ASSUME NEW d, MineNext(d)
          PROVE  call'[d] = call[d]
      <4>1. Mine(d) /\ d # c
        BY <3>1, <3>2
      <4>2. d \in Calls
        BY <1>1, <4>1, EntryIsTyped DEF Mine
      <4>3. call[d] # "await"
        BY <4>1, <4>2, OwnersHaveKinds
      <4>4. QED
        BY <3>1, <4>1, <4>2, <4>3
    <3>3. QED
      BY <3>1, <3>2
  <2>3. QED
    BY <2>1, <2>2 DEF Abort
<1>4. SessionsQueueOnce' /\ HolderIsLast' /\ WorkersOwn' /\ Exact'
  BY <1>1, <1>2, CallsLeaveBookkeeping DEF Abort
<1>5. SuffixesFit'
  BY <1>2 DEF Inv, SuffixesFit, Abort, lifeVars
<1>6. KindsFit' /\ CommitsAreAlone'
  <2>1. \A d \in Calls : MineNext(d) =>
              /\ Mine(d) /\ kind[d] \in {"prepare", "load"} /\ entry'.source = source'[d]
              /\ call'[d] = IF entry'.phase = "reserved" THEN "reserved" ELSE "queued"
    BY <1>2, <1>3, OwnersHaveKinds
  <2>2. \A d \in Calls :
          /\ call'[d] = "join" => kind[d] # "append"
          /\ call'[d] = "await" => kind[d] \in {"prepare", "load"}
          /\ call'[d] = "check" => kind[d] = "inspect"
    BY <1>3, OwnersHaveKinds
  <2>3. \A d \in Calls : call[d] \in {"queued", "rejected"} => call'[d] \in {"queued", "rejected"}
    BY <1>3
  <2>4. KindsFit /\ CommitsAreAlone
    BY DEF Inv
  <2>5. QED
    BY <1>1, <1>2, <2>1, <2>2, <2>3, <2>4, CallsStayAlone
<1>7. ReservedAlone'
  <2>1. ASSUME NEW d \in Calls, call'[d] = "reserved"
        PROVE  call[d] = "reserved" /\ entry' = entry
    <3>1. call[d] = "reserved" /\ d # c
      BY <1>2, <1>3, <2>1
    <3>2. ~Mine(c)
      BY <3>1 DEF Inv, ReservedAlone, Mine
    <3>3. QED
      BY <1>3, <3>1, <3>2
  <2>2. UNCHANGED <<log, torn, state>>
    BY DEF Abort, logVars
  <2>3. QED
    BY <1>1, <1>2, <2>1, <2>2, ReservationsStay DEF Inv
<1>8. QED
  BY <1>1, <1>4, <1>5, <1>6, <1>7 DEF Inv

LEMMA ReleaseKeepsInv ==
    ASSUME Inv, NEW c \in Calls, Release(c)
    PROVE  Inv'
<1> USE CoordinatorAssumption
<1>1. TypeOK /\ TypeOK'
  BY CallStepsKeepTypes DEF Inv, CallStep
<1>2. /\ call[c] = "reserved" /\ UNCHANGED <<kind, source, chain>>
      /\ \E d \in {0, 1} : Shrinks(d)
      /\ entry # NoEntry /\ entry.by = c
  BY <1>1, UnchangedShrinks DEF Release, callVars, Inv, ReservedAlone
<1>3. /\ call'[c] = "done"
      /\ \A d \in Calls \ {c} : \/ call'[d] = call[d]
                                \/ call[d] = "await" /\ call'[d] = "again"
      /\ \A d : ~MineNext(d)
  <2>1. CASE Removes(c, "done")
    BY <2>1 DEF Removes, MineNext
  <2>2. CASE entry' = [entry EXCEPT !.phase = "ready"] /\ Goes(c, "done")
    <3>1. entry \in [phase : {"loading", "ready", "committing", "reserved"}, by : Calls,
                     source : Sources]
      BY <1>1, <1>2 DEF TypeOK, Entries
    <3>2. entry'.phase = "ready"
      BY <2>2, <3>1
    <3>3. QED
      BY <1>1, <2>2, <3>2 DEF Goes, MineNext, TypeOK
  <2>3. QED
    BY <2>1, <2>2 DEF Release
<1>4. SessionsQueueOnce' /\ HolderIsLast' /\ WorkersOwn' /\ Exact'
  BY <1>1, <1>2, CallsLeaveBookkeeping DEF Release
<1>5. SuffixesFit'
  BY <1>2 DEF Inv, SuffixesFit, Release, lifeVars
<1>6. KindsFit' /\ CommitsAreAlone'
  <2>1. \A d \in Calls :
          /\ call'[d] = "join" => kind[d] # "append"
          /\ call'[d] = "await" => kind[d] \in {"prepare", "load"}
          /\ call'[d] = "check" => kind[d] = "inspect"
    BY <1>3, OwnersHaveKinds
  <2>2. \A d \in Calls : call[d] \in {"queued", "rejected"} => call'[d] \in {"queued", "rejected"}
    BY <1>2, <1>3
  <2>3. KindsFit /\ CommitsAreAlone
    BY DEF Inv
  <2>4. QED
    BY <1>1, <1>2, <1>3, <2>1, <2>2, <2>3, CallsStayAlone
<1>7. ReservedAlone'
  <2>1. \A d \in Calls : call'[d] # "reserved"
    BY <1>2, <1>3 DEF Inv, ReservedAlone
  <2>2. QED
    BY <2>1 DEF ReservedAlone
<1>8. QED
  BY <1>1, <1>4, <1>5, <1>6, <1>7 DEF Inv

-----------------------------------------------------------------------------
(***************************************************************************)
(* The operations of calls in the chain.                                   *)
(***************************************************************************)

\* An operation of a call leaves the sessions, and the call has no commit behind it.
LEMMA CallLinkEnds ==
    ASSUME Inv, TypeOK', NEW c \in Calls, NEW op \in {"load", "commit", "current", "append"},
           AtFront(op, c), Ends \/ (UNCHANGED chain /\ op = "append"),
           UNCHANGED <<holder, lifeVars>>,
           state' = state \/ state.owner \notin Lifecycles \/ state'.owner = state.owner,
           state' = state \/ state'.owner \notin Lifecycles \/ op = "append"
    PROVE  /\ SessionsQueueOnce' /\ HolderIsLast' /\ WorkersOwn' /\ SuffixesFit'
           /\ \E d \in {0, 1} : Shrinks(d)
           /\ 1 \in DOMAIN chain /\ chain[1].op = op /\ chain[1].of = c
           /\ op # "load" => \A i \in DOMAIN chain' :
                                 ~(chain'[i].op = "commit" /\ chain'[i].of = c)
<1> USE CoordinatorAssumption
<1>1. TypeOK /\ op \notin OfSessions
  BY DEF Inv, OfSessions, Initializations
<1>2. SessionsQueueOnce' /\ HolderIsLast'
  BY <1>1, CallsLeaveSessions DEF Inv, lifeVars
<1>3. WorkersOwn'
  BY DEF Inv, WorkersOwn, HasWork, lifeVars
<1>4. \E d \in {0, 1} : Shrinks(d)
  BY <1>1, ChainShrinks
<1>5. 1 \in DOMAIN chain /\ chain[1].op = op /\ chain[1].of = c /\ DOMAIN chain \subseteq Nat
  <2>1. chain \in Seq(Links)
    BY <1>1 DEF TypeOK
  <2>2. QED
    BY <2>1 DEF AtFront
<1>6. SuffixesFit'
  <2>1. PICK d \in {0, 1} : Shrinks(d)
    BY <1>4
  <2>2. \A i \in DOMAIN chain' : i + d \in DOMAIN chain /\ chain'[i] = chain[i + d]
    BY <2>1 DEF Shrinks
  <2>3. CASE op = "append"
    BY <1>5, <2>2, <2>3 DEF Inv, SuffixesFit
  <2>4. CASE state' = state \/ state'.owner \notin Lifecycles
    <3>1. \A i \in DOMAIN chain : chain[i].op = "suffix" => chain[i].of \in Lifecycles
      BY DEF Inv, SessionsQueueOnce, OfSessions, Initializations
    <3>2. QED
      BY <2>2, <2>4, <3>1 DEF Inv, SuffixesFit, lifeVars
  <2>5. QED
    BY <2>3, <2>4
<1>7. ASSUME op # "load", NEW i \in DOMAIN chain', chain'[i].op = "commit", chain'[i].of = c
      PROVE  FALSE
  <2>1. PICK d \in {0, 1} : Shrinks(d)
    BY <1>4
  <2>2. i + d \in DOMAIN chain /\ chain[i + d].op = "commit" /\ chain[i + d].of = c
    BY <1>7, <2>1 DEF Shrinks
  <2>3. op = "commit"
    BY <1>5, <1>7, <2>2 DEF Inv, KindsFit
  <2>4. Ends
    BY <2>3
  <2>5. chain'[i] = chain[i + 1] /\ i + 1 \in DOMAIN chain /\ i + 1 # 1
    BY <1>1, <2>4, EndsRemovesFromTyped
  <2>6. QED
    BY <1>5, <1>7, <2>3, <2>5 DEF Inv, CommitsAreAlone
<1>8. QED
  BY <1>2, <1>3, <1>4, <1>5, <1>6, <1>7

\* Afterwards the others are where they were, unless they wait again for a preparation; who
\* still has one had it, and the call goes where its kind may be.
LEMMA CallOperationsAreAlone ==
    ASSUME Inv, TypeOK', NEW c \in Calls, UNCHANGED <<kind, source>>,
           \E d \in {0, 1} : Shrinks(d),
           \A d \in Calls \ {c} : \/ call'[d] = call[d]
                                  \/ call[d] = "await" /\ call'[d] = "again",
           call'[c] \notin {"join", "await", "check"},
           \/ call'[c] \in {"queued", "rejected"}
           \/ \A i \in DOMAIN chain' : ~(chain'[i].op = "commit" /\ chain'[i].of = c),
           \A d \in Calls : MineNext(d) =>
              /\ Mine(d)
              /\ \/ d # c /\ entry' = entry
                 \/ /\ d = c /\ entry'.source = entry.source
                    /\ call'[c] = IF entry'.phase = "reserved" THEN "reserved" ELSE "queued"
    PROVE  KindsFit' /\ CommitsAreAlone'
<1>1. \A d \in Calls :
        /\ call'[d] = "join" => kind[d] # "append"
        /\ call'[d] = "await" => kind[d] \in {"prepare", "load"}
        /\ call'[d] = "check" => kind[d] = "inspect"
  BY OwnersHaveKinds
<1>2. ASSUME NEW d \in Calls, MineNext(d)
      PROVE  /\ Mine(d) /\ kind[d] \in {"prepare", "load"} /\ entry'.source = source'[d]
             /\ call'[d] = IF entry'.phase = "reserved" THEN "reserved" ELSE "queued"
  <2>1. CASE d = c
    BY <1>2, <2>1, OwnersHaveKinds
  <2>2. CASE d # c
    BY <1>2, <2>2, OwnersHaveKinds
  <2>3. QED
    BY <2>1, <2>2
<1>3. \A d \in Calls : call[d] \in {"queued", "rejected"} =>
         \/ call'[d] \in {"queued", "rejected"}
         \/ \A i \in DOMAIN chain' : ~(chain'[i].op = "commit" /\ chain'[i].of = d)
  OBVIOUS
<1>4. TypeOK /\ KindsFit /\ CommitsAreAlone
  BY DEF Inv
<1>5. QED
  BY <1>1, <1>2, <1>3, <1>4, CallsStayAlone

LEMMA LoadKeepsInv ==
    ASSUME Inv, NEW c \in Calls, Load(c) \/ LoadFails(c)
    PROVE  Inv'
<1> USE CoordinatorAssumption
<1>1. TypeOK /\ TypeOK' /\ AtFront("load", c) /\ Ends
  BY CallOperationsKeepTypes DEF Inv, CallOperation, Load, LoadFails, AtHead
<1>2. UNCHANGED <<logVars, holder, lifeVars, state, kind>>
  BY DEF Load, LoadFails, callVars
<1>3. /\ SessionsQueueOnce' /\ HolderIsLast' /\ WorkersOwn' /\ SuffixesFit'
      /\ \E d \in {0, 1} : Shrinks(d)
  BY <1>1, <1>2, CallLinkEnds
<1>4. Exact'
  BY <1>1, <1>2 DEF Inv, Exact, Ends, logVars
<1>5. \A d \in Calls :
        \/ call'[d] = call[d] /\ source'[d] = source[d]
        \/ /\ call[d] = "join" /\ call'[d] \in {"check", "await", "again", "done", "rejected"}
           /\ call'[d] = "check" => kind[d] = "inspect"
           /\ call'[d] = "await" => kind[d] # "inspect"
  BY DEF Load, LoadFails, Joined, callVars
<1>6. entry' = entry \/ (Loads(c) /\ entry'.phase \notin {"committing", "reserved"})
  BY DEF Load, LoadFails, NoEntry
<1>7. KindsFit' /\ CommitsAreAlone'
  <2>1. \A d \in Calls : MineNext(d) => Mine(d) /\ entry' = entry
    BY <1>6 DEF MineNext, Mine
  <2>2. \A d \in Calls : MineNext(d) =>
              /\ Mine(d) /\ kind[d] \in {"prepare", "load"} /\ entry'.source = source'[d]
              /\ call'[d] = IF entry'.phase = "reserved" THEN "reserved" ELSE "queued"
    BY <1>5, <2>1, OwnersHaveKinds
  <2>3. \A d \in Calls : kind[d] \in {"prepare", "load", "inspect", "append"}
    BY <1>1 DEF TypeOK
  <2>4. \A d \in Calls :
          /\ call'[d] = "join" => kind[d] # "append"
          /\ call'[d] = "await" => kind[d] \in {"prepare", "load"}
          /\ call'[d] = "check" => kind[d] = "inspect"
    BY <1>5, <2>3, OwnersHaveKinds
  <2>5. \A d \in Calls : call[d] \in {"queued", "rejected"} => call'[d] \in {"queued", "rejected"}
    BY <1>5
  <2>6. KindsFit /\ CommitsAreAlone
    BY DEF Inv
  <2>7. QED
    BY <1>1, <1>2, <1>3, <2>2, <2>4, <2>5, <2>6, CallsStayAlone
<1>8. ReservedAlone'
  <2>1. ASSUME NEW d \in Calls, call'[d] = "reserved"
        PROVE  call[d] = "reserved" /\ entry' = entry
    <3>1. call[d] = "reserved"
      BY <1>5, <2>1
    <3>2. ~Loads(c)
      BY <3>1 DEF Inv, ReservedAlone, Loads
    <3>3. QED
      BY <1>6, <3>1, <3>2
  <2>2. QED
    BY <1>1, <1>2, <1>3, <2>1, ReservationsStay DEF Inv, logVars
<1>9. QED
  BY <1>1, <1>3, <1>4, <1>7, <1>8 DEF Inv

\* A call whose commit is in the chain has no other use of it.
LEMMA CommitIsQueued ==
    ASSUME Inv, NEW c \in Calls, AtFront("commit", c)
    PROVE  /\ call[c] \in {"queued", "rejected"} /\ kind[c] \in {"prepare", "load"}
           /\ Mine(c) => /\ entry.phase = "committing" /\ call[c] = "queued"
                         /\ \A j \in DOMAIN chain :
                               j > 1 => chain[j].op \notin Initializations \cup {"append"}
<1>1. 1 \in DOMAIN chain /\ chain[1].op = "commit" /\ chain[1].of = c
  <2>1. chain \in Seq(Links)
    BY DEF Inv, TypeOK
  <2>2. QED
    BY <2>1 DEF AtFront
<1>2. call[c] \in {"queued", "rejected"} /\ kind[c] \in {"prepare", "load"}
  BY <1>1 DEF Inv, CommitsAreAlone, KindsFit
<1>3. ASSUME Mine(c)
      PROVE  /\ entry.phase = "committing" /\ call[c] = "queued"
             /\ \A j \in DOMAIN chain :
                   j > 1 => chain[j].op \notin Initializations \cup {"append"}
  <2>1. call[c] = IF entry.phase = "reserved" THEN "reserved" ELSE "queued"
    BY <1>3, OwnersHaveKinds
  <2>2. entry.phase = "committing"
    BY <1>2, <1>3, <2>1 DEF Mine
  <2>3. QED
    BY <1>1, <1>3, <2>1, <2>2 DEF Inv, CommitsAreAlone
<1>4. QED
  BY <1>2, <1>3

\* A commit that gives nothing: what it may have repaired is not reserved.
LEMMA CommitGivesNothing ==
    ASSUME Inv, NEW c \in Calls, CommitStale(c) \/ CommitFails(c)
    PROVE  Inv'
<1> USE CoordinatorAssumption
<1>1. TypeOK /\ TypeOK' /\ AtFront("commit", c) /\ Ends
  BY CallOperationsKeepTypes DEF Inv, CallOperation, CommitStale, CommitFails, Running
<1>2. UNCHANGED <<holder, lifeVars, state, kind, source>>
  BY DEF CommitStale, CommitFails, callVars
<1>3. /\ SessionsQueueOnce' /\ HolderIsLast' /\ WorkersOwn' /\ SuffixesFit'
      /\ \E d \in {0, 1} : Shrinks(d)
      /\ \A i \in DOMAIN chain' : ~(chain'[i].op = "commit" /\ chain'[i].of = c)
  BY <1>1, <1>2, CallLinkEnds
<1>4. /\ call[c] \in {"queued", "rejected"}
      /\ Mine(c) => entry.phase = "committing"
  BY <1>1, CommitIsQueued
<1>5. PICK p \in {"rejected", "again"} : GivesUp(c, p)
  BY DEF CommitStale, CommitFails, Retry
<1>6. /\ call'[c] = p
      /\ \A d \in Calls \ {c} : \/ call'[d] = call[d]
                                \/ call[d] = "await" /\ call'[d] = "again"
      /\ entry' \in {entry, NoEntry} /\ (entry' # entry => Mine(c))
      /\ \A d : MineNext(d) => Mine(d) /\ d # c /\ entry' = entry
  BY <1>1, <1>5, GivesUpTheOwn
<1>7. /\ torn' = torn /\ log' = log
      \/ /\ ~torn' /\ log' = Balanced(log) /\ state.owner \notin Lifecycles
  BY DEF CommitStale, CommitFails, logVars, Unowned
<1>8. Balanced(log) \in Seq(Events) /\ ~Open(Balanced(log)) /\ (~Open(log) => Balanced(log) = log)
  BY <1>1, BalancedIsBalanced DEF TypeOK
<1>9. Exact'
  <2>1. ~running'
    BY <1>1 DEF Ends
  <2>2. CASE torn' = torn /\ log' = log
    BY <1>2, <2>1, <2>2 DEF Inv, Exact
  <2>3. CASE ~torn' /\ log' = Balanced(log) /\ state.owner \notin Lifecycles
    <3>1. state.owner # "none" => state.owner = Nobody /\ log' = log
      BY <1>1, <1>8, <2>3, StateIsTyped DEF Inv, Exact
    <3>2. QED
      BY <1>2, <1>8, <2>1, <2>3, <3>1 DEF Inv, Exact
  <2>4. QED
    BY <1>7, <2>2, <2>3
<1>10. KindsFit' /\ CommitsAreAlone'
  BY <1>1, <1>2, <1>3, <1>6, CallOperationsAreAlone
<1>11. ReservedAlone'
  <2>1. ASSUME NEW d \in Calls, call'[d] = "reserved"
        PROVE  call[d] = "reserved" /\ UNCHANGED <<entry, log, torn, state>>
    <3>1. call[d] = "reserved" /\ d # c
      BY <1>6, <2>1
    <3>2. /\ entry.by = d /\ entry.phase = "reserved" /\ ~torn /\ ~Open(log)
      BY <3>1 DEF Inv, ReservedAlone
    <3>3. entry' = entry
      BY <1>4, <1>6, <3>2
    <3>4. torn' = torn /\ log' = log
      BY <1>7, <1>8, <1>1, <3>2 DEF TypeOK, CommitStale, CommitFails, logVars
    <3>5. QED
      BY <1>2, <3>1, <3>3, <3>4
  <2>2. QED
    BY <1>1, <1>3, <2>1, ReservationsStay DEF Inv
<1>12. QED
  BY <1>1, <1>3, <1>9, <1>10, <1>11 DEF Inv

\* A commit that gives the state: the log is what the call was shown.
LEMMA CommitKeepsInv ==
    ASSUME Inv, NEW c \in Calls, Commit(c)
    PROVE  Inv'
<1> USE CoordinatorAssumption
<1>1. TypeOK /\ TypeOK' /\ AtFront("commit", c) /\ Ends
  BY CallOperationsKeepTypes DEF Inv, CallOperation, Commit, Running
<1>2. /\ UNCHANGED <<logVars, holder, lifeVars, kind, source>>
      /\ state.owner \notin Lifecycles
  BY DEF Commit, callVars, Unowned
<1>3. /\ source[c] = Stored /\ source[c].log = log /\ ~torn /\ ~Open(log)
      /\ state' = OwnedBy(Nobody, Len(log), TRUE)
      /\ state'.owner = Nobody /\ state'.cursor = Len(log)
  <2>1. Stored.log = log /\ Stored.torn = torn
    BY DEF Stored
  <2>2. source[c] = Stored /\ ~source[c].torn /\ ~Open(source[c].log)
    BY DEF Commit, IsCurrent, Damaged
  <2>3. state' = OwnedBy(Nobody, Len(log), TRUE)
    BY <2>1, <2>2 DEF Commit
  <2>4. QED
    BY <2>1, <2>2, <2>3 DEF OwnedBy
<1>4. /\ SessionsQueueOnce' /\ HolderIsLast' /\ WorkersOwn' /\ SuffixesFit'
      /\ \E d \in {0, 1} : Shrinks(d)
      /\ \A i \in DOMAIN chain' : ~(chain'[i].op = "commit" /\ chain'[i].of = c)
  BY <1>1, <1>2, <1>3, CallLinkEnds
<1>5. Exact'
  BY <1>1, <1>2, <1>3 DEF Inv, Exact, Ends, logVars
<1>6. /\ call[c] \in {"queued", "rejected"} /\ kind[c] \in {"prepare", "load"}
      /\ Mine(c) => /\ entry.phase = "committing"
                    /\ \A j \in DOMAIN chain :
                          j > 1 => chain[j].op \notin Initializations \cup {"append"}
  BY <1>1, CommitIsQueued
<1>7. \/ /\ \A d \in Calls : ~MineNext(d)
         /\ call'[c] \in {"rejected", "done", "again"}
         /\ Mine(c)
      \/ ~Mine(c) /\ entry' = entry /\ call'[c] \in {"rejected", "again"}
      \/ /\ Mine(c) /\ entry' = [entry EXCEPT !.phase = "reserved"] /\ call'[c] = "reserved"
  <2>1. call \in [Calls -> Places]
    BY <1>1 DEF TypeOK
  <2>2. CASE \E p \in {"rejected", "done"} : Removes(c, p) /\ Mine(c)
    BY <2>2 DEF Removes, MineNext
  <2>3. CASE Mine(c) /\ entry' = [entry EXCEPT !.phase = "ready"] /\ Goes(c, "rejected")
    <3>1. entry \in [phase : {"loading", "ready", "committing", "reserved"}, by : Calls,
                     source : Sources]
      BY <1>1, <2>3 DEF TypeOK, Entries, Mine
    <3>2. entry'.phase = "ready"
      BY <2>3, <3>1
    <3>3. QED
      BY <2>1, <2>3, <3>2 DEF Goes, MineNext
  <2>4. CASE ~Mine(c) /\ entry' = entry /\ \E p \in {"rejected", "again"} : Goes(c, p)
    BY <2>1, <2>4 DEF Goes
  <2>5. CASE Mine(c) /\ entry' = [entry EXCEPT !.phase = "reserved"] /\ Goes(c, "reserved")
    BY <2>1, <2>5 DEF Goes
  <2>6. QED
    BY <2>2, <2>3, <2>4, <2>5 DEF Commit, OnLive
<1>8. \A d \in Calls \ {c} : \/ call'[d] = call[d]
                             \/ call[d] = "await" /\ call'[d] = "again"
  BY <1>1 DEF Commit, Removes, Goes, TypeOK
<1>9. call'[c] = "reserved" =>
        /\ Mine(c) /\ entry' # NoEntry
        /\ entry'.phase = "reserved" /\ entry'.by = c /\ entry'.source = entry.source
  <2>1. ASSUME Mine(c), entry' = [entry EXCEPT !.phase = "reserved"]
        PROVE  /\ entry' # NoEntry
               /\ entry'.phase = "reserved" /\ entry'.by = c /\ entry'.source = entry.source
    <3>1. /\ entry \in [phase : {"loading", "ready", "committing", "reserved"}, by : Calls,
                     source : Sources]
          /\ entry.by = c
      BY <1>1, <2>1 DEF TypeOK, Entries, Mine
    <3>2. QED
      BY <2>1, <3>1 DEF NoEntry
  <2>2. QED
    BY <1>7, <2>1
<1>10. KindsFit' /\ CommitsAreAlone'
  <2>1. ASSUME NEW d \in Calls, MineNext(d)
        PROVE  /\ Mine(d)
               /\ \/ d # c /\ entry' = entry
                  \/ /\ d = c /\ entry'.source = entry.source
                     /\ call'[c] = IF entry'.phase = "reserved" THEN "reserved" ELSE "queued"
    <3>1. CASE ~Mine(c) /\ entry' = entry
      BY <2>1, <3>1 DEF MineNext, Mine
    <3>2. CASE call'[c] = "reserved"
      BY <1>9, <2>1, <3>2 DEF MineNext
    <3>3. QED
      BY <1>7, <2>1, <3>1, <3>2
  <2>2. call'[c] \notin {"join", "await", "check"}
    BY <1>7
  <2>3. QED
    BY <1>1, <1>2, <1>4, <1>8, <2>1, <2>2, CallOperationsAreAlone
<1>11. ReservedAlone'
  <2> SUFFICES ASSUME NEW d \in Calls, call'[d] = "reserved"
               PROVE  /\ entry' # NoEntry /\ entry'.phase = "reserved" /\ entry'.by = d
                      /\ entry'.source = Stored' /\ ~torn' /\ ~Open(log')
                      /\ state' = OwnedBy(Nobody, Len(log'), TRUE)
                      /\ \A i \in DOMAIN chain' :
                            chain'[i].op \notin Initializations \cup {"append"}
    BY DEF ReservedAlone
  <2>1. Stored' = Stored /\ torn' = torn /\ log' = log
    BY <1>2 DEF Stored, logVars
  <2>2. CASE d = c
    <3>1. /\ entry' # NoEntry /\ entry'.phase = "reserved" /\ entry'.by = d
          /\ entry'.source = Stored
      BY <1>3, <1>9, <2>2, OwnersHaveKinds
    <3>2. \A i \in DOMAIN chain' : chain'[i].op \notin Initializations \cup {"append"}
      <4>1. /\ \A i \in 1 .. Len(chain) - 1 : chain'[i] = chain[i + 1]
            /\ DOMAIN chain' = 1 .. Len(chain) - 1 /\ DOMAIN chain = 1 .. Len(chain)
            /\ Len(chain) \in Nat \ {0}
        BY <1>1, EndsRemovesFromTyped
      <4>2. \A i \in DOMAIN chain' :
               i + 1 \in DOMAIN chain /\ i + 1 > 1 /\ chain'[i] = chain[i + 1]
        BY <4>1
      <4>3. Mine(c)
        BY <1>9, <2>2
      <4>4. QED
        BY <1>6, <4>2, <4>3
    <3>3. QED
      BY <1>3, <2>1, <3>1, <3>2
  <2>3. CASE d # c
    <3>1. call[d] = "reserved"
      BY <1>8, <2>3
    <3>2. entry # NoEntry /\ entry.phase = "reserved" /\ entry.by = d /\ entry.source = Stored
      BY <3>1 DEF Inv, ReservedAlone
    <3>3. entry' = entry
      BY <1>7, <2>3, <3>2 DEF Mine
    <3>4. \A i \in DOMAIN chain' : chain'[i].op \notin Initializations \cup {"append"}
      BY <1>4, <3>1 DEF Inv, ReservedAlone, Shrinks
    <3>5. QED
      BY <1>3, <2>1, <3>2, <3>3, <3>4
  <2>4. QED
    BY <2>2, <2>3
<1>12. QED
  BY <1>1, <1>4, <1>5, <1>10, <1>11 DEF Inv

LEMMA CurrentKeepsInv ==
    ASSUME Inv, NEW c \in Calls, Current(c)
    PROVE  Inv'
<1> USE CoordinatorAssumption
<1>1. TypeOK /\ TypeOK' /\ AtFront("current", c) /\ Ends
  BY CallOperationsKeepTypes DEF Inv, CallOperation, Current, AtHead
<1>2. UNCHANGED <<logVars, holder, lifeVars, state, kind, source>> /\ call[c] = "queued"
  BY DEF Current, callVars
<1>3. /\ SessionsQueueOnce' /\ HolderIsLast' /\ WorkersOwn' /\ SuffixesFit'
      /\ \E d \in {0, 1} : Shrinks(d)
      /\ 1 \in DOMAIN chain /\ chain[1].op = "current" /\ chain[1].of = c
      /\ \A i \in DOMAIN chain' : ~(chain'[i].op = "commit" /\ chain'[i].of = c)
  BY <1>1, <1>2, CallLinkEnds
<1>4. Exact'
  BY <1>1, <1>2 DEF Inv, Exact, Ends, logVars
<1>5. kind[c] = "inspect" /\ ~Mine(c)
  BY <1>3, OwnersHaveKinds DEF Inv, KindsFit
<1>6. /\ call'[c] \in {"done", "again"}
      /\ \A d \in Calls \ {c} : \/ call'[d] = call[d]
                                \/ call[d] = "await" /\ call'[d] = "again"
      /\ entry' = entry \/ (entry' = NoEntry /\ entry.phase \in {"loading", "ready"})
  <2>1. call \in [Calls -> Places]
    BY <1>1 DEF TypeOK
  <2>2. CASE UNCHANGED entry /\ \E p \in {"done", "again"} : Goes(c, p)
    BY <2>1, <2>2 DEF Goes
  <2>3. CASE /\ Removes(c, "again")
             /\ entry # NoEntry /\ entry.phase = "ready"
    BY <2>3 DEF Removes
  <2>4. QED
    BY <2>2, <2>3 DEF Current
<1>7. KindsFit' /\ CommitsAreAlone'
  <2>1. \A d \in Calls : MineNext(d) => Mine(d) /\ d # c /\ entry' = entry
    BY <1>5, <1>6 DEF MineNext, Mine
  <2>2. QED
    BY <1>1, <1>2, <1>3, <1>6, <2>1, CallOperationsAreAlone
<1>8. ReservedAlone'
  <2>1. ASSUME NEW d \in Calls, call'[d] = "reserved"
        PROVE  call[d] = "reserved" /\ entry' = entry
    BY <1>6, <2>1 DEF Inv, ReservedAlone
  <2>2. QED
    BY <1>1, <1>2, <1>3, <2>1, ReservationsStay DEF Inv, logVars
<1>9. QED
  BY <1>1, <1>3, <1>4, <1>7, <1>8 DEF Inv

LEMMA DroppedKeepsInv ==
    ASSUME Inv, NEW c \in Calls, Dropped(c)
    PROVE  Inv'
<1> USE CoordinatorAssumption
<1>1. /\ TypeOK /\ TypeOK' /\ Ends /\ call[c] # "queued"
      /\ \E op \in {"commit", "current"} : AtFront(op, c)
  BY CallOperationsKeepTypes DEF Inv, CallOperation, Dropped, AtHead
<1>2. UNCHANGED <<logVars, holder, lifeVars, state, entry, call, kind, source>>
  BY DEF Dropped, callVars
<1>3. /\ SessionsQueueOnce' /\ HolderIsLast' /\ WorkersOwn' /\ SuffixesFit'
      /\ \E d \in {0, 1} : Shrinks(d)
  BY <1>1, <1>2, CallLinkEnds
<1>4. Exact'
  BY <1>1, <1>2 DEF Inv, Exact, Ends, logVars
<1>5. KindsFit' /\ CommitsAreAlone'
  <2>1. \A d \in Calls : MineNext(d) => Mine(d)
    BY <1>2 DEF MineNext, Mine
  <2>2. \A d \in Calls : MineNext(d) =>
              /\ Mine(d) /\ kind[d] \in {"prepare", "load"} /\ entry'.source = source'[d]
              /\ call'[d] = IF entry'.phase = "reserved" THEN "reserved" ELSE "queued"
    BY <1>2, <2>1, OwnersHaveKinds
  <2>3. \A d \in Calls : call[d] \in {"queued", "rejected"} => call'[d] \in {"queued", "rejected"}
    BY <1>2
  <2>4. KindsFit /\ CommitsAreAlone
    BY DEF Inv
  <2>5. \A d \in Calls :
          /\ call'[d] = "join" => kind[d] # "append"
          /\ call'[d] = "await" => kind[d] \in {"prepare", "load"}
          /\ call'[d] = "check" => kind[d] = "inspect"
    BY <1>2, OwnersHaveKinds
  <2>6. QED
    BY <1>1, <1>2, <1>3, <2>2, <2>3, <2>4, <2>5, CallsStayAlone
<1>6. ReservedAlone'
  BY <1>1, <1>2, <1>3, ReservationsStay DEF Inv, logVars
<1>7. QED
  BY <1>1, <1>3, <1>4, <1>5, <1>6 DEF Inv

\* A direct writer: nothing is reserved while its operation waits, and it invalidates what is
\* prepared.
LEMMA AppendsKeepInv ==
    ASSUME Inv, NEW c \in Calls, AppendBegins(c) \/ AppendLands(c) \/ AppendFails(c)
    PROVE  Inv'
<1> USE CoordinatorAssumption
<1>1. /\ TypeOK /\ TypeOK' /\ AtFront("append", c)
      /\ Ends \/ UNCHANGED chain
  BY CallOperationsKeepTypes
     DEF Inv, CallOperation, AppendBegins, AppendLands, AppendFails, AtHead, Running, Begins
<1>2. UNCHANGED <<holder, lifeVars, kind, source>>
  BY DEF AppendBegins, AppendLands, AppendFails, callVars
<1>3. chain # <<>> /\ Head(chain).op = "append"
  BY <1>1 DEF AppendBegins, AppendLands, AppendFails, AtHead, Running, AtFront
<1>4. /\ state' = state \/ state = NoState \/ state'.owner = state.owner
      /\ AppendLands(c) => state.owner # "none" /\ state'.cursor = state.cursor + 1
                           /\ state'.owner = state.owner
  BY <1>3 DEF AppendBegins, AppendLands, AppendFails, OwnedBy, Inv, Exact, Running
<1>5. /\ SessionsQueueOnce' /\ HolderIsLast' /\ WorkersOwn' /\ SuffixesFit'
      /\ \E d \in {0, 1} : Shrinks(d)
      /\ 1 \in DOMAIN chain /\ chain[1].op = "append" /\ chain[1].of = c
      /\ \A i \in DOMAIN chain' : ~(chain'[i].op = "commit" /\ chain'[i].of = c)
  <2>1. state = NoState => state.owner \notin Lifecycles
    BY DEF NoState
  <2>2. AtFront("append", c)
    BY DEF AppendBegins, AppendLands, AppendFails, AtHead, Running
  <2>3. QED
    BY <1>1, <1>2, <1>4, <2>1, <2>2, CallLinkEnds
<1>6. \A d \in Calls : call[d] # "reserved"
  BY <1>5 DEF Inv, ReservedAlone
<1>7. kind[c] = "append" /\ ~Mine(c)
  BY <1>5, OwnersHaveKinds DEF Inv, KindsFit
<1>8. /\ call'[c] \in {"queued", "done", "rejected"}
      /\ \A d \in Calls \ {c} : \/ call'[d] = call[d]
                                \/ call[d] = "await" /\ call'[d] = "again"
      /\ entry' \in {entry, NoEntry}
  <2>1. call \in [Calls -> Places]
    BY <1>1 DEF TypeOK
  <2>2. CASE UNCHANGED entry /\ \E p \in {"queued", "rejected"} : Goes(c, p)
    BY <2>1, <2>2 DEF Goes
  <2>3. CASE \E p \in {"queued", "done", "rejected"} : Removes(c, p)
    BY <2>3 DEF Removes
  <2>4. QED
    BY <2>2, <2>3 DEF AppendBegins, AppendLands, AppendFails
<1>9. KindsFit' /\ CommitsAreAlone'
  <2>1. \A d \in Calls : MineNext(d) => Mine(d) /\ d # c /\ entry' = entry
    BY <1>7, <1>8 DEF MineNext, Mine
  <2>2. QED
    BY <1>1, <1>2, <1>5, <1>8, <2>1, CallOperationsAreAlone
<1>10. ReservedAlone'
  <2>1. \A d \in Calls : call'[d] # "reserved"
    BY <1>6, <1>8
  <2>2. QED
    BY <2>1 DEF ReservedAlone
<1>11. Exact'
  <2>1. /\ log \in Seq(Events) /\ Event(c, "note") \in Events /\ Event(c, "note").what = "note"
        /\ Balanced(log) \in Seq(Events) /\ ~Open(Balanced(log))
        /\ log # <<>> => Balanced(log) # <<>>
    BY <1>1, BalancedIsBalanced DEF TypeOK, Event, Events
  <2>2. CASE AppendFails(c)
    BY <2>2 DEF Inv, Exact, AppendFails, Ends, logVars
  <2>3. CASE AppendLands(c)
    <3>1. /\ state.cursor = Len(log) /\ ~torn /\ torn' = torn
          /\ log' = Append(log, Event(c, "note")) /\ ~running'
      BY <1>4, <2>3 DEF Inv, Exact, AppendLands, Ends
    <3>2. Len(log') = Len(log) + 1
      BY <2>1, <3>1
    <3>3. ~Open(log) => ~Open(log')
      BY <2>1, <3>1, NoteKeepsBalance
    <3>4. QED
      BY <1>4, <2>3, <3>1, <3>2, <3>3 DEF Inv, Exact
  <2>4. CASE AppendBegins(c)
    <3>1. CASE state # NoState
      <4>1. UNCHANGED <<log, torn, state>> /\ state.owner # "none"
        BY <1>1, <2>4, <3>1, StateIsTyped DEF AppendBegins, logVars
      <4>2. running' => chain' # <<>>
        BY <1>3, <2>4 DEF AppendBegins, Begins, Ends
      <4>3. QED
        BY <4>1, <4>2 DEF Inv, Exact
    <3>2. CASE state = NoState
      <4>1. /\ log' = Balanced(log) /\ torn' = FALSE /\ state' = OwnedBy(Nobody, Len(log'), TRUE)
        BY <2>4, <3>2 DEF AppendBegins
      <4>2. state'.owner = Nobody /\ state'.cursor = Len(log')
        BY <4>1 DEF OwnedBy
      <4>3. running' => chain' # <<>>
        BY <1>3, <2>4 DEF AppendBegins, Begins, Ends
      <4>4. QED
        BY <2>1, <4>1, <4>2, <4>3 DEF Exact
    <3>3. QED
      BY <3>1, <3>2
  <2>5. QED
    BY <2>2, <2>3, <2>4
<1>12. QED
  BY <1>1, <1>5, <1>9, <1>10, <1>11 DEF Inv

-----------------------------------------------------------------------------
(***************************************************************************)
(* The theorems.                                                           *)
(***************************************************************************)

LEMMA InitImpliesInv == Init => Inv
<1> SUFFICES ASSUME Init
             PROVE  Inv
  OBVIOUS
<1> USE CoordinatorAssumption
<1>1. TypeOK
  BY InitIsTyped
<1>2. DOMAIN chain = {} /\ chain = <<>> /\ ~running
  BY DEF Init
<1>3. SessionsQueueOnce
  BY <1>2 DEF Init, SessionsQueueOnce
<1>4. HolderIsLast /\ WorkersOwn
  BY DEF Init, HolderIsLast, WorkersOwn
<1>5. Exact
  BY <1>2 DEF Init, Exact, NoState
<1>6. SuffixesFit /\ KindsFit
  BY <1>2 DEF Init, SuffixesFit, KindsFit
<1>7. CommitsAreAlone /\ ReservedAlone
  BY <1>2 DEF Init, CommitsAreAlone, ReservedAlone, Mine
<1>8. QED
  BY <1>1, <1>3, <1>4, <1>5, <1>6, <1>7 DEF Inv

LEMMA SessionOperationKeepsInv ==
    ASSUME Inv, NEW s \in Lifecycles, SessionOperation(s)
    PROVE  Inv'
<1>1. CASE WriteBegins(s)
  <2>1. TypeOK'
    BY SessionOperationsKeepTypes DEF Inv
  <2>2. QED
    BY <1>1, <2>1, BeginsKeepsInv DEF WriteBegins, callVars
<1>2. QED
  BY <1>1, CreatedKeepsInv, SuffixKeepsInv, WriteLandsKeepsInv, WriteFailsKeepsInv,
     RetireKeepsInv DEF SessionOperation

LEMMA CallOperationKeepsInv ==
    ASSUME Inv, NEW c \in Calls, CallOperation(c)
    PROVE  Inv'
<1>1. CASE CommitBegins(c)
  <2>1. TypeOK'
    BY CallOperationsKeepTypes DEF Inv
  <2>2. QED
    BY <1>1, <2>1, BeginsKeepsInv DEF CommitBegins, callVars
<1>2. QED
  BY <1>1, LoadKeepsInv, CommitGivesNothing, CommitKeepsInv, CurrentKeepsInv, DroppedKeepsInv,
     AppendsKeepInv DEF CallOperation

LEMMA StutteringKeepsInv ==
    ASSUME Inv, UNCHANGED vars
    PROVE  Inv'
<1>1. TypeOK'
  BY DEF Inv, TypeOK, vars, logVars, lifeVars, callVars
<1>2. SessionsQueueOnce' /\ HolderIsLast'
  BY DEF Inv, SessionsQueueOnce, HolderIsLast, vars, lifeVars
<1>3. WorkersOwn' /\ Exact' /\ SuffixesFit'
  BY DEF Inv, WorkersOwn, HasWork, Exact, SuffixesFit, vars, logVars, lifeVars
<1>4. KindsFit' /\ CommitsAreAlone'
  BY DEF Inv, KindsFit, CommitsAreAlone, Mine, vars, callVars
<1>5. ReservedAlone'
  BY DEF Inv, ReservedAlone, Stored, vars, logVars
<1>6. QED
  BY <1>1, <1>2, <1>3, <1>4, <1>5 DEF Inv

LEMMA NextKeepsInv == Inv /\ [Next]_vars => Inv'
<1> SUFFICES ASSUME Inv, [Next]_vars
             PROVE  Inv'
  OBVIOUS
<1>1. CASE Operation
  BY <1>1, SessionOperationKeepsInv, CallOperationKeepsInv DEF Operation
<1>2. ASSUME NEW s \in Lifecycles,
             CreateFresh(s) \/ Produce(s) \/ StartWrite(s) \/ Dispose(s) \/ Flushed(s)
      PROVE  Inv'
  BY <1>2, CreateFreshKeepsInv, ProduceKeepsInv, StartWriteKeepsInv, DisposeKeepsInv,
     FlushedKeepsInv
<1>3. ASSUME NEW c \in Calls,
             \/ Call(c) \/ TakeReady(c) \/ Check(c) \/ AppendCall(c) \/ Abort(c) \/ Release(c)
             \/ \E s \in Lifecycles : Publish(c, s)
      PROVE  Inv'
  BY <1>3, CallKeepsInv, TakeReadyKeepsInv, CheckKeepsInv, AppendCallKeepsInv, AbortKeepsInv,
     ReleaseKeepsInv, PublishKeepsInv
<1>4. CASE Reload
  BY <1>4, ReloadKeepsInv
<1>5. CASE UNCHANGED vars
  BY <1>5, StutteringKeepsInv
<1>6. QED
  BY <1>1, <1>2, <1>3, <1>4, <1>5 DEF Next

LEMMA InvAlways == Spec => []Inv
BY InitImpliesInv, NextKeepsInv, PTL DEF Spec

\* Every variable keeps its type.
THEOREM TypeCorrect == Spec => []TypeOK
<1>1. Inv => TypeOK
  BY DEF Inv
<1>2. QED
  BY <1>1, InvAlways, PTL

\* The cursor that sequence numbers are checked against is the length of the stored log, over
\* every claim, adoption, repair and failed write (onCreated, adopt, appendCore).
THEOREM CursorIsTheLength == Spec => []CursorIsExact
<1>1. Inv => CursorIsExact
  BY StateIsTyped DEF Inv, Exact, CursorIsExact
<1>2. QED
  BY <1>1, InvAlways, PTL

\* What a call reserved is the log as it is stored, until it is used or given back
\* (commitPrepared, reservationFor, assertWritable).
THEOREM ReservedIsStored == Spec => []ReservationIsCurrent
<1>1. Inv => ReservationIsCurrent
  BY DEF Inv, ReservedAlone, ReservationIsCurrent, Mine
<1>2. QED
  BY <1>1, InvAlways, PTL

-----------------------------------------------------------------------------
(***************************************************************************)
(* Nobody waits for what will not come.                                    *)
(***************************************************************************)

\* What waits in the chain, in the next state.
QueuedNext(op, of) == \E i \in DOMAIN chain' : chain'[i] = [op |-> op, of |-> of]

\* A preparation that is loading has its load in the chain; who waits for a preparation to be
\* free waits for one that was read; who waits for a retirement waits for one that goes on.
LoadsAreQueued == entry # NoEntry /\ entry.phase = "loading" => Queued("load", entry.by)
AwaitsAreOfRead ==
    \A c \in Calls : call[c] = "await" => entry # NoEntry /\ entry.phase # "loading"
RetirementGoesOn == retirement # Nobody => retiring[retirement] \in {"flushing", "queued"}
JoinsAreLoaded == \A c \in Calls : call[c] = "join" => Queued("load", on[c])
DrainsGoOn ==
    \A c \in Calls : call[c] = "drain" =>
        on[c] \in Lifecycles /\ retiring[on[c]] \in {"flushing", "queued"}
QueuedAreInChain ==
    \A c \in Calls : call[c] = "queued" =>
        Queued("commit", c) \/ Queued("current", c) \/ Queued("append", c)
RetirementsAreInChain ==
    \A s \in Lifecycles : retiring[s] = "queued" => Queued("retire", s)

Waiting == /\ LoadsAreQueued /\ AwaitsAreOfRead /\ RetirementGoesOn /\ JoinsAreLoaded
           /\ DrainsGoOn /\ QueuedAreInChain /\ RetirementsAreInChain

\* A place in the chain is kept until its operation is done.
LEMMA EnqueueKeepsPlaces ==
    ASSUME TypeOK, NEW op, NEW of, Enqueue(op, of)
    PROVE  /\ QueuedNext(op, of)
           /\ \A o, f : Queued(o, f) => QueuedNext(o, f)
<1>1. /\ DOMAIN chain = 1 .. Len(chain) /\ Len(chain) \in Nat
      /\ DOMAIN chain' = 1 .. Len(chain) + 1
      /\ \A i \in 1 .. Len(chain) : chain'[i] = chain[i]
  BY EnqueueAddsToTyped
<1>2. chain'[Len(chain) + 1] = [op |-> op, of |-> of]
  <2>1. chain \in Seq(Links)
    BY DEF TypeOK
  <2>2. QED
    BY <2>1 DEF Enqueue
<1>3. QED
  BY <1>1, <1>2 DEF Queued, QueuedNext

\* The others keep their places when the first one is done.
LEMMA EndsKeepsPlaces ==
    ASSUME TypeOK, NEW op, NEW of, AtFront(op, of), Ends
    PROVE  \A o, f : Queued(o, f) /\ (o # op \/ f # of) => QueuedNext(o, f)
<1>1. /\ DOMAIN chain = 1 .. Len(chain) /\ Len(chain) \in Nat \ {0}
      /\ DOMAIN chain' = 1 .. Len(chain) - 1
      /\ \A i \in 1 .. Len(chain) - 1 : chain'[i] = chain[i + 1]
      /\ chain[1].op = op /\ chain[1].of = of
  BY EndsRemovesFromTyped
<1> SUFFICES ASSUME NEW o, NEW f, Queued(o, f), o # op \/ f # of
             PROVE  QueuedNext(o, f)
  OBVIOUS
<1>2. PICK i \in DOMAIN chain : chain[i] = [op |-> o, of |-> f]
  BY DEF Queued
<1>3. i # 1 /\ i - 1 \in DOMAIN chain' /\ chain'[i - 1] = chain[i]
  BY <1>1, <1>2
<1>4. QED
  BY <1>2, <1>3 DEF QueuedNext

\* Places stay in a chain that stays.
LEMMA UnchangedKeepsPlaces ==
    ASSUME UNCHANGED chain
    PROVE  \A o, f : Queued(o, f) => QueuedNext(o, f)
BY DEF Queued, QueuedNext

\* What is at the front is in the chain.
LEMMA FrontIsQueued ==
    ASSUME TypeOK, NEW op, NEW of, AtFront(op, of)
    PROVE  Queued(op, of)
<1>1. chain \in Seq(Links) /\ chain # <<>> /\ Head(chain) = [op |-> op, of |-> of]
  BY DEF TypeOK, AtFront
<1>2. 1 \in DOMAIN chain /\ chain[1] = [op |-> op, of |-> of]
  BY <1>1
<1>3. QED
  BY <1>2 DEF Queued

\* The parts of Waiting, read at the next state.
LEMMA WaitingNext ==
    ASSUME entry' # NoEntry /\ entry'.phase = "loading" => QueuedNext("load", entry'.by),
           AwaitsAreOfRead', RetirementGoesOn', DrainsGoOn',
           \A c \in Calls : call'[c] = "join" => QueuedNext("load", on'[c]),
           \A c \in Calls : call'[c] = "queued" =>
               QueuedNext("commit", c) \/ QueuedNext("current", c) \/ QueuedNext("append", c),
           \A s \in Lifecycles : retiring'[s] = "queued" => QueuedNext("retire", s)
    PROVE  Waiting'
BY DEF Waiting, LoadsAreQueued, JoinsAreLoaded, QueuedAreInChain, RetirementsAreInChain, Queued,
   QueuedNext

\* A preparation of a call that changes its phase is still a preparation.
LEMMA PhaseChanges ==
    ASSUME TypeOK, entry # NoEntry, NEW f \in {"ready", "reserved", "committing"},
           entry' = [entry EXCEPT !.phase = f]
    PROVE  entry' # NoEntry /\ entry'.phase = f
<1>1. entry \in [phase : {"loading", "ready", "committing", "reserved"}, by : Calls,
                source : Sources]
  BY DEF TypeOK, Entries
<1>2. QED
  BY <1>1 DEF NoEntry

\* What c does with the preparation it has leaves no load to wait for.
LEMMA OwnEntryKeepsWaiting ==
    ASSUME TypeOK, NEW c \in Calls, NEW p, p # "await",
           \/ Removes(c, p)
           \/ Goes(c, p) /\ UNCHANGED entry
           \/ /\ entry # NoEntry /\ entry.phase # "loading" /\ Goes(c, p)
              /\ \E f \in {"ready", "reserved"} : entry' = [entry EXCEPT !.phase = f],
           AwaitsAreOfRead
    PROVE  /\ AwaitsAreOfRead'
           /\ entry' # NoEntry /\ entry'.phase = "loading" => entry' = entry
<1>1. call \in [Calls -> Places]
  BY DEF TypeOK
<1>2. CASE Removes(c, p)
  BY <1>1, <1>2 DEF Removes, AwaitsAreOfRead, NoEntry
<1>3. CASE Goes(c, p) /\ UNCHANGED entry
  BY <1>1, <1>3 DEF Goes, AwaitsAreOfRead
<1>4. CASE /\ entry # NoEntry
           /\ \E f \in {"ready", "reserved"} : entry' = [entry EXCEPT !.phase = f]
  BY <1>4, PhaseChanges DEF AwaitsAreOfRead
<1>5. QED
  BY <1>2, <1>3, <1>4

\* A new session: an initialization is queued behind the others.
LEMMA CreateFreshKeepsWaiting ==
    ASSUME Inv, Waiting, NEW s \in Lifecycles, CreateFresh(s)
    PROVE  Waiting'
<1> USE CoordinatorAssumption
<1>1. /\ TypeOK /\ LoadsAreQueued /\ AwaitsAreOfRead /\ RetirementGoesOn /\ JoinsAreLoaded
      /\ DrainsGoOn /\ QueuedAreInChain /\ RetirementsAreInChain
      /\ call \in [Calls -> Places]
      /\ retiring \in [Lifecycles -> {"no", "flushing", "queued", "done", "failed"}]
      /\ retirement \in Lifecycles \cup {Nobody}
      /\ on \in [Calls -> Lifecycles \cup Calls \cup {Nobody}]
  BY DEF Inv, Waiting, TypeOK
<1>2. QueuedNext("created", s) /\ \A o, f : Queued(o, f) => QueuedNext(o, f)
  BY <1>1, EnqueueKeepsPlaces DEF CreateFresh
<1>3. entry' # NoEntry /\ entry'.phase = "loading" => QueuedNext("load", entry'.by)
  BY <1>1, <1>2 DEF CreateFresh, Published, Admits, callVars, lifeVars, LoadsAreQueued
<1>4. AwaitsAreOfRead'
  BY <1>1, <1>2 DEF CreateFresh, Published, Admits, callVars, lifeVars, AwaitsAreOfRead
<1>5. RetirementGoesOn'
  BY <1>1, <1>2 DEF CreateFresh, Published, Admits, callVars, lifeVars, RetirementGoesOn
<1>6. DrainsGoOn'
  BY <1>1, <1>2 DEF CreateFresh, Published, Admits, callVars, lifeVars, DrainsGoOn
<1>7. \A d \in Calls : call'[d] = "join" => QueuedNext("load", on'[d])
  BY <1>1, <1>2 DEF CreateFresh, Published, Admits, callVars, lifeVars, JoinsAreLoaded
<1>8. \A d \in Calls : call'[d] = "queued" =>
         QueuedNext("commit", d) \/ QueuedNext("current", d) \/ QueuedNext("append", d)
  BY <1>1, <1>2 DEF CreateFresh, Published, Admits, callVars, lifeVars, QueuedAreInChain
<1>9. \A t \in Lifecycles : retiring'[t] = "queued" => QueuedNext("retire", t)
  BY <1>1, <1>2 DEF CreateFresh, Published, Admits, callVars, lifeVars, RetirementsAreInChain
<1>10. QED
  BY <1>3, <1>4, <1>5, <1>6, <1>7, <1>8, <1>9, WaitingNext

\* A reservation is published: those that wait for it try again.
LEMMA PublishKeepsWaiting ==
    ASSUME Inv, Waiting, NEW s \in Lifecycles, NEW c \in Calls, Publish(c, s)
    PROVE  Waiting'
<1> USE CoordinatorAssumption
<1>1. /\ TypeOK /\ LoadsAreQueued /\ AwaitsAreOfRead /\ RetirementGoesOn /\ JoinsAreLoaded
      /\ DrainsGoOn /\ QueuedAreInChain /\ RetirementsAreInChain
      /\ call \in [Calls -> Places]
      /\ retiring \in [Lifecycles -> {"no", "flushing", "queued", "done", "failed"}]
      /\ retirement \in Lifecycles \cup {Nobody}
      /\ on \in [Calls -> Lifecycles \cup Calls \cup {Nobody}]
  BY DEF Inv, Waiting, TypeOK
<1>2. QueuedNext("suffix", s) /\ \A o, f : Queued(o, f) => QueuedNext(o, f)
  BY <1>1, EnqueueKeepsPlaces DEF Publish
<1>3. entry' # NoEntry /\ entry'.phase = "loading" => QueuedNext("load", entry'.by)
  BY <1>1, <1>2 DEF Publish, Published, Admits, Removes, callVars, lifeVars, LoadsAreQueued
<1>4. AwaitsAreOfRead'
  BY <1>1, <1>2 DEF Publish, Published, Admits, Removes, callVars, lifeVars, AwaitsAreOfRead
<1>5. RetirementGoesOn'
  BY <1>1, <1>2 DEF Publish, Published, Admits, Removes, callVars, lifeVars, RetirementGoesOn
<1>6. DrainsGoOn'
  BY <1>1, <1>2 DEF Publish, Published, Admits, Removes, callVars, lifeVars, DrainsGoOn
<1>7. \A d \in Calls : call'[d] = "join" => QueuedNext("load", on'[d])
  BY <1>1, <1>2 DEF Publish, Published, Admits, Removes, callVars, lifeVars, JoinsAreLoaded
<1>8. \A d \in Calls : call'[d] = "queued" =>
         QueuedNext("commit", d) \/ QueuedNext("current", d) \/ QueuedNext("append", d)
  BY <1>1, <1>2 DEF Publish, Published, Admits, Removes, callVars, lifeVars, QueuedAreInChain
<1>9. \A t \in Lifecycles : retiring'[t] = "queued" => QueuedNext("retire", t)
  BY <1>1, <1>2 DEF Publish, Published, Admits, Removes, callVars, lifeVars,
     RetirementsAreInChain
<1>10. QED
  BY <1>3, <1>4, <1>5, <1>6, <1>7, <1>8, <1>9, WaitingNext

\* A session appends.
LEMMA ProduceKeepsWaiting ==
    ASSUME Inv, Waiting, NEW s \in Lifecycles, Produce(s)
    PROVE  Waiting'
<1> USE CoordinatorAssumption
<1>1. /\ TypeOK /\ LoadsAreQueued /\ AwaitsAreOfRead /\ RetirementGoesOn /\ JoinsAreLoaded
      /\ DrainsGoOn /\ QueuedAreInChain /\ RetirementsAreInChain
      /\ call \in [Calls -> Places]
      /\ retiring \in [Lifecycles -> {"no", "flushing", "queued", "done", "failed"}]
      /\ retirement \in Lifecycles \cup {Nobody}
      /\ on \in [Calls -> Lifecycles \cup Calls \cup {Nobody}]
  BY DEF Inv, Waiting, TypeOK
<1>2. \A o, f : Queued(o, f) => QueuedNext(o, f)
  BY UnchangedKeepsPlaces DEF Produce
<1>3. entry' # NoEntry /\ entry'.phase = "loading" => QueuedNext("load", entry'.by)
  BY <1>1, <1>2 DEF Produce, callVars, lifeVars, LoadsAreQueued
<1>4. AwaitsAreOfRead'
  BY <1>1, <1>2 DEF Produce, callVars, lifeVars, AwaitsAreOfRead
<1>5. RetirementGoesOn'
  BY <1>1, <1>2 DEF Produce, callVars, lifeVars, RetirementGoesOn
<1>6. DrainsGoOn'
  BY <1>1, <1>2 DEF Produce, callVars, lifeVars, DrainsGoOn
<1>7. \A d \in Calls : call'[d] = "join" => QueuedNext("load", on'[d])
  BY <1>1, <1>2 DEF Produce, callVars, lifeVars, JoinsAreLoaded
<1>8. \A d \in Calls : call'[d] = "queued" =>
         QueuedNext("commit", d) \/ QueuedNext("current", d) \/ QueuedNext("append", d)
  BY <1>1, <1>2 DEF Produce, callVars, lifeVars, QueuedAreInChain
<1>9. \A t \in Lifecycles : retiring'[t] = "queued" => QueuedNext("retire", t)
  BY <1>1, <1>2 DEF Produce, callVars, lifeVars, RetirementsAreInChain
<1>10. QED
  BY <1>3, <1>4, <1>5, <1>6, <1>7, <1>8, <1>9, WaitingNext

\* A write is queued.
LEMMA StartWriteKeepsWaiting ==
    ASSUME Inv, Waiting, NEW s \in Lifecycles, StartWrite(s)
    PROVE  Waiting'
<1> USE CoordinatorAssumption
<1>1. /\ TypeOK /\ LoadsAreQueued /\ AwaitsAreOfRead /\ RetirementGoesOn /\ JoinsAreLoaded
      /\ DrainsGoOn /\ QueuedAreInChain /\ RetirementsAreInChain
      /\ call \in [Calls -> Places]
      /\ retiring \in [Lifecycles -> {"no", "flushing", "queued", "done", "failed"}]
      /\ retirement \in Lifecycles \cup {Nobody}
      /\ on \in [Calls -> Lifecycles \cup Calls \cup {Nobody}]
  BY DEF Inv, Waiting, TypeOK
<1>2. QueuedNext("write", s) /\ \A o, f : Queued(o, f) => QueuedNext(o, f)
  BY <1>1, EnqueueKeepsPlaces DEF StartWrite
<1>3. entry' # NoEntry /\ entry'.phase = "loading" => QueuedNext("load", entry'.by)
  BY <1>1, <1>2 DEF StartWrite, callVars, lifeVars, LoadsAreQueued
<1>4. AwaitsAreOfRead'
  BY <1>1, <1>2 DEF StartWrite, callVars, lifeVars, AwaitsAreOfRead
<1>5. RetirementGoesOn'
  BY <1>1, <1>2 DEF StartWrite, callVars, lifeVars, RetirementGoesOn
<1>6. DrainsGoOn'
  BY <1>1, <1>2 DEF StartWrite, callVars, lifeVars, DrainsGoOn
<1>7. \A d \in Calls : call'[d] = "join" => QueuedNext("load", on'[d])
  BY <1>1, <1>2 DEF StartWrite, callVars, lifeVars, JoinsAreLoaded
<1>8. \A d \in Calls : call'[d] = "queued" =>
         QueuedNext("commit", d) \/ QueuedNext("current", d) \/ QueuedNext("append", d)
  BY <1>1, <1>2 DEF StartWrite, callVars, lifeVars, QueuedAreInChain
<1>9. \A t \in Lifecycles : retiring'[t] = "queued" => QueuedNext("retire", t)
  BY <1>1, <1>2 DEF StartWrite, callVars, lifeVars, RetirementsAreInChain
<1>10. QED
  BY <1>3, <1>4, <1>5, <1>6, <1>7, <1>8, <1>9, WaitingNext

\* The final flush of a lifecycle starts.
LEMMA DisposeKeepsWaiting ==
    ASSUME Inv, Waiting, NEW s \in Lifecycles, Dispose(s)
    PROVE  Waiting'
<1> USE CoordinatorAssumption
<1>1. /\ TypeOK /\ LoadsAreQueued /\ AwaitsAreOfRead /\ RetirementGoesOn /\ JoinsAreLoaded
      /\ DrainsGoOn /\ QueuedAreInChain /\ RetirementsAreInChain
      /\ call \in [Calls -> Places]
      /\ retiring \in [Lifecycles -> {"no", "flushing", "queued", "done", "failed"}]
      /\ retirement \in Lifecycles \cup {Nobody}
      /\ on \in [Calls -> Lifecycles \cup Calls \cup {Nobody}]
  BY DEF Inv, Waiting, TypeOK
<1>2. \A o, f : Queued(o, f) => QueuedNext(o, f)
  BY UnchangedKeepsPlaces DEF Dispose
<1>3. entry' # NoEntry /\ entry'.phase = "loading" => QueuedNext("load", entry'.by)
  BY <1>1, <1>2 DEF Dispose, callVars, lifeVars, LoadsAreQueued
<1>4. AwaitsAreOfRead'
  BY <1>1, <1>2 DEF Dispose, callVars, lifeVars, AwaitsAreOfRead
<1>5. RetirementGoesOn'
  BY <1>1, <1>2 DEF Dispose, callVars, lifeVars, RetirementGoesOn
<1>6. DrainsGoOn'
  BY <1>1, <1>2 DEF Dispose, callVars, lifeVars, DrainsGoOn
<1>7. \A d \in Calls : call'[d] = "join" => QueuedNext("load", on'[d])
  BY <1>1, <1>2 DEF Dispose, callVars, lifeVars, JoinsAreLoaded
<1>8. \A d \in Calls : call'[d] = "queued" =>
         QueuedNext("commit", d) \/ QueuedNext("current", d) \/ QueuedNext("append", d)
  BY <1>1, <1>2 DEF Dispose, callVars, lifeVars, QueuedAreInChain
<1>9. \A t \in Lifecycles : retiring'[t] = "queued" => QueuedNext("retire", t)
  BY <1>1, <1>2 DEF Dispose, callVars, lifeVars, RetirementsAreInChain
<1>10. QED
  BY <1>3, <1>4, <1>5, <1>6, <1>7, <1>8, <1>9, WaitingNext

\* A retirement is queued, or has failed, and those that wait for it are answered.
LEMMA FlushedKeepsWaiting ==
    ASSUME Inv, Waiting, NEW s \in Lifecycles, Flushed(s)
    PROVE  Waiting'
<1> USE CoordinatorAssumption
<1>1. /\ TypeOK /\ LoadsAreQueued /\ AwaitsAreOfRead /\ RetirementGoesOn /\ JoinsAreLoaded
      /\ DrainsGoOn /\ QueuedAreInChain /\ RetirementsAreInChain
      /\ call \in [Calls -> Places]
      /\ retiring \in [Lifecycles -> {"no", "flushing", "queued", "done", "failed"}]
      /\ retirement \in Lifecycles \cup {Nobody}
      /\ on \in [Calls -> Lifecycles \cup Calls \cup {Nobody}]
  BY DEF Inv, Waiting, TypeOK
<1>2. /\ \A o, f : Queued(o, f) => QueuedNext(o, f)
      /\ retiring'[s] = "queued" => QueuedNext("retire", s)
  BY <1>1, EnqueueKeepsPlaces, UnchangedKeepsPlaces DEF Flushed, Settles
<1>3. entry' # NoEntry /\ entry'.phase = "loading" => QueuedNext("load", entry'.by)
  BY <1>1, <1>2 DEF Flushed, Settles, callVars, lifeVars, LoadsAreQueued
<1>4. AwaitsAreOfRead'
  BY <1>1, <1>2 DEF Flushed, Settles, callVars, lifeVars, AwaitsAreOfRead
<1>5. RetirementGoesOn'
  BY <1>1, <1>2 DEF Flushed, Settles, callVars, lifeVars, RetirementGoesOn
<1>6. DrainsGoOn'
  <2>1. CASE Settles(s, "failed")
    <3>1. /\ \A t \in Lifecycles : t # s => retiring'[t] = retiring[t]
          /\ \A d \in Calls : call'[d] = "drain" => call[d] = "drain" /\ on[d] # s
          /\ UNCHANGED on
      BY <1>1, <2>1 DEF Settles, Flushed, callVars
    <3>2. \A d \in Calls : call[d] = "drain" => on[d] \in Lifecycles
      BY <1>1 DEF DrainsGoOn, TypeOK
    <3>3. QED
      BY <1>1, <3>1, <3>2 DEF DrainsGoOn
  <2>2. CASE retiring' = [retiring EXCEPT ![s] = "queued"] /\ UNCHANGED <<retirement, call>>
    <3>1. retiring'[s] = "queued" /\ \A t \in Lifecycles \ {s} : retiring'[t] = retiring[t]
      BY <1>1, <2>2
    <3>2. \A d \in Calls : call[d] = "drain" => on[d] \in Lifecycles
      BY <1>1 DEF DrainsGoOn
    <3>3. QED
      BY <1>1, <2>2, <3>1, <3>2 DEF DrainsGoOn, Flushed, callVars
  <2>3. QED
    BY <1>1, <2>1, <2>2 DEF Flushed
<1>7. \A d \in Calls : call'[d] = "join" => QueuedNext("load", on'[d])
  BY <1>1, <1>2 DEF Flushed, Settles, callVars, lifeVars, JoinsAreLoaded
<1>8. \A d \in Calls : call'[d] = "queued" =>
         QueuedNext("commit", d) \/ QueuedNext("current", d) \/ QueuedNext("append", d)
  BY <1>1, <1>2 DEF Flushed, Settles, callVars, lifeVars, QueuedAreInChain
<1>9. \A t \in Lifecycles : retiring'[t] = "queued" => QueuedNext("retire", t)
  BY <1>1, <1>2 DEF Flushed, Settles, callVars, lifeVars, RetirementsAreInChain
<1>10. QED
  BY <1>3, <1>4, <1>5, <1>6, <1>7, <1>8, <1>9, WaitingNext

\* No call is under way when the plugin is reloaded.
LEMMA ReloadKeepsWaiting ==
    ASSUME Inv, Waiting, Reload
    PROVE  Waiting'
<1> USE CoordinatorAssumption
<1>1. /\ TypeOK /\ LoadsAreQueued /\ AwaitsAreOfRead /\ RetirementGoesOn /\ JoinsAreLoaded
      /\ DrainsGoOn /\ QueuedAreInChain /\ RetirementsAreInChain
      /\ call \in [Calls -> Places]
      /\ retiring \in [Lifecycles -> {"no", "flushing", "queued", "done", "failed"}]
      /\ retirement \in Lifecycles \cup {Nobody}
      /\ on \in [Calls -> Lifecycles \cup Calls \cup {Nobody}]
  BY DEF Inv, Waiting, TypeOK
<1>2. \A o, f : Queued(o, f) => QueuedNext(o, f)
  BY <1>1, EnqueueKeepsPlaces, UnchangedKeepsPlaces DEF Reload
<1>3. entry' # NoEntry /\ entry'.phase = "loading" => QueuedNext("load", entry'.by)
  BY <1>1, <1>2 DEF Reload, callVars, lifeVars, LoadsAreQueued
<1>4. AwaitsAreOfRead'
  BY <1>1, <1>2 DEF Reload, callVars, lifeVars, AwaitsAreOfRead
<1>5. RetirementGoesOn'
  BY <1>1, <1>2 DEF Reload, callVars, lifeVars, RetirementGoesOn
<1>6. DrainsGoOn'
  BY <1>1, <1>2 DEF Reload, callVars, lifeVars, DrainsGoOn
<1>7. \A d \in Calls : call'[d] = "join" => QueuedNext("load", on'[d])
  BY <1>1, <1>2 DEF Reload, callVars, lifeVars, JoinsAreLoaded
<1>8. \A d \in Calls : call'[d] = "queued" =>
         QueuedNext("commit", d) \/ QueuedNext("current", d) \/ QueuedNext("append", d)
  BY <1>1, <1>2 DEF Reload, callVars, lifeVars, QueuedAreInChain
<1>9. \A t \in Lifecycles : retiring'[t] = "queued" => QueuedNext("retire", t)
  BY <1>1, <1>2 DEF Reload, callVars, lifeVars, RetirementsAreInChain
<1>10. QED
  BY <1>3, <1>4, <1>5, <1>6, <1>7, <1>8, <1>9, WaitingNext

\* An initialization ends, and may invalidate the preparation.
LEMMA CreatedKeepsWaiting ==
    ASSUME Inv, Waiting, NEW s \in Lifecycles, Created(s)
    PROVE  Waiting'
<1> USE CoordinatorAssumption
<1>1. /\ TypeOK /\ LoadsAreQueued /\ AwaitsAreOfRead /\ RetirementGoesOn /\ JoinsAreLoaded
      /\ DrainsGoOn /\ QueuedAreInChain /\ RetirementsAreInChain
      /\ call \in [Calls -> Places]
      /\ retiring \in [Lifecycles -> {"no", "flushing", "queued", "done", "failed"}]
      /\ retirement \in Lifecycles \cup {Nobody}
      /\ on \in [Calls -> Lifecycles \cup Calls \cup {Nobody}]
  BY DEF Inv, Waiting, TypeOK
<1>2. \A o, f : Queued(o, f) /\ (o # "created" \/ f # s) => QueuedNext(o, f)
  BY <1>1, EndsKeepsPlaces DEF Created, AtHead, Running
<1>3. entry' # NoEntry /\ entry'.phase = "loading" => QueuedNext("load", entry'.by)
  BY <1>1, <1>2 DEF Created, TakesOwnership, Lands, Invalidates, Removes, callVars, lifeVars,
     LoadsAreQueued
<1>4. AwaitsAreOfRead'
  BY <1>1, <1>2 DEF Created, TakesOwnership, Lands, Invalidates, Removes, callVars, lifeVars,
     AwaitsAreOfRead
<1>5. RetirementGoesOn'
  BY <1>1, <1>2 DEF Created, TakesOwnership, Lands, Invalidates, Removes, callVars, lifeVars,
     RetirementGoesOn
<1>6. DrainsGoOn'
  <2>1. UNCHANGED <<retiring, on>> /\ \A d \in Calls : call'[d] = "drain" => call[d] = "drain"
    BY <1>1 DEF Created, TakesOwnership, Lands, Invalidates, Removes, callVars
  <2>2. QED
    BY <1>1, <2>1 DEF DrainsGoOn
<1>7. \A d \in Calls : call'[d] = "join" => QueuedNext("load", on'[d])
  BY <1>1, <1>2 DEF Created, TakesOwnership, Lands, Invalidates, Removes, callVars, lifeVars,
     JoinsAreLoaded
<1>8. \A d \in Calls : call'[d] = "queued" =>
         QueuedNext("commit", d) \/ QueuedNext("current", d) \/ QueuedNext("append", d)
  BY <1>1, <1>2 DEF Created, TakesOwnership, Lands, Invalidates, Removes, callVars, lifeVars,
     QueuedAreInChain
<1>9. \A t \in Lifecycles : retiring'[t] = "queued" => QueuedNext("retire", t)
  BY <1>1, <1>2 DEF Created, TakesOwnership, Lands, Invalidates, Removes, callVars, lifeVars,
     RetirementsAreInChain
<1>10. QED
  BY <1>3, <1>4, <1>5, <1>6, <1>7, <1>8, <1>9, WaitingNext

\* The initialization of a restored session ends.
LEMMA SuffixKeepsWaiting ==
    ASSUME Inv, Waiting, NEW s \in Lifecycles, Suffix(s)
    PROVE  Waiting'
<1> USE CoordinatorAssumption
<1>1. /\ TypeOK /\ LoadsAreQueued /\ AwaitsAreOfRead /\ RetirementGoesOn /\ JoinsAreLoaded
      /\ DrainsGoOn /\ QueuedAreInChain /\ RetirementsAreInChain
      /\ call \in [Calls -> Places]
      /\ retiring \in [Lifecycles -> {"no", "flushing", "queued", "done", "failed"}]
      /\ retirement \in Lifecycles \cup {Nobody}
      /\ on \in [Calls -> Lifecycles \cup Calls \cup {Nobody}]
  BY DEF Inv, Waiting, TypeOK
<1>2. \A o, f : Queued(o, f) /\ (o # "suffix" \/ f # s) => QueuedNext(o, f)
  BY <1>1, EndsKeepsPlaces DEF Suffix, AtHead, Running
<1>3. entry' # NoEntry /\ entry'.phase = "loading" => QueuedNext("load", entry'.by)
  BY <1>1, <1>2 DEF Suffix, Lands, Invalidates, Removes, callVars, lifeVars, LoadsAreQueued
<1>4. AwaitsAreOfRead'
  BY <1>1, <1>2 DEF Suffix, Lands, Invalidates, Removes, callVars, lifeVars, AwaitsAreOfRead
<1>5. RetirementGoesOn'
  BY <1>1, <1>2 DEF Suffix, Lands, Invalidates, Removes, callVars, lifeVars, RetirementGoesOn
<1>6. DrainsGoOn'
  <2>1. UNCHANGED <<retiring, on>> /\ \A d \in Calls : call'[d] = "drain" => call[d] = "drain"
    BY <1>1 DEF Suffix, Lands, Invalidates, Removes, callVars
  <2>2. QED
    BY <1>1, <2>1 DEF DrainsGoOn
<1>7. \A d \in Calls : call'[d] = "join" => QueuedNext("load", on'[d])
  BY <1>1, <1>2 DEF Suffix, Lands, Invalidates, Removes, callVars, lifeVars, JoinsAreLoaded
<1>8. \A d \in Calls : call'[d] = "queued" =>
         QueuedNext("commit", d) \/ QueuedNext("current", d) \/ QueuedNext("append", d)
  BY <1>1, <1>2 DEF Suffix, Lands, Invalidates, Removes, callVars, lifeVars, QueuedAreInChain
<1>9. \A t \in Lifecycles : retiring'[t] = "queued" => QueuedNext("retire", t)
  BY <1>1, <1>2 DEF Suffix, Lands, Invalidates, Removes, callVars, lifeVars,
     RetirementsAreInChain
<1>10. QED
  BY <1>3, <1>4, <1>5, <1>6, <1>7, <1>8, <1>9, WaitingNext

\* A write begins.
LEMMA WriteBeginsKeepsWaiting ==
    ASSUME Inv, Waiting, NEW s \in Lifecycles, WriteBegins(s)
    PROVE  Waiting'
<1> USE CoordinatorAssumption
<1>1. /\ TypeOK /\ LoadsAreQueued /\ AwaitsAreOfRead /\ RetirementGoesOn /\ JoinsAreLoaded
      /\ DrainsGoOn /\ QueuedAreInChain /\ RetirementsAreInChain
      /\ call \in [Calls -> Places]
      /\ retiring \in [Lifecycles -> {"no", "flushing", "queued", "done", "failed"}]
      /\ retirement \in Lifecycles \cup {Nobody}
      /\ on \in [Calls -> Lifecycles \cup Calls \cup {Nobody}]
  BY DEF Inv, Waiting, TypeOK
<1>2. \A o, f : Queued(o, f) => QueuedNext(o, f)
  BY UnchangedKeepsPlaces DEF WriteBegins, Begins
<1>3. entry' # NoEntry /\ entry'.phase = "loading" => QueuedNext("load", entry'.by)
  BY <1>1, <1>2 DEF WriteBegins, Begins, callVars, lifeVars, LoadsAreQueued
<1>4. AwaitsAreOfRead'
  BY <1>1, <1>2 DEF WriteBegins, Begins, callVars, lifeVars, AwaitsAreOfRead
<1>5. RetirementGoesOn'
  BY <1>1, <1>2 DEF WriteBegins, Begins, callVars, lifeVars, RetirementGoesOn
<1>6. DrainsGoOn'
  BY <1>1, <1>2 DEF WriteBegins, Begins, callVars, lifeVars, DrainsGoOn
<1>7. \A d \in Calls : call'[d] = "join" => QueuedNext("load", on'[d])
  BY <1>1, <1>2 DEF WriteBegins, Begins, callVars, lifeVars, JoinsAreLoaded
<1>8. \A d \in Calls : call'[d] = "queued" =>
         QueuedNext("commit", d) \/ QueuedNext("current", d) \/ QueuedNext("append", d)
  BY <1>1, <1>2 DEF WriteBegins, Begins, callVars, lifeVars, QueuedAreInChain
<1>9. \A t \in Lifecycles : retiring'[t] = "queued" => QueuedNext("retire", t)
  BY <1>1, <1>2 DEF WriteBegins, Begins, callVars, lifeVars, RetirementsAreInChain
<1>10. QED
  BY <1>3, <1>4, <1>5, <1>6, <1>7, <1>8, <1>9, WaitingNext

\* A write ends, and may invalidate the preparation.
LEMMA WriteLandsKeepsWaiting ==
    ASSUME Inv, Waiting, NEW s \in Lifecycles, WriteLands(s)
    PROVE  Waiting'
<1> USE CoordinatorAssumption
<1>1. /\ TypeOK /\ LoadsAreQueued /\ AwaitsAreOfRead /\ RetirementGoesOn /\ JoinsAreLoaded
      /\ DrainsGoOn /\ QueuedAreInChain /\ RetirementsAreInChain
      /\ call \in [Calls -> Places]
      /\ retiring \in [Lifecycles -> {"no", "flushing", "queued", "done", "failed"}]
      /\ retirement \in Lifecycles \cup {Nobody}
      /\ on \in [Calls -> Lifecycles \cup Calls \cup {Nobody}]
  BY DEF Inv, Waiting, TypeOK
<1>2. \A o, f : Queued(o, f) /\ (o # "write" \/ f # s) => QueuedNext(o, f)
  BY <1>1, EndsKeepsPlaces DEF WriteLands, AtHead, Running
<1>3. entry' # NoEntry /\ entry'.phase = "loading" => QueuedNext("load", entry'.by)
  BY <1>1, <1>2 DEF WriteLands, Lands, Invalidates, Removes, callVars, lifeVars, LoadsAreQueued
<1>4. AwaitsAreOfRead'
  BY <1>1, <1>2 DEF WriteLands, Lands, Invalidates, Removes, callVars, lifeVars, AwaitsAreOfRead
<1>5. RetirementGoesOn'
  BY <1>1, <1>2 DEF WriteLands, Lands, Invalidates, Removes, callVars, lifeVars,
     RetirementGoesOn
<1>6. DrainsGoOn'
  <2>1. UNCHANGED <<retiring, on>> /\ \A d \in Calls : call'[d] = "drain" => call[d] = "drain"
    BY <1>1 DEF WriteLands, Lands, Invalidates, Removes, callVars
  <2>2. QED
    BY <1>1, <2>1 DEF DrainsGoOn
<1>7. \A d \in Calls : call'[d] = "join" => QueuedNext("load", on'[d])
  BY <1>1, <1>2 DEF WriteLands, Lands, Invalidates, Removes, callVars, lifeVars, JoinsAreLoaded
<1>8. \A d \in Calls : call'[d] = "queued" =>
         QueuedNext("commit", d) \/ QueuedNext("current", d) \/ QueuedNext("append", d)
  BY <1>1, <1>2 DEF WriteLands, Lands, Invalidates, Removes, callVars, lifeVars,
     QueuedAreInChain
<1>9. \A t \in Lifecycles : retiring'[t] = "queued" => QueuedNext("retire", t)
  BY <1>1, <1>2 DEF WriteLands, Lands, Invalidates, Removes, callVars, lifeVars,
     RetirementsAreInChain
<1>10. QED
  BY <1>3, <1>4, <1>5, <1>6, <1>7, <1>8, <1>9, WaitingNext

\* A write fails, and the retirement that waits for it with it.
LEMMA WriteFailsKeepsWaiting ==
    ASSUME Inv, Waiting, NEW s \in Lifecycles, WriteFails(s)
    PROVE  Waiting'
<1> USE CoordinatorAssumption
<1>1. /\ TypeOK /\ LoadsAreQueued /\ AwaitsAreOfRead /\ RetirementGoesOn /\ JoinsAreLoaded
      /\ DrainsGoOn /\ QueuedAreInChain /\ RetirementsAreInChain
      /\ call \in [Calls -> Places]
      /\ retiring \in [Lifecycles -> {"no", "flushing", "queued", "done", "failed"}]
      /\ retirement \in Lifecycles \cup {Nobody}
      /\ on \in [Calls -> Lifecycles \cup Calls \cup {Nobody}]
  BY DEF Inv, Waiting, TypeOK
<1>2. \A o, f : Queued(o, f) /\ (o # "write" \/ f # s) => QueuedNext(o, f)
  BY <1>1, EndsKeepsPlaces DEF WriteFails, AtHead, Running
<1>3. entry' # NoEntry /\ entry'.phase = "loading" => QueuedNext("load", entry'.by)
  BY <1>1, <1>2 DEF WriteFails, Settles, callVars, lifeVars, LoadsAreQueued
<1>4. AwaitsAreOfRead'
  BY <1>1, <1>2 DEF WriteFails, Settles, callVars, lifeVars, AwaitsAreOfRead
<1>5. RetirementGoesOn'
  BY <1>1, <1>2 DEF WriteFails, Settles, callVars, lifeVars, RetirementGoesOn
<1>6. DrainsGoOn'
  <2>1. CASE Settles(s, "failed")
    <3>1. /\ \A t \in Lifecycles : t # s => retiring'[t] = retiring[t]
          /\ \A d \in Calls : call'[d] = "drain" => call[d] = "drain" /\ on[d] # s
          /\ UNCHANGED on
      BY <1>1, <2>1 DEF Settles, WriteFails, callVars
    <3>2. \A d \in Calls : call[d] = "drain" => on[d] \in Lifecycles
      BY <1>1 DEF DrainsGoOn, TypeOK
    <3>3. QED
      BY <1>1, <3>1, <3>2 DEF DrainsGoOn
  <2>2. CASE UNCHANGED <<retiring, retirement, call>>
    BY <1>1, <2>2 DEF DrainsGoOn, WriteFails, callVars
  <2>3. QED
    BY <1>1, <2>1, <2>2 DEF WriteFails
<1>7. \A d \in Calls : call'[d] = "join" => QueuedNext("load", on'[d])
  BY <1>1, <1>2 DEF WriteFails, Settles, callVars, lifeVars, JoinsAreLoaded
<1>8. \A d \in Calls : call'[d] = "queued" =>
         QueuedNext("commit", d) \/ QueuedNext("current", d) \/ QueuedNext("append", d)
  BY <1>1, <1>2 DEF WriteFails, Settles, callVars, lifeVars, QueuedAreInChain
<1>9. \A t \in Lifecycles : retiring'[t] = "queued" => QueuedNext("retire", t)
  BY <1>1, <1>2 DEF WriteFails, Settles, callVars, lifeVars, RetirementsAreInChain
<1>10. QED
  BY <1>3, <1>4, <1>5, <1>6, <1>7, <1>8, <1>9, WaitingNext

\* A retirement ends: those that wait for it go on.
LEMMA RetireKeepsWaiting ==
    ASSUME Inv, Waiting, NEW s \in Lifecycles, Retire(s)
    PROVE  Waiting'
<1> USE CoordinatorAssumption
<1>1. /\ TypeOK /\ LoadsAreQueued /\ AwaitsAreOfRead /\ RetirementGoesOn /\ JoinsAreLoaded
      /\ DrainsGoOn /\ QueuedAreInChain /\ RetirementsAreInChain
      /\ call \in [Calls -> Places]
      /\ retiring \in [Lifecycles -> {"no", "flushing", "queued", "done", "failed"}]
      /\ retirement \in Lifecycles \cup {Nobody}
      /\ on \in [Calls -> Lifecycles \cup Calls \cup {Nobody}]
  BY DEF Inv, Waiting, TypeOK
<1>2. \A o, f : Queued(o, f) /\ (o # "retire" \/ f # s) => QueuedNext(o, f)
  BY <1>1, EndsKeepsPlaces DEF Retire, AtHead, Running
<1>3. entry' # NoEntry /\ entry'.phase = "loading" => QueuedNext("load", entry'.by)
  BY <1>1, <1>2 DEF Retire, Settles, callVars, lifeVars, LoadsAreQueued
<1>4. AwaitsAreOfRead'
  BY <1>1, <1>2 DEF Retire, Settles, callVars, lifeVars, AwaitsAreOfRead
<1>5. RetirementGoesOn'
  BY <1>1, <1>2 DEF Retire, Settles, callVars, lifeVars, RetirementGoesOn
<1>6. DrainsGoOn'
  BY <1>1, <1>2 DEF Retire, Settles, callVars, lifeVars, DrainsGoOn
<1>7. \A d \in Calls : call'[d] = "join" => QueuedNext("load", on'[d])
  BY <1>1, <1>2 DEF Retire, Settles, callVars, lifeVars, JoinsAreLoaded
<1>8. \A d \in Calls : call'[d] = "queued" =>
         QueuedNext("commit", d) \/ QueuedNext("current", d) \/ QueuedNext("append", d)
  BY <1>1, <1>2 DEF Retire, Settles, callVars, lifeVars, QueuedAreInChain
<1>9. \A t \in Lifecycles : retiring'[t] = "queued" => QueuedNext("retire", t)
  BY <1>1, <1>2 DEF Retire, Settles, callVars, lifeVars, RetirementsAreInChain
<1>10. QED
  BY <1>3, <1>4, <1>5, <1>6, <1>7, <1>8, <1>9, WaitingNext

\* A call starts its load, joins one, or waits for what goes on.
LEMMA CallKeepsWaiting ==
    ASSUME Inv, Waiting, NEW c \in Calls, Call(c)
    PROVE  Waiting'
<1> USE CoordinatorAssumption
<1>1. /\ TypeOK /\ LoadsAreQueued /\ AwaitsAreOfRead /\ RetirementGoesOn /\ JoinsAreLoaded
      /\ DrainsGoOn /\ QueuedAreInChain /\ RetirementsAreInChain
      /\ call \in [Calls -> Places]
      /\ retiring \in [Lifecycles -> {"no", "flushing", "queued", "done", "failed"}]
      /\ retirement \in Lifecycles \cup {Nobody}
      /\ on \in [Calls -> Lifecycles \cup Calls \cup {Nobody}]
  BY DEF Inv, Waiting, TypeOK
<1>2. /\ \A o, f : Queued(o, f) => QueuedNext(o, f)
      /\ entry' # entry => QueuedNext("load", c)
  BY <1>1, EnqueueKeepsPlaces, UnchangedKeepsPlaces DEF Call, Enter
<1>3. entry' # NoEntry /\ entry'.phase = "loading" => QueuedNext("load", entry'.by)
  BY <1>1, <1>2 DEF Call, Enter, Goes, OnLive, callVars, lifeVars, LoadsAreQueued
<1>4. AwaitsAreOfRead'
  BY <1>1, <1>2 DEF Call, Enter, Goes, OnLive, callVars, lifeVars, AwaitsAreOfRead
<1>5. RetirementGoesOn'
  BY <1>1, <1>2 DEF Call, Enter, Goes, OnLive, callVars, lifeVars, RetirementGoesOn
<1>6. DrainsGoOn'
  <2>1. UNCHANGED retiring
    BY DEF Call, lifeVars
  <2>2. CASE Enter(c)
    <3>1. PICK p \in {"done", "rejected", "join", "check", "await"} : Goes(c, p)
      BY <2>2 DEF Enter, OnLive
    <3>2. \A d \in Calls : call'[d] = "drain" => d # c /\ call[d] = "drain"
      BY <1>1, <3>1 DEF Goes
    <3>3. \A d \in Calls \ {c} : on'[d] = on[d]
      BY <1>1, <2>2 DEF Enter
    <3>4. QED
      BY <1>1, <2>1, <3>2, <3>3 DEF DrainsGoOn
  <2>3. CASE /\ retirement # Nobody /\ Goes(c, "drain") /\ on' = [on EXCEPT ![c] = retirement]
    <3>1. /\ on'[c] = retirement
          /\ \A d \in Calls \ {c} : on'[d] = on[d] /\ call'[d] = call[d]
      BY <1>1, <2>3 DEF Goes
    <3>2. QED
      BY <1>1, <2>1, <2>3, <3>1 DEF DrainsGoOn, RetirementGoesOn
  <2>4. QED
    BY <1>1, <2>2, <2>3 DEF Call
<1>7. \A d \in Calls : call'[d] = "join" => QueuedNext("load", on'[d])
  <2>1. CASE Enter(c)
    <3>1. PICK p \in {"done", "rejected", "join", "check", "await"} : Goes(c, p)
      BY <2>1 DEF Enter, OnLive
    <3>2. \A d \in Calls \ {c} : call'[d] = call[d] /\ on'[d] = on[d]
      BY <1>1, <2>1, <3>1 DEF Enter, Goes
    <3>3. call'[c] = "join" =>
             \/ entry' # entry /\ on'[c] = c
             \/ entry # NoEntry /\ entry.phase = "loading" /\ on'[c] = entry.by
      <4>1. CASE holder # Nobody
        BY <1>1, <2>1, <4>1 DEF Enter, Goes, OnLive
      <4>2. CASE holder = Nobody /\ entry = NoEntry
        BY <1>1, <2>1, <4>2 DEF Enter, NoEntry
      <4>3. CASE holder = Nobody /\ entry # NoEntry /\ entry.phase = "loading"
        BY <1>1, <2>1, <4>3 DEF Enter
      <4>4. CASE holder = Nobody /\ entry # NoEntry /\ entry.phase # "loading"
        BY <1>1, <2>1, <4>4 DEF Enter, Goes
      <4>5. QED
        BY <4>1, <4>2, <4>3, <4>4
    <3>4. QED
      BY <1>1, <1>2, <3>2, <3>3 DEF JoinsAreLoaded, LoadsAreQueued
  <2>2. CASE Goes(c, "drain") /\ on' = [on EXCEPT ![c] = retirement]
    BY <1>1, <1>2, <2>2 DEF Goes, JoinsAreLoaded
  <2>3. QED
    BY <1>1, <2>1, <2>2 DEF Call
<1>8. \A d \in Calls : call'[d] = "queued" =>
         QueuedNext("commit", d) \/ QueuedNext("current", d) \/ QueuedNext("append", d)
  BY <1>1, <1>2 DEF Call, Enter, Goes, OnLive, callVars, lifeVars, QueuedAreInChain
<1>9. \A t \in Lifecycles : retiring'[t] = "queued" => QueuedNext("retire", t)
  BY <1>1, <1>2 DEF Call, Enter, Goes, OnLive, callVars, lifeVars, RetirementsAreInChain
<1>10. QED
  BY <1>3, <1>4, <1>5, <1>6, <1>7, <1>8, <1>9, WaitingNext

\* A load ends: those that joined it go on.
LEMMA LoadKeepsWaiting ==
    ASSUME Inv, Waiting, NEW c \in Calls, Load(c)
    PROVE  Waiting'
<1> USE CoordinatorAssumption
<1>1. /\ TypeOK /\ LoadsAreQueued /\ AwaitsAreOfRead /\ RetirementGoesOn /\ JoinsAreLoaded
      /\ DrainsGoOn /\ QueuedAreInChain /\ RetirementsAreInChain
      /\ call \in [Calls -> Places]
      /\ retiring \in [Lifecycles -> {"no", "flushing", "queued", "done", "failed"}]
      /\ retirement \in Lifecycles \cup {Nobody}
      /\ on \in [Calls -> Lifecycles \cup Calls \cup {Nobody}]
  BY DEF Inv, Waiting, TypeOK
<1>2. \A o, f : Queued(o, f) /\ (o # "load" \/ f # c) => QueuedNext(o, f)
  BY <1>1, EndsKeepsPlaces DEF Load, AtHead, Running
<1>3. entry' # NoEntry /\ entry'.phase = "loading" => QueuedNext("load", entry'.by)
  BY <1>1, <1>2 DEF Load, Loads, Joined, callVars, lifeVars, LoadsAreQueued
<1>4. AwaitsAreOfRead'
  <2>1. CASE Loads(c)
    BY <1>1, <2>1 DEF Load, AwaitsAreOfRead, NoEntry
  <2>2. CASE ~Loads(c)
    BY <1>1, <2>2 DEF Load, AwaitsAreOfRead
  <2>3. QED
    BY <2>1, <2>2
<1>5. RetirementGoesOn'
  BY <1>1, <1>2 DEF Load, Loads, Joined, callVars, lifeVars, RetirementGoesOn
<1>6. DrainsGoOn'
  BY <1>1, <1>2 DEF Load, Loads, Joined, callVars, lifeVars, DrainsGoOn
<1>7. \A d \in Calls : call'[d] = "join" => QueuedNext("load", on'[d])
  BY <1>1, <1>2 DEF Load, Loads, Joined, callVars, lifeVars, JoinsAreLoaded
<1>8. \A d \in Calls : call'[d] = "queued" =>
         QueuedNext("commit", d) \/ QueuedNext("current", d) \/ QueuedNext("append", d)
  BY <1>1, <1>2 DEF Load, Loads, Joined, callVars, lifeVars, QueuedAreInChain
<1>9. \A t \in Lifecycles : retiring'[t] = "queued" => QueuedNext("retire", t)
  BY <1>1, <1>2 DEF Load, Loads, Joined, callVars, lifeVars, RetirementsAreInChain
<1>10. QED
  BY <1>3, <1>4, <1>5, <1>6, <1>7, <1>8, <1>9, WaitingNext

\* A load fails, and those that joined it.
LEMMA LoadFailsKeepsWaiting ==
    ASSUME Inv, Waiting, NEW c \in Calls, LoadFails(c)
    PROVE  Waiting'
<1> USE CoordinatorAssumption
<1>1. /\ TypeOK /\ LoadsAreQueued /\ AwaitsAreOfRead /\ RetirementGoesOn /\ JoinsAreLoaded
      /\ DrainsGoOn /\ QueuedAreInChain /\ RetirementsAreInChain
      /\ call \in [Calls -> Places]
      /\ retiring \in [Lifecycles -> {"no", "flushing", "queued", "done", "failed"}]
      /\ retirement \in Lifecycles \cup {Nobody}
      /\ on \in [Calls -> Lifecycles \cup Calls \cup {Nobody}]
  BY DEF Inv, Waiting, TypeOK
<1>2. \A o, f : Queued(o, f) /\ (o # "load" \/ f # c) => QueuedNext(o, f)
  BY <1>1, EndsKeepsPlaces DEF LoadFails, AtHead, Running
<1>3. entry' # NoEntry /\ entry'.phase = "loading" => QueuedNext("load", entry'.by)
  BY <1>1, <1>2 DEF LoadFails, Loads, Joined, callVars, lifeVars, LoadsAreQueued
<1>4. AwaitsAreOfRead'
  BY <1>1, <1>2 DEF LoadFails, Loads, Joined, callVars, lifeVars, AwaitsAreOfRead
<1>5. RetirementGoesOn'
  BY <1>1, <1>2 DEF LoadFails, Loads, Joined, callVars, lifeVars, RetirementGoesOn
<1>6. DrainsGoOn'
  BY <1>1, <1>2 DEF LoadFails, Loads, Joined, callVars, lifeVars, DrainsGoOn
<1>7. \A d \in Calls : call'[d] = "join" => QueuedNext("load", on'[d])
  BY <1>1, <1>2 DEF LoadFails, Loads, Joined, callVars, lifeVars, JoinsAreLoaded
<1>8. \A d \in Calls : call'[d] = "queued" =>
         QueuedNext("commit", d) \/ QueuedNext("current", d) \/ QueuedNext("append", d)
  BY <1>1, <1>2 DEF LoadFails, Loads, Joined, callVars, lifeVars, QueuedAreInChain
<1>9. \A t \in Lifecycles : retiring'[t] = "queued" => QueuedNext("retire", t)
  BY <1>1, <1>2 DEF LoadFails, Loads, Joined, callVars, lifeVars, RetirementsAreInChain
<1>10. QED
  BY <1>3, <1>4, <1>5, <1>6, <1>7, <1>8, <1>9, WaitingNext

\* A preparation that is ready is taken by one of those that wait for it.
LEMMA TakeReadyKeepsWaiting ==
    ASSUME Inv, Waiting, NEW c \in Calls, TakeReady(c)
    PROVE  Waiting'
<1> USE CoordinatorAssumption
<1>1. /\ TypeOK /\ LoadsAreQueued /\ AwaitsAreOfRead /\ RetirementGoesOn /\ JoinsAreLoaded
      /\ DrainsGoOn /\ QueuedAreInChain /\ RetirementsAreInChain
      /\ call \in [Calls -> Places]
      /\ retiring \in [Lifecycles -> {"no", "flushing", "queued", "done", "failed"}]
      /\ retirement \in Lifecycles \cup {Nobody}
      /\ on \in [Calls -> Lifecycles \cup Calls \cup {Nobody}]
  BY DEF Inv, Waiting, TypeOK
<1>2. QueuedNext("commit", c) /\ \A o, f : Queued(o, f) => QueuedNext(o, f)
  BY <1>1, EnqueueKeepsPlaces DEF TakeReady
<1>3. entry' # NoEntry /\ entry'.phase = "loading" => QueuedNext("load", entry'.by)
  BY <1>1, <1>2 DEF TakeReady, Goes, callVars, lifeVars, LoadsAreQueued
<1>4. AwaitsAreOfRead'
  <2>1. entry \in [phase : {"loading", "ready", "committing", "reserved"}, by : Calls,
                   source : Sources]
    BY <1>1 DEF TakeReady, TypeOK, Entries, NoEntry
  <2>2. entry'.phase = "committing" /\ entry' # NoEntry
    BY <1>1, <2>1 DEF TakeReady, NoEntry
  <2>3. QED
    BY <2>2 DEF AwaitsAreOfRead
<1>5. RetirementGoesOn'
  BY <1>1, <1>2 DEF TakeReady, Goes, callVars, lifeVars, RetirementGoesOn
<1>6. DrainsGoOn'
  BY <1>1, <1>2 DEF TakeReady, Goes, callVars, lifeVars, DrainsGoOn
<1>7. \A d \in Calls : call'[d] = "join" => QueuedNext("load", on'[d])
  BY <1>1, <1>2 DEF TakeReady, Goes, callVars, lifeVars, JoinsAreLoaded
<1>8. \A d \in Calls : call'[d] = "queued" =>
         QueuedNext("commit", d) \/ QueuedNext("current", d) \/ QueuedNext("append", d)
  BY <1>1, <1>2 DEF TakeReady, Goes, callVars, lifeVars, QueuedAreInChain
<1>9. \A t \in Lifecycles : retiring'[t] = "queued" => QueuedNext("retire", t)
  BY <1>1, <1>2 DEF TakeReady, Goes, callVars, lifeVars, RetirementsAreInChain
<1>10. QED
  BY <1>3, <1>4, <1>5, <1>6, <1>7, <1>8, <1>9, WaitingNext

\* A commit begins.
LEMMA CommitBeginsKeepsWaiting ==
    ASSUME Inv, Waiting, NEW c \in Calls, CommitBegins(c)
    PROVE  Waiting'
<1> USE CoordinatorAssumption
<1>1. /\ TypeOK /\ LoadsAreQueued /\ AwaitsAreOfRead /\ RetirementGoesOn /\ JoinsAreLoaded
      /\ DrainsGoOn /\ QueuedAreInChain /\ RetirementsAreInChain
      /\ call \in [Calls -> Places]
      /\ retiring \in [Lifecycles -> {"no", "flushing", "queued", "done", "failed"}]
      /\ retirement \in Lifecycles \cup {Nobody}
      /\ on \in [Calls -> Lifecycles \cup Calls \cup {Nobody}]
  BY DEF Inv, Waiting, TypeOK
<1>2. \A o, f : Queued(o, f) => QueuedNext(o, f)
  BY UnchangedKeepsPlaces DEF CommitBegins, Begins
<1>3. entry' # NoEntry /\ entry'.phase = "loading" => QueuedNext("load", entry'.by)
  BY <1>1, <1>2 DEF CommitBegins, Begins, callVars, lifeVars, LoadsAreQueued
<1>4. AwaitsAreOfRead'
  BY <1>1, <1>2 DEF CommitBegins, Begins, callVars, lifeVars, AwaitsAreOfRead
<1>5. RetirementGoesOn'
  BY <1>1, <1>2 DEF CommitBegins, Begins, callVars, lifeVars, RetirementGoesOn
<1>6. DrainsGoOn'
  BY <1>1, <1>2 DEF CommitBegins, Begins, callVars, lifeVars, DrainsGoOn
<1>7. \A d \in Calls : call'[d] = "join" => QueuedNext("load", on'[d])
  BY <1>1, <1>2 DEF CommitBegins, Begins, callVars, lifeVars, JoinsAreLoaded
<1>8. \A d \in Calls : call'[d] = "queued" =>
         QueuedNext("commit", d) \/ QueuedNext("current", d) \/ QueuedNext("append", d)
  BY <1>1, <1>2 DEF CommitBegins, Begins, callVars, lifeVars, QueuedAreInChain
<1>9. \A t \in Lifecycles : retiring'[t] = "queued" => QueuedNext("retire", t)
  BY <1>1, <1>2 DEF CommitBegins, Begins, callVars, lifeVars, RetirementsAreInChain
<1>10. QED
  BY <1>3, <1>4, <1>5, <1>6, <1>7, <1>8, <1>9, WaitingNext

\* A commit gives no state, and its call tries again.
LEMMA CommitStaleKeepsWaiting ==
    ASSUME Inv, Waiting, NEW c \in Calls, CommitStale(c)
    PROVE  Waiting'
<1> USE CoordinatorAssumption
<1>1. /\ TypeOK /\ LoadsAreQueued /\ AwaitsAreOfRead /\ RetirementGoesOn /\ JoinsAreLoaded
      /\ DrainsGoOn /\ QueuedAreInChain /\ RetirementsAreInChain
      /\ call \in [Calls -> Places]
      /\ retiring \in [Lifecycles -> {"no", "flushing", "queued", "done", "failed"}]
      /\ retirement \in Lifecycles \cup {Nobody}
      /\ on \in [Calls -> Lifecycles \cup Calls \cup {Nobody}]
  BY DEF Inv, Waiting, TypeOK
<1>2. \A o, f : Queued(o, f) /\ (o # "commit" \/ f # c) => QueuedNext(o, f)
  BY <1>1, EndsKeepsPlaces DEF CommitStale, AtHead, Running
<1>3. entry' # NoEntry /\ entry'.phase = "loading" => QueuedNext("load", entry'.by)
  BY <1>1, <1>2 DEF CommitStale, GivesUp, Goes, Removes, Retry, callVars, lifeVars,
     LoadsAreQueued
<1>4. AwaitsAreOfRead'
  BY <1>1, <1>2 DEF CommitStale, GivesUp, Goes, Removes, Retry, callVars, lifeVars,
     AwaitsAreOfRead
<1>5. RetirementGoesOn'
  BY <1>1, <1>2 DEF CommitStale, GivesUp, Goes, Removes, Retry, callVars, lifeVars,
     RetirementGoesOn
<1>6. DrainsGoOn'
  BY <1>1, <1>2 DEF CommitStale, GivesUp, Goes, Removes, Retry, callVars, lifeVars, DrainsGoOn
<1>7. \A d \in Calls : call'[d] = "join" => QueuedNext("load", on'[d])
  BY <1>1, <1>2 DEF CommitStale, GivesUp, Goes, Removes, Retry, callVars, lifeVars,
     JoinsAreLoaded
<1>8. \A d \in Calls : call'[d] = "queued" =>
         QueuedNext("commit", d) \/ QueuedNext("current", d) \/ QueuedNext("append", d)
  BY <1>1, <1>2 DEF CommitStale, GivesUp, Goes, Removes, Retry, callVars, lifeVars,
     QueuedAreInChain
<1>9. \A t \in Lifecycles : retiring'[t] = "queued" => QueuedNext("retire", t)
  BY <1>1, <1>2 DEF CommitStale, GivesUp, Goes, Removes, Retry, callVars, lifeVars,
     RetirementsAreInChain
<1>10. QED
  BY <1>3, <1>4, <1>5, <1>6, <1>7, <1>8, <1>9, WaitingNext

\* A commit fails.
LEMMA CommitFailsKeepsWaiting ==
    ASSUME Inv, Waiting, NEW c \in Calls, CommitFails(c)
    PROVE  Waiting'
<1> USE CoordinatorAssumption
<1>1. /\ TypeOK /\ LoadsAreQueued /\ AwaitsAreOfRead /\ RetirementGoesOn /\ JoinsAreLoaded
      /\ DrainsGoOn /\ QueuedAreInChain /\ RetirementsAreInChain
      /\ call \in [Calls -> Places]
      /\ retiring \in [Lifecycles -> {"no", "flushing", "queued", "done", "failed"}]
      /\ retirement \in Lifecycles \cup {Nobody}
      /\ on \in [Calls -> Lifecycles \cup Calls \cup {Nobody}]
  BY DEF Inv, Waiting, TypeOK
<1>2. \A o, f : Queued(o, f) /\ (o # "commit" \/ f # c) => QueuedNext(o, f)
  BY <1>1, EndsKeepsPlaces DEF CommitFails, AtHead, Running
<1>3. entry' # NoEntry /\ entry'.phase = "loading" => QueuedNext("load", entry'.by)
  BY <1>1, <1>2 DEF CommitFails, GivesUp, Goes, Removes, callVars, lifeVars, LoadsAreQueued
<1>4. AwaitsAreOfRead'
  BY <1>1, <1>2 DEF CommitFails, GivesUp, Goes, Removes, callVars, lifeVars, AwaitsAreOfRead
<1>5. RetirementGoesOn'
  BY <1>1, <1>2 DEF CommitFails, GivesUp, Goes, Removes, callVars, lifeVars, RetirementGoesOn
<1>6. DrainsGoOn'
  BY <1>1, <1>2 DEF CommitFails, GivesUp, Goes, Removes, callVars, lifeVars, DrainsGoOn
<1>7. \A d \in Calls : call'[d] = "join" => QueuedNext("load", on'[d])
  BY <1>1, <1>2 DEF CommitFails, GivesUp, Goes, Removes, callVars, lifeVars, JoinsAreLoaded
<1>8. \A d \in Calls : call'[d] = "queued" =>
         QueuedNext("commit", d) \/ QueuedNext("current", d) \/ QueuedNext("append", d)
  BY <1>1, <1>2 DEF CommitFails, GivesUp, Goes, Removes, callVars, lifeVars, QueuedAreInChain
<1>9. \A t \in Lifecycles : retiring'[t] = "queued" => QueuedNext("retire", t)
  BY <1>1, <1>2 DEF CommitFails, GivesUp, Goes, Removes, callVars, lifeVars,
     RetirementsAreInChain
<1>10. QED
  BY <1>3, <1>4, <1>5, <1>6, <1>7, <1>8, <1>9, WaitingNext

\* A commit succeeds: its call has the reservation, or gives it to the next.
LEMMA CommitKeepsWaiting ==
    ASSUME Inv, Waiting, NEW c \in Calls, Commit(c)
    PROVE  Waiting'
<1> USE CoordinatorAssumption
<1>1. /\ TypeOK /\ LoadsAreQueued /\ AwaitsAreOfRead /\ RetirementGoesOn /\ JoinsAreLoaded
      /\ DrainsGoOn /\ QueuedAreInChain /\ RetirementsAreInChain
      /\ call \in [Calls -> Places]
      /\ retiring \in [Lifecycles -> {"no", "flushing", "queued", "done", "failed"}]
      /\ retirement \in Lifecycles \cup {Nobody}
      /\ on \in [Calls -> Lifecycles \cup Calls \cup {Nobody}]
  BY DEF Inv, Waiting, TypeOK
<1>2. \A o, f : Queued(o, f) /\ (o # "commit" \/ f # c) => QueuedNext(o, f)
  BY <1>1, EndsKeepsPlaces DEF Commit, AtHead, Running
<1>3. entry' # NoEntry /\ entry'.phase = "loading" => QueuedNext("load", entry'.by)
  <2>1. \E p \in {"rejected", "again", "done", "reserved"} :
           \/ Removes(c, p)
           \/ Goes(c, p) /\ UNCHANGED entry
           \/ /\ entry # NoEntry /\ entry.phase # "loading" /\ Goes(c, p)
              /\ \E f \in {"ready", "reserved"} : entry' = [entry EXCEPT !.phase = f]
    BY <1>1 DEF Commit, Mine, OnLive
  <2>2. QED
    BY <1>1, <1>2, <2>1, OwnEntryKeepsWaiting DEF LoadsAreQueued
<1>4. AwaitsAreOfRead'
  <2>1. \E p \in {"rejected", "again", "done", "reserved"} :
           \/ Removes(c, p)
           \/ Goes(c, p) /\ UNCHANGED entry
           \/ /\ entry # NoEntry /\ entry.phase # "loading" /\ Goes(c, p)
              /\ \E f \in {"ready", "reserved"} : entry' = [entry EXCEPT !.phase = f]
    BY <1>1 DEF Commit, Mine, OnLive
  <2>2. QED
    BY <1>1, <1>2, <2>1, OwnEntryKeepsWaiting
<1>5. RetirementGoesOn'
  BY <1>1, <1>2 DEF Commit, Goes, Removes, OnLive, callVars, lifeVars, RetirementGoesOn
<1>6. DrainsGoOn'
  BY <1>1, <1>2 DEF Commit, Goes, Removes, OnLive, callVars, lifeVars, DrainsGoOn
<1>7. \A d \in Calls : call'[d] = "join" => QueuedNext("load", on'[d])
  BY <1>1, <1>2 DEF Commit, Goes, Removes, OnLive, callVars, lifeVars, JoinsAreLoaded
<1>8. \A d \in Calls : call'[d] = "queued" =>
         QueuedNext("commit", d) \/ QueuedNext("current", d) \/ QueuedNext("append", d)
  BY <1>1, <1>2 DEF Commit, Goes, Removes, OnLive, callVars, lifeVars, QueuedAreInChain
<1>9. \A t \in Lifecycles : retiring'[t] = "queued" => QueuedNext("retire", t)
  BY <1>1, <1>2 DEF Commit, Goes, Removes, OnLive, callVars, lifeVars, RetirementsAreInChain
<1>10. QED
  BY <1>3, <1>4, <1>5, <1>6, <1>7, <1>8, <1>9, WaitingNext

\* A reservation is given back to those that wait for it.
LEMMA ReleaseKeepsWaiting ==
    ASSUME Inv, Waiting, NEW c \in Calls, Release(c)
    PROVE  Waiting'
<1> USE CoordinatorAssumption
<1>1. /\ TypeOK /\ LoadsAreQueued /\ AwaitsAreOfRead /\ RetirementGoesOn /\ JoinsAreLoaded
      /\ DrainsGoOn /\ QueuedAreInChain /\ RetirementsAreInChain
      /\ call \in [Calls -> Places]
      /\ retiring \in [Lifecycles -> {"no", "flushing", "queued", "done", "failed"}]
      /\ retirement \in Lifecycles \cup {Nobody}
      /\ on \in [Calls -> Lifecycles \cup Calls \cup {Nobody}]
  BY DEF Inv, Waiting, TypeOK
<1>2. \A o, f : Queued(o, f) => QueuedNext(o, f)
  BY UnchangedKeepsPlaces DEF Release, Goes, Removes
<1>3. entry' # NoEntry /\ entry'.phase = "loading" => QueuedNext("load", entry'.by)
  <2>1. \E p \in {"rejected", "again", "done", "reserved"} :
           \/ Removes(c, p)
           \/ Goes(c, p) /\ UNCHANGED entry
           \/ /\ entry # NoEntry /\ entry.phase # "loading" /\ Goes(c, p)
              /\ \E f \in {"ready", "reserved"} : entry' = [entry EXCEPT !.phase = f]
    BY <1>1 DEF Release, Inv, ReservedAlone
  <2>2. QED
    BY <1>1, <1>2, <2>1, OwnEntryKeepsWaiting DEF LoadsAreQueued
<1>4. AwaitsAreOfRead'
  <2>1. \E p \in {"rejected", "again", "done", "reserved"} :
           \/ Removes(c, p)
           \/ Goes(c, p) /\ UNCHANGED entry
           \/ /\ entry # NoEntry /\ entry.phase # "loading" /\ Goes(c, p)
              /\ \E f \in {"ready", "reserved"} : entry' = [entry EXCEPT !.phase = f]
    BY <1>1 DEF Release, Inv, ReservedAlone
  <2>2. QED
    BY <1>1, <1>2, <2>1, OwnEntryKeepsWaiting
<1>5. RetirementGoesOn'
  BY <1>1, <1>2 DEF Release, Goes, Removes, callVars, lifeVars, RetirementGoesOn
<1>6. DrainsGoOn'
  BY <1>1, <1>2 DEF Release, Goes, Removes, callVars, lifeVars, DrainsGoOn
<1>7. \A d \in Calls : call'[d] = "join" => QueuedNext("load", on'[d])
  BY <1>1, <1>2 DEF Release, Goes, Removes, callVars, lifeVars, JoinsAreLoaded
<1>8. \A d \in Calls : call'[d] = "queued" =>
         QueuedNext("commit", d) \/ QueuedNext("current", d) \/ QueuedNext("append", d)
  BY <1>1, <1>2 DEF Release, Goes, Removes, callVars, lifeVars, QueuedAreInChain
<1>9. \A t \in Lifecycles : retiring'[t] = "queued" => QueuedNext("retire", t)
  BY <1>1, <1>2 DEF Release, Goes, Removes, callVars, lifeVars, RetirementsAreInChain
<1>10. QED
  BY <1>3, <1>4, <1>5, <1>6, <1>7, <1>8, <1>9, WaitingNext

\* An inspection is queued.
LEMMA CheckKeepsWaiting ==
    ASSUME Inv, Waiting, NEW c \in Calls, Check(c)
    PROVE  Waiting'
<1> USE CoordinatorAssumption
<1>1. /\ TypeOK /\ LoadsAreQueued /\ AwaitsAreOfRead /\ RetirementGoesOn /\ JoinsAreLoaded
      /\ DrainsGoOn /\ QueuedAreInChain /\ RetirementsAreInChain
      /\ call \in [Calls -> Places]
      /\ retiring \in [Lifecycles -> {"no", "flushing", "queued", "done", "failed"}]
      /\ retirement \in Lifecycles \cup {Nobody}
      /\ on \in [Calls -> Lifecycles \cup Calls \cup {Nobody}]
  BY DEF Inv, Waiting, TypeOK
<1>2. /\ \A o, f : Queued(o, f) => QueuedNext(o, f)
      /\ call'[c] = "queued" => QueuedNext("current", c)
  BY <1>1, EnqueueKeepsPlaces, UnchangedKeepsPlaces DEF Check, Goes
<1>3. entry' # NoEntry /\ entry'.phase = "loading" => QueuedNext("load", entry'.by)
  BY <1>1, <1>2 DEF Check, Goes, callVars, lifeVars, LoadsAreQueued
<1>4. AwaitsAreOfRead'
  BY <1>1, <1>2 DEF Check, Goes, callVars, lifeVars, AwaitsAreOfRead
<1>5. RetirementGoesOn'
  BY <1>1, <1>2 DEF Check, Goes, callVars, lifeVars, RetirementGoesOn
<1>6. DrainsGoOn'
  BY <1>1, <1>2 DEF Check, Goes, callVars, lifeVars, DrainsGoOn
<1>7. \A d \in Calls : call'[d] = "join" => QueuedNext("load", on'[d])
  BY <1>1, <1>2 DEF Check, Goes, callVars, lifeVars, JoinsAreLoaded
<1>8. \A d \in Calls : call'[d] = "queued" =>
         QueuedNext("commit", d) \/ QueuedNext("current", d) \/ QueuedNext("append", d)
  BY <1>1, <1>2 DEF Check, Goes, callVars, lifeVars, QueuedAreInChain
<1>9. \A t \in Lifecycles : retiring'[t] = "queued" => QueuedNext("retire", t)
  BY <1>1, <1>2 DEF Check, Goes, callVars, lifeVars, RetirementsAreInChain
<1>10. QED
  BY <1>3, <1>4, <1>5, <1>6, <1>7, <1>8, <1>9, WaitingNext

\* An inspection is answered.
LEMMA CurrentKeepsWaiting ==
    ASSUME Inv, Waiting, NEW c \in Calls, Current(c)
    PROVE  Waiting'
<1> USE CoordinatorAssumption
<1>1. /\ TypeOK /\ LoadsAreQueued /\ AwaitsAreOfRead /\ RetirementGoesOn /\ JoinsAreLoaded
      /\ DrainsGoOn /\ QueuedAreInChain /\ RetirementsAreInChain
      /\ call \in [Calls -> Places]
      /\ retiring \in [Lifecycles -> {"no", "flushing", "queued", "done", "failed"}]
      /\ retirement \in Lifecycles \cup {Nobody}
      /\ on \in [Calls -> Lifecycles \cup Calls \cup {Nobody}]
  BY DEF Inv, Waiting, TypeOK
<1>2. \A o, f : Queued(o, f) /\ (o # "current" \/ f # c) => QueuedNext(o, f)
  BY <1>1, EndsKeepsPlaces DEF Current, AtHead, Running
<1>3. entry' # NoEntry /\ entry'.phase = "loading" => QueuedNext("load", entry'.by)
  BY <1>1, <1>2 DEF Current, Goes, Removes, callVars, lifeVars, LoadsAreQueued
<1>4. AwaitsAreOfRead'
  BY <1>1, <1>2 DEF Current, Goes, Removes, callVars, lifeVars, AwaitsAreOfRead
<1>5. RetirementGoesOn'
  BY <1>1, <1>2 DEF Current, Goes, Removes, callVars, lifeVars, RetirementGoesOn
<1>6. DrainsGoOn'
  BY <1>1, <1>2 DEF Current, Goes, Removes, callVars, lifeVars, DrainsGoOn
<1>7. \A d \in Calls : call'[d] = "join" => QueuedNext("load", on'[d])
  BY <1>1, <1>2 DEF Current, Goes, Removes, callVars, lifeVars, JoinsAreLoaded
<1>8. \A d \in Calls : call'[d] = "queued" =>
         QueuedNext("commit", d) \/ QueuedNext("current", d) \/ QueuedNext("append", d)
  BY <1>1, <1>2 DEF Current, Goes, Removes, callVars, lifeVars, QueuedAreInChain
<1>9. \A t \in Lifecycles : retiring'[t] = "queued" => QueuedNext("retire", t)
  BY <1>1, <1>2 DEF Current, Goes, Removes, callVars, lifeVars, RetirementsAreInChain
<1>10. QED
  BY <1>3, <1>4, <1>5, <1>6, <1>7, <1>8, <1>9, WaitingNext

\* An operation whose call has gone.
LEMMA DroppedKeepsWaiting ==
    ASSUME Inv, Waiting, NEW c \in Calls, Dropped(c)
    PROVE  Waiting'
<1> USE CoordinatorAssumption
<1>1. /\ TypeOK /\ LoadsAreQueued /\ AwaitsAreOfRead /\ RetirementGoesOn /\ JoinsAreLoaded
      /\ DrainsGoOn /\ QueuedAreInChain /\ RetirementsAreInChain
      /\ call \in [Calls -> Places]
      /\ retiring \in [Lifecycles -> {"no", "flushing", "queued", "done", "failed"}]
      /\ retirement \in Lifecycles \cup {Nobody}
      /\ on \in [Calls -> Lifecycles \cup Calls \cup {Nobody}]
  BY DEF Inv, Waiting, TypeOK
<1>2. call[c] # "queued"
      /\ \A o, f : Queued(o, f) /\ (o \notin {"commit", "current"} \/ f # c) => QueuedNext(o, f)
  BY <1>1, EndsKeepsPlaces DEF Dropped, AtHead
<1>3. entry' # NoEntry /\ entry'.phase = "loading" => QueuedNext("load", entry'.by)
  BY <1>1, <1>2 DEF Dropped, callVars, lifeVars, LoadsAreQueued
<1>4. AwaitsAreOfRead'
  BY <1>1, <1>2 DEF Dropped, callVars, lifeVars, AwaitsAreOfRead
<1>5. RetirementGoesOn'
  BY <1>1, <1>2 DEF Dropped, callVars, lifeVars, RetirementGoesOn
<1>6. DrainsGoOn'
  BY <1>1, <1>2 DEF Dropped, callVars, lifeVars, DrainsGoOn
<1>7. \A d \in Calls : call'[d] = "join" => QueuedNext("load", on'[d])
  BY <1>1, <1>2 DEF Dropped, callVars, lifeVars, JoinsAreLoaded
<1>8. \A d \in Calls : call'[d] = "queued" =>
         QueuedNext("commit", d) \/ QueuedNext("current", d) \/ QueuedNext("append", d)
  BY <1>1, <1>2 DEF Dropped, callVars, lifeVars, QueuedAreInChain
<1>9. \A t \in Lifecycles : retiring'[t] = "queued" => QueuedNext("retire", t)
  BY <1>1, <1>2 DEF Dropped, callVars, lifeVars, RetirementsAreInChain
<1>10. QED
  BY <1>3, <1>4, <1>5, <1>6, <1>7, <1>8, <1>9, WaitingNext

\* A call that is aborted gives up what it has, for those that wait.
LEMMA AbortKeepsWaiting ==
    ASSUME Inv, Waiting, NEW c \in Calls, Abort(c)
    PROVE  Waiting'
<1> USE CoordinatorAssumption
<1>1. /\ TypeOK /\ LoadsAreQueued /\ AwaitsAreOfRead /\ RetirementGoesOn /\ JoinsAreLoaded
      /\ DrainsGoOn /\ QueuedAreInChain /\ RetirementsAreInChain
      /\ call \in [Calls -> Places]
      /\ retiring \in [Lifecycles -> {"no", "flushing", "queued", "done", "failed"}]
      /\ retirement \in Lifecycles \cup {Nobody}
      /\ on \in [Calls -> Lifecycles \cup Calls \cup {Nobody}]
  BY DEF Inv, Waiting, TypeOK
<1>2. \A o, f : Queued(o, f) => QueuedNext(o, f)
  BY UnchangedKeepsPlaces DEF Abort, GivesUp, Goes, Removes
<1>3. entry' # NoEntry /\ entry'.phase = "loading" => QueuedNext("load", entry'.by)
  BY <1>1, <1>2 DEF Abort, GivesUp, Goes, Removes, callVars, lifeVars, LoadsAreQueued
<1>4. AwaitsAreOfRead'
  BY <1>1, <1>2 DEF Abort, GivesUp, Goes, Removes, callVars, lifeVars, AwaitsAreOfRead
<1>5. RetirementGoesOn'
  BY <1>1, <1>2 DEF Abort, GivesUp, Goes, Removes, callVars, lifeVars, RetirementGoesOn
<1>6. DrainsGoOn'
  BY <1>1, <1>2 DEF Abort, GivesUp, Goes, Removes, callVars, lifeVars, DrainsGoOn
<1>7. \A d \in Calls : call'[d] = "join" => QueuedNext("load", on'[d])
  BY <1>1, <1>2 DEF Abort, GivesUp, Goes, Removes, callVars, lifeVars, JoinsAreLoaded
<1>8. \A d \in Calls : call'[d] = "queued" =>
         QueuedNext("commit", d) \/ QueuedNext("current", d) \/ QueuedNext("append", d)
  BY <1>1, <1>2 DEF Abort, GivesUp, Goes, Removes, callVars, lifeVars, QueuedAreInChain
<1>9. \A t \in Lifecycles : retiring'[t] = "queued" => QueuedNext("retire", t)
  BY <1>1, <1>2 DEF Abort, GivesUp, Goes, Removes, callVars, lifeVars, RetirementsAreInChain
<1>10. QED
  BY <1>3, <1>4, <1>5, <1>6, <1>7, <1>8, <1>9, WaitingNext

\* A direct append is queued.
LEMMA AppendCallKeepsWaiting ==
    ASSUME Inv, Waiting, NEW c \in Calls, AppendCall(c)
    PROVE  Waiting'
<1> USE CoordinatorAssumption
<1>1. /\ TypeOK /\ LoadsAreQueued /\ AwaitsAreOfRead /\ RetirementGoesOn /\ JoinsAreLoaded
      /\ DrainsGoOn /\ QueuedAreInChain /\ RetirementsAreInChain
      /\ call \in [Calls -> Places]
      /\ retiring \in [Lifecycles -> {"no", "flushing", "queued", "done", "failed"}]
      /\ retirement \in Lifecycles \cup {Nobody}
      /\ on \in [Calls -> Lifecycles \cup Calls \cup {Nobody}]
  BY DEF Inv, Waiting, TypeOK
<1>2. QueuedNext("append", c) /\ \A o, f : Queued(o, f) => QueuedNext(o, f)
  BY <1>1, EnqueueKeepsPlaces DEF AppendCall
<1>3. entry' # NoEntry /\ entry'.phase = "loading" => QueuedNext("load", entry'.by)
  BY <1>1, <1>2 DEF AppendCall, Goes, callVars, lifeVars, LoadsAreQueued
<1>4. AwaitsAreOfRead'
  BY <1>1, <1>2 DEF AppendCall, Goes, callVars, lifeVars, AwaitsAreOfRead
<1>5. RetirementGoesOn'
  BY <1>1, <1>2 DEF AppendCall, Goes, callVars, lifeVars, RetirementGoesOn
<1>6. DrainsGoOn'
  BY <1>1, <1>2 DEF AppendCall, Goes, callVars, lifeVars, DrainsGoOn
<1>7. \A d \in Calls : call'[d] = "join" => QueuedNext("load", on'[d])
  BY <1>1, <1>2 DEF AppendCall, Goes, callVars, lifeVars, JoinsAreLoaded
<1>8. \A d \in Calls : call'[d] = "queued" =>
         QueuedNext("commit", d) \/ QueuedNext("current", d) \/ QueuedNext("append", d)
  BY <1>1, <1>2 DEF AppendCall, Goes, callVars, lifeVars, QueuedAreInChain
<1>9. \A t \in Lifecycles : retiring'[t] = "queued" => QueuedNext("retire", t)
  BY <1>1, <1>2 DEF AppendCall, Goes, callVars, lifeVars, RetirementsAreInChain
<1>10. QED
  BY <1>3, <1>4, <1>5, <1>6, <1>7, <1>8, <1>9, WaitingNext

\* A direct append begins, and takes what was prepared.
LEMMA AppendBeginsKeepsWaiting ==
    ASSUME Inv, Waiting, NEW c \in Calls, AppendBegins(c)
    PROVE  Waiting'
<1> USE CoordinatorAssumption
<1>1. /\ TypeOK /\ LoadsAreQueued /\ AwaitsAreOfRead /\ RetirementGoesOn /\ JoinsAreLoaded
      /\ DrainsGoOn /\ QueuedAreInChain /\ RetirementsAreInChain
      /\ call \in [Calls -> Places]
      /\ retiring \in [Lifecycles -> {"no", "flushing", "queued", "done", "failed"}]
      /\ retirement \in Lifecycles \cup {Nobody}
      /\ on \in [Calls -> Lifecycles \cup Calls \cup {Nobody}]
  BY DEF Inv, Waiting, TypeOK
<1>2. /\ \A o, f : Queued(o, f) /\ (o # "append" \/ f # c) => QueuedNext(o, f)
      /\ call'[c] = "queued" => QueuedNext("append", c)
  BY <1>1, EndsKeepsPlaces, UnchangedKeepsPlaces, FrontIsQueued DEF AppendBegins, AtHead,
     Begins, Goes, Removes
<1>3. entry' # NoEntry /\ entry'.phase = "loading" => QueuedNext("load", entry'.by)
  BY <1>1, <1>2 DEF AppendBegins, Goes, Removes, callVars, lifeVars, LoadsAreQueued
<1>4. AwaitsAreOfRead'
  BY <1>1, <1>2 DEF AppendBegins, Goes, Removes, callVars, lifeVars, AwaitsAreOfRead
<1>5. RetirementGoesOn'
  BY <1>1, <1>2 DEF AppendBegins, Goes, Removes, callVars, lifeVars, RetirementGoesOn
<1>6. DrainsGoOn'
  BY <1>1, <1>2 DEF AppendBegins, Goes, Removes, callVars, lifeVars, DrainsGoOn
<1>7. \A d \in Calls : call'[d] = "join" => QueuedNext("load", on'[d])
  BY <1>1, <1>2 DEF AppendBegins, Goes, Removes, callVars, lifeVars, JoinsAreLoaded
<1>8. \A d \in Calls : call'[d] = "queued" =>
         QueuedNext("commit", d) \/ QueuedNext("current", d) \/ QueuedNext("append", d)
  BY <1>1, <1>2 DEF AppendBegins, Goes, Removes, callVars, lifeVars, QueuedAreInChain
<1>9. \A t \in Lifecycles : retiring'[t] = "queued" => QueuedNext("retire", t)
  BY <1>1, <1>2 DEF AppendBegins, Goes, Removes, callVars, lifeVars, RetirementsAreInChain
<1>10. QED
  BY <1>3, <1>4, <1>5, <1>6, <1>7, <1>8, <1>9, WaitingNext

\* A direct append ends.
LEMMA AppendLandsKeepsWaiting ==
    ASSUME Inv, Waiting, NEW c \in Calls, AppendLands(c)
    PROVE  Waiting'
<1> USE CoordinatorAssumption
<1>1. /\ TypeOK /\ LoadsAreQueued /\ AwaitsAreOfRead /\ RetirementGoesOn /\ JoinsAreLoaded
      /\ DrainsGoOn /\ QueuedAreInChain /\ RetirementsAreInChain
      /\ call \in [Calls -> Places]
      /\ retiring \in [Lifecycles -> {"no", "flushing", "queued", "done", "failed"}]
      /\ retirement \in Lifecycles \cup {Nobody}
      /\ on \in [Calls -> Lifecycles \cup Calls \cup {Nobody}]
  BY DEF Inv, Waiting, TypeOK
<1>2. \A o, f : Queued(o, f) /\ (o # "append" \/ f # c) => QueuedNext(o, f)
  BY <1>1, EndsKeepsPlaces DEF AppendLands, AtHead, Running
<1>3. entry' # NoEntry /\ entry'.phase = "loading" => QueuedNext("load", entry'.by)
  BY <1>1, <1>2 DEF AppendLands, Removes, callVars, lifeVars, LoadsAreQueued
<1>4. AwaitsAreOfRead'
  BY <1>1, <1>2 DEF AppendLands, Removes, callVars, lifeVars, AwaitsAreOfRead
<1>5. RetirementGoesOn'
  BY <1>1, <1>2 DEF AppendLands, Removes, callVars, lifeVars, RetirementGoesOn
<1>6. DrainsGoOn'
  BY <1>1, <1>2 DEF AppendLands, Removes, callVars, lifeVars, DrainsGoOn
<1>7. \A d \in Calls : call'[d] = "join" => QueuedNext("load", on'[d])
  BY <1>1, <1>2 DEF AppendLands, Removes, callVars, lifeVars, JoinsAreLoaded
<1>8. \A d \in Calls : call'[d] = "queued" =>
         QueuedNext("commit", d) \/ QueuedNext("current", d) \/ QueuedNext("append", d)
  BY <1>1, <1>2 DEF AppendLands, Removes, callVars, lifeVars, QueuedAreInChain
<1>9. \A t \in Lifecycles : retiring'[t] = "queued" => QueuedNext("retire", t)
  BY <1>1, <1>2 DEF AppendLands, Removes, callVars, lifeVars, RetirementsAreInChain
<1>10. QED
  BY <1>3, <1>4, <1>5, <1>6, <1>7, <1>8, <1>9, WaitingNext

\* A direct append fails.
LEMMA AppendFailsKeepsWaiting ==
    ASSUME Inv, Waiting, NEW c \in Calls, AppendFails(c)
    PROVE  Waiting'
<1> USE CoordinatorAssumption
<1>1. /\ TypeOK /\ LoadsAreQueued /\ AwaitsAreOfRead /\ RetirementGoesOn /\ JoinsAreLoaded
      /\ DrainsGoOn /\ QueuedAreInChain /\ RetirementsAreInChain
      /\ call \in [Calls -> Places]
      /\ retiring \in [Lifecycles -> {"no", "flushing", "queued", "done", "failed"}]
      /\ retirement \in Lifecycles \cup {Nobody}
      /\ on \in [Calls -> Lifecycles \cup Calls \cup {Nobody}]
  BY DEF Inv, Waiting, TypeOK
<1>2. \A o, f : Queued(o, f) /\ (o # "append" \/ f # c) => QueuedNext(o, f)
  BY <1>1, EndsKeepsPlaces DEF AppendFails, AtHead, Running
<1>3. entry' # NoEntry /\ entry'.phase = "loading" => QueuedNext("load", entry'.by)
  BY <1>1, <1>2 DEF AppendFails, Goes, callVars, lifeVars, LoadsAreQueued
<1>4. AwaitsAreOfRead'
  BY <1>1, <1>2 DEF AppendFails, Goes, callVars, lifeVars, AwaitsAreOfRead
<1>5. RetirementGoesOn'
  BY <1>1, <1>2 DEF AppendFails, Goes, callVars, lifeVars, RetirementGoesOn
<1>6. DrainsGoOn'
  BY <1>1, <1>2 DEF AppendFails, Goes, callVars, lifeVars, DrainsGoOn
<1>7. \A d \in Calls : call'[d] = "join" => QueuedNext("load", on'[d])
  BY <1>1, <1>2 DEF AppendFails, Goes, callVars, lifeVars, JoinsAreLoaded
<1>8. \A d \in Calls : call'[d] = "queued" =>
         QueuedNext("commit", d) \/ QueuedNext("current", d) \/ QueuedNext("append", d)
  BY <1>1, <1>2 DEF AppendFails, Goes, callVars, lifeVars, QueuedAreInChain
<1>9. \A t \in Lifecycles : retiring'[t] = "queued" => QueuedNext("retire", t)
  BY <1>1, <1>2 DEF AppendFails, Goes, callVars, lifeVars, RetirementsAreInChain
<1>10. QED
  BY <1>3, <1>4, <1>5, <1>6, <1>7, <1>8, <1>9, WaitingNext

\* Nobody waits at the start.
LEMMA InitImpliesWaiting == Init => Waiting
<1> SUFFICES ASSUME Init
             PROVE  Waiting
  OBVIOUS
<1>1. /\ entry = NoEntry /\ retirement = Nobody
      /\ \A c \in Calls : call[c] = "idle"
      /\ \A s \in Lifecycles : retiring[s] = "no"
  BY DEF Init
<1>2. QED
  BY <1>1 DEF Waiting, LoadsAreQueued, AwaitsAreOfRead, RetirementGoesOn, JoinsAreLoaded,
     DrainsGoOn, QueuedAreInChain, RetirementsAreInChain

\* A step that changes nothing.
LEMMA StutteringKeepsWaiting ==
    ASSUME Waiting, UNCHANGED vars
    PROVE  Waiting'
BY DEF Waiting, LoadsAreQueued, AwaitsAreOfRead, RetirementGoesOn, JoinsAreLoaded,
   DrainsGoOn, QueuedAreInChain, RetirementsAreInChain, Queued, vars, lifeVars, callVars

\* Every step keeps the waiters' invariant.
LEMMA NextKeepsWaiting == Inv /\ Waiting /\ [Next]_vars => Waiting'
<1> SUFFICES ASSUME Inv, Waiting, [Next]_vars
             PROVE  Waiting'
  OBVIOUS
<1>1. ASSUME NEW s \in Lifecycles, SessionOperation(s)
      PROVE  Waiting'
  BY <1>1, CreatedKeepsWaiting, SuffixKeepsWaiting, WriteBeginsKeepsWaiting,
     WriteLandsKeepsWaiting, WriteFailsKeepsWaiting, RetireKeepsWaiting DEF SessionOperation
<1>2. ASSUME NEW c \in Calls, CallOperation(c)
      PROVE  Waiting'
  BY <1>2, LoadKeepsWaiting, LoadFailsKeepsWaiting, CommitBeginsKeepsWaiting,
     CommitStaleKeepsWaiting, CommitFailsKeepsWaiting, CommitKeepsWaiting,
     CurrentKeepsWaiting, DroppedKeepsWaiting, AppendBeginsKeepsWaiting,
     AppendLandsKeepsWaiting, AppendFailsKeepsWaiting DEF CallOperation
<1>3. ASSUME NEW s \in Lifecycles,
             CreateFresh(s) \/ Produce(s) \/ StartWrite(s) \/ Dispose(s) \/ Flushed(s)
      PROVE  Waiting'
  BY <1>3, CreateFreshKeepsWaiting, ProduceKeepsWaiting, StartWriteKeepsWaiting,
     DisposeKeepsWaiting, FlushedKeepsWaiting
<1>4. ASSUME NEW c \in Calls,
             \/ Call(c) \/ TakeReady(c) \/ Check(c) \/ AppendCall(c) \/ Abort(c) \/ Release(c)
             \/ \E s \in Lifecycles : Publish(c, s)
      PROVE  Waiting'
  BY <1>4, CallKeepsWaiting, TakeReadyKeepsWaiting, CheckKeepsWaiting,
     AppendCallKeepsWaiting, AbortKeepsWaiting, ReleaseKeepsWaiting, PublishKeepsWaiting
<1>5. CASE Reload
  BY <1>5, ReloadKeepsWaiting
<1>6. CASE UNCHANGED vars
  BY <1>6, StutteringKeepsWaiting
<1>7. QED
  BY <1>1, <1>2, <1>3, <1>4, <1>5, <1>6 DEF Next, Operation

\* Nobody waits for what will not come: whoever joined a load, awaits a preparation or a
\* retirement, or has a place in the chain, will be answered by what is under way
\* (observeQueuedAbort, makeReady, remove, retire).
THEOREM EveryWaiterIsServed == Spec => []NobodyIsForgotten
<1>1. Inv /\ Waiting => NobodyIsForgotten
  <2> SUFFICES ASSUME Inv, Waiting
               PROVE  NobodyIsForgotten
    OBVIOUS
  <2>1. ASSUME NEW c \in Calls, call[c] = "await"
        PROVE  \/ entry # NoEntry /\ entry.phase = "ready"
               \/ entry # NoEntry /\ Mine(entry.by) /\ call[entry.by] \in {"queued", "reserved"}
    <3>1. entry # NoEntry /\ entry.phase # "loading"
      BY <2>1 DEF Waiting, AwaitsAreOfRead
    <3>2. entry.by \in Calls /\ entry.phase \in {"loading", "ready", "committing", "reserved"}
      BY <3>1 DEF Inv, TypeOK, Entries
    <3>3. CASE entry.phase # "ready"
      BY <3>1, <3>2, <3>3 DEF Inv, CommitsAreAlone, Mine
    <3>4. QED
      BY <3>1, <3>3
  <2>2. QED
    BY <2>1 DEF NobodyIsForgotten, Waiting, JoinsAreLoaded, DrainsGoOn, QueuedAreInChain,
       RetirementsAreInChain
<1>2. QED
  BY <1>1, InitImpliesInv, InitImpliesWaiting, NextKeepsInv, NextKeepsWaiting, PTL DEF Spec

\* Every step of a lifecycle or a call is one of Next.
LEMMA SessionsAreNext ==
    ASSUME NEW s \in Lifecycles,
           \/ SessionOperation(s)
           \/ CreateFresh(s) \/ Produce(s) \/ StartWrite(s) \/ Dispose(s) \/ Flushed(s)
           \/ Created(s) \/ Suffix(s) \/ WriteBegins(s) \/ WriteLands(s) \/ WriteFails(s)
           \/ Retire(s)
    PROVE  Next
BY DEF Next, Operation, SessionOperation

\* Every step of a call is one of Next.
LEMMA CallsAreNext ==
    ASSUME NEW c \in Calls,
           \/ CallOperation(c)
           \/ Call(c) \/ TakeReady(c) \/ Check(c) \/ AppendCall(c) \/ Abort(c) \/ Release(c)
           \/ Load(c) \/ LoadFails(c) \/ CommitBegins(c) \/ CommitStale(c) \/ CommitFails(c)
           \/ Commit(c) \/ Current(c) \/ Dropped(c) \/ AppendBegins(c) \/ AppendLands(c)
           \/ AppendFails(c)
           \/ \E s \in Lifecycles : Publish(c, s)
    PROVE  Next
BY DEF Next, Operation, CallOperation

-----------------------------------------------------------------------------
(***************************************************************************)
(* One history is stored.                                                  *)
(***************************************************************************)

\* The log and the history of s begin with the same n events.
Agree(s, n) == /\ n <= Len(log) /\ n <= Len(events[s])
               /\ \A i \in 1 .. n : log[i] = events[s][i]

\* The log is a beginning of its owner's history, and holds what a lifecycle sent, and all
\* of what a retired one did.
OwnersAgree ==
    \A s \in Lifecycles : state.owner = s => init[s] # "none" /\ Agree(s, Len(log))
SentIsStored == \A s \in Lifecycles : init[s] = "ready" => Agree(s, sent[s])
RetireesHaveSent ==
    /\ \A i \in DOMAIN chain : chain[i].op = "retire" =>
         sent[chain[i].of] = Len(events[chain[i].of])
    /\ \A s \in Lifecycles : retiring[s] = "done" => Agree(s, Len(events[s]))

\* A direct append is not behind an initialization, and no lifecycle owns the identity then.
AppendsAreFree ==
    \A i \in DOMAIN chain : chain[i].op = "append" =>
        /\ state.owner \notin Lifecycles
        /\ \A j \in DOMAIN chain : j < i => chain[j].op \notin Initializations

\* What a history has of others came from the log, and what the log has of a lifecycle came
\* from its history; one that was not published has none.
HistoriesAreOwn ==
    \A s \in Lifecycles :
        /\ \A i \in 1 .. Len(events[s]) : events[s][i].by # s => i <= Len(log)
        /\ \A i \in 1 .. Len(log) : log[i].by = s =>
             i <= Len(events[s]) /\ events[s][i] = log[i]
        /\ holder # s /\ retiring[s] = "no" => Len(events[s]) = 0

\* Who loses the identity to others has stored nothing, and has nothing to store.
LosersHadNothing ==
    /\ state.owner # "none" /\ ~state.materialized => Len(log) = 0
    /\ \A s \in Lifecycles : init[s] = "ready" /\ state.owner # s => Len(events[s]) = 0

\* s could go on from the log without owning it: only after a reload, before anybody else
\* had a place in the chain.
Threat(s) == GoesOn(s) /\ Len(log) > 0 /\ Agree(s, Len(log)) /\ state.owner # s
Alone(s) == /\ holder = s /\ entry = NoEntry
            /\ \A t \in Lifecycles : t # s => init[t] = "none"
ThreatsAreReloads ==
    \A s \in Lifecycles : Threat(s) =>
        /\ state = NoState
        /\ \/ init[s] = "failed" /\ Alone(s) /\ chain = <<>>
           \/ /\ init[s] = "pending" /\ AtHead("created", s)
              /\ holder = s => Alone(s) /\ Len(chain) = 1

Histories == /\ OwnersAgree /\ SentIsStored /\ RetireesHaveSent /\ AppendsAreFree
             /\ HistoriesAreOwn /\ LosersHadNothing /\ ThreatsAreReloads

-----------------------------------------------------------------------------

Grows == /\ Len(log) <= Len(log')
         /\ \A i \in 1 .. Len(log) : log'[i] = log[i]

\* Lengths and cursors are numbers.
LEMMA Numbered ==
    ASSUME TypeOK
    PROVE  /\ Len(log) \in Nat
           /\ \A s \in Lifecycles : Len(events[s]) \in Nat /\ sent[s] \in Nat
                                    /\ batch[s] \in Nat
           /\ init \in [Lifecycles -> {"none", "pending", "ready", "failed"}]
           /\ events \in [Lifecycles -> Seq(Events)]
           /\ sent \in [Lifecycles -> Nat]
           /\ retiring \in [Lifecycles -> {"no", "flushing", "queued", "done", "failed"}]
BY DEF TypeOK

\* A log that grows agrees as far as it did, and no further than it did before.
LEMMA AgreeStays ==
    ASSUME TypeOK, TypeOK', NEW s \in Lifecycles, NEW n \in Nat, Agree(s, n), Grows,
           events'[s] = events[s]
    PROVE  Agree(s, n)'
<1>1. Len(log) \in Nat /\ Len(log') \in Nat /\ Len(events[s]) \in Nat
  <2>1. log \in Seq(Events) /\ log' \in Seq(Events) /\ events[s] \in Seq(Events)
    BY DEF TypeOK
  <2>2. QED
    BY <2>1
<1>2. QED
  BY <1>1 DEF Agree, Grows

\* What agrees with a log that grew agreed with the shorter one.
LEMMA AgreeWasSo ==
    ASSUME TypeOK, TypeOK', NEW s \in Lifecycles, Agree(s, Len(log))', Grows,
           events'[s] = events[s]
    PROVE  Agree(s, Len(log))
<1>1. Len(log) \in Nat /\ Len(log') \in Nat /\ Len(events[s]) \in Nat
  <2>1. log \in Seq(Events) /\ log' \in Seq(Events) /\ events[s] \in Seq(Events)
    BY DEF TypeOK
  <2>2. QED
    BY <2>1
<1>2. QED
  BY <1>1 DEF Agree, Grows

\* Who could go on from the log after a step could do so before it.
LEMMA ThreatWasSo ==
    ASSUME TypeOK, TypeOK', NEW s \in Lifecycles, Threat(s)', Grows, events'[s] = events[s],
           GoesOn(s), Len(log) > 0, state.owner # s
    PROVE  Threat(s)
<1>1. Agree(s, Len(log))'
  BY DEF Threat
<1>2. QED
  BY <1>1, AgreeWasSo DEF Threat

\* With another operation at the front nobody goes on from the log unless he owns it.
LEMMA NoThreat ==
    ASSUME ThreatsAreReloads, NEW op, NEW of, AtFront(op, of), NEW s \in Lifecycles,
           op # "created" \/ of # s
    PROVE  ~Threat(s)
BY DEF ThreatsAreReloads, AtHead, AtFront

\* Two lifecycles do not begin with the same event when nothing is stored.
LEMMA BeginningsDiffer ==
    ASSUME TypeOK, HistoriesAreOwn, NEW s \in Lifecycles, NEW t \in Lifecycles, s # t,
           Len(log) = 0, Len(events[s]) > 0, Len(events[t]) > 0
    PROVE  events[s][1] # events[t][1]
<1>1. 1 \in 1 .. Len(events[s]) /\ 1 \in 1 .. Len(events[t])
  BY Numbered
<1>2. events[s][1].by = s /\ events[t][1].by = t
  BY <1>1 DEF HistoriesAreOwn
<1>3. QED
  BY <1>2

\* The chain is as it was behind another end, or in front of another link.
LEMMA PlacesStay ==
    ASSUME TypeOK, TypeOK', AppendsAreFree, RetireesHaveSent,
           \A s \in Lifecycles : Agree(s, Len(events[s])) /\ retiring[s] = "done" =>
              Agree(s, Len(events[s]))',
           \A s \in Lifecycles : retiring'[s] = "done" => retiring[s] = "done",
           \/ state'.owner \in Lifecycles => state'.owner = state.owner
           \/ \A i \in DOMAIN chain : chain[i].op # "append",
           \A i \in DOMAIN chain : chain[i].op = "retire" =>
              sent'[chain[i].of] = Len(events'[chain[i].of]),
           \/ UNCHANGED chain
           \/ \E op, of : /\ Enqueue(op, of) /\ op # "append"
                          /\ op = "retire" => sent'[of] = Len(events'[of])
           \/ Ends /\ \E op, of : AtFront(op, of)
    PROVE  AppendsAreFree' /\ RetireesHaveSent'
<1>1. \A s \in Lifecycles : retiring'[s] = "done" => Agree(s, Len(events[s]))'
  BY DEF RetireesHaveSent
<1>2. CASE \E d \in {0, 1} : Shrinks(d)
  <2>1. PICK d \in {0, 1} : Shrinks(d)
    BY <1>2
  <2>2. \A i \in DOMAIN chain' : i + d \in DOMAIN chain /\ chain'[i] = chain[i + d]
    BY <2>1 DEF Shrinks
  <2>3. DOMAIN chain \subseteq Nat /\ DOMAIN chain' \subseteq Nat
    BY ChainsAreNumbered
  <2>4. RetireesHaveSent'
    BY <1>1, <2>2 DEF RetireesHaveSent
  <2>5. AppendsAreFree'
    <3>1. \A i, j \in DOMAIN chain' : j < i => j + d < i + d
      BY <2>3
    <3>2. QED
      BY <2>2, <3>1 DEF AppendsAreFree
  <2>6. QED
    BY <2>4, <2>5
<1>3. ASSUME NEW op, NEW of, Enqueue(op, of), op # "append",
             op = "retire" => sent'[of] = Len(events'[of])
      PROVE  AppendsAreFree' /\ RetireesHaveSent'
  <2>1. /\ DOMAIN chain = 1 .. Len(chain) /\ Len(chain) \in Nat
        /\ DOMAIN chain' = 1 .. Len(chain) + 1
        /\ \A i \in 1 .. Len(chain) : chain'[i] = chain[i]
        /\ chain'[Len(chain) + 1].op = op /\ chain'[Len(chain) + 1].of = of
    BY <1>3, EnqueueAddsToTyped
  <2>2. RetireesHaveSent'
    BY <1>1, <1>3, <2>1 DEF RetireesHaveSent
  <2>3. AppendsAreFree'
    BY <1>3, <2>1 DEF AppendsAreFree
  <2>4. QED
    BY <2>2, <2>3
<1>4. QED
  BY <1>2, <1>3, ChainShrinks

\* What leaves logs, histories and the state alone keeps all of this, when nobody that comes
\* to the chain was kept out by a threat.
LEMMA QuietKeepsHistories ==
    ASSUME Inv, TypeOK', Histories,
           UNCHANGED <<log, events, init, state, holder, sent>>,
           \A s \in Lifecycles : retiring'[s] \in {"no", "done"} => retiring'[s] = retiring[s],
           \/ UNCHANGED <<chain, running>>
           \/ UNCHANGED chain /\ \E op, of : AtFront(op, of) /\ op # "created"
           \/ /\ \E op, of : /\ Enqueue(op, of) /\ op # "append"
                             /\ op = "retire" => of \in Lifecycles /\ sent[of] = Len(events[of])
              /\ \A s \in Lifecycles : ~(Alone(s) /\ state = NoState)
              /\ UNCHANGED running
           \/ Ends /\ \E op, of : AtFront(op, of) /\ op # "created",
           \A s \in Lifecycles : Alone(s) /\ state = NoState => entry' = NoEntry
    PROVE  Histories'
<1>1. TypeOK /\ TypeOK' /\ OwnersAgree /\ SentIsStored /\ RetireesHaveSent /\ AppendsAreFree
      /\ HistoriesAreOwn /\ LosersHadNothing /\ ThreatsAreReloads
  BY DEF Inv, Histories
<1>2. OwnersAgree' /\ SentIsStored' /\ LosersHadNothing'
  BY <1>1 DEF OwnersAgree, SentIsStored, LosersHadNothing, Agree
<1>3. HistoriesAreOwn'
  BY <1>1 DEF HistoriesAreOwn
<1>4. AppendsAreFree' /\ RetireesHaveSent'
  <2>1. \A s \in Lifecycles : Agree(s, Len(events[s])) => Agree(s, Len(events[s]))'
    BY DEF Agree
  <2>2. \A i \in DOMAIN chain : chain[i].op = "retire" =>
              sent'[chain[i].of] = Len(events'[chain[i].of])
    BY <1>1 DEF RetireesHaveSent
  <2>3. \A s \in Lifecycles : retiring'[s] = "done" => retiring[s] = "done"
    OBVIOUS
  <2>4. \/ UNCHANGED chain
        \/ \E op, of : /\ Enqueue(op, of) /\ op # "append"
                       /\ op = "retire" => sent'[of] = Len(events'[of])
        \/ Ends /\ \E op, of : AtFront(op, of)
    OBVIOUS
  <2>5. state' = state
    OBVIOUS
  <2>6. QED
    BY <1>1, <2>1, <2>2, <2>3, <2>4, <2>5, PlacesStay
<1>5. ThreatsAreReloads'
  <2> SUFFICES ASSUME NEW s \in Lifecycles, Threat(s)'
               PROVE  /\ state' = NoState
                      /\ \/ init'[s] = "failed" /\ Alone(s)' /\ chain' = <<>>
                         \/ /\ init'[s] = "pending" /\ AtHead("created", s)'
                            /\ holder' = s => Alone(s)' /\ Len(chain') = 1
    BY DEF ThreatsAreReloads
  <2>1. Threat(s)
    BY DEF Threat, GoesOn, Agree
  <2>2. state = NoState
    BY <1>1, <2>1 DEF ThreatsAreReloads
  <2>3. Alone(s) => Alone(s)'
    BY <2>2 DEF Alone
  <2>4. CASE init[s] = "failed" /\ Alone(s) /\ chain = <<>>
    <3>1. UNCHANGED chain
      BY <2>2, <2>4 DEF AtFront
    <3>2. QED
      BY <2>2, <2>3, <2>4, <3>1
  <2>5. CASE /\ init[s] = "pending" /\ AtHead("created", s)
             /\ holder = s => Alone(s) /\ Len(chain) = 1
    <3>1. \A op, of : AtFront(op, of) => op = "created"
      BY <2>5 DEF AtHead, AtFront
    <3>2. CASE UNCHANGED <<chain, running>>
      <4>1. AtHead("created", s)'
        BY <2>5, <3>2 DEF AtHead, AtFront
      <4>2. QED
        BY <2>2, <2>3, <2>5, <3>2, <4>1
    <3>3. CASE /\ \E op, of : Enqueue(op, of)
               /\ \A t \in Lifecycles : ~(Alone(t) /\ state = NoState)
               /\ UNCHANGED running
      <4>1. chain # <<>> /\ Head(chain) = [op |-> "created", of |-> s]
        BY <2>5 DEF AtHead, AtFront
      <4>2. chain' # <<>> /\ Head(chain') = Head(chain)
        BY <1>1, <3>3, <4>1, EnqueueAddsToTyped
      <4>3. AtHead("created", s)'
        BY <2>5, <3>3, <4>1, <4>2 DEF AtHead, AtFront
      <4>4. holder # s
        BY <2>2, <2>5, <3>3
      <4>5. QED
        BY <2>2, <2>5, <4>3, <4>4
    <3>4. QED
      BY <3>1, <3>2, <3>3
  <2>6. QED
    BY <1>1, <2>1, <2>4, <2>5 DEF ThreatsAreReloads
<1>6. QED
  BY <1>2, <1>3, <1>4, <1>5 DEF Histories

\* What calls do before they reach the log.
LEMMA QuietCallsKeepHistories ==
    ASSUME Inv, Histories, NEW c \in Calls,
           \/ Call(c) \/ Load(c) \/ LoadFails(c) \/ TakeReady(c) \/ CommitBegins(c)
           \/ CommitFails(c) \/ Release(c) \/ Check(c) \/ Current(c) \/ Dropped(c) \/ Abort(c)
           \/ AppendFails(c)
    PROVE  Histories'
<1>1. TypeOK'
  BY NextKeepsInv, CallsAreNext DEF Inv
<1>2. UNCHANGED <<log, events, init, state, holder, sent, retiring>>
  BY DEF Call, Load, LoadFails, TakeReady, CommitBegins, CommitFails, Release, Check, Current,
     Dropped, Abort, AppendFails, logVars, lifeVars
<1>3. ASSUME NEW s \in Lifecycles, Alone(s)
      PROVE  entry = NoEntry /\ holder # Nobody
  BY <1>3, CoordinatorAssumption DEF Alone
<1>4. CASE Call(c)
  <2>1. UNCHANGED running /\ (UNCHANGED chain \/ Enqueue("load", c))
    BY <1>4 DEF Call, Enter
  <2>2. holder # Nobody => UNCHANGED <<entry, chain>>
    BY <1>4 DEF Call, Enter
  <2>3. QED
    BY <1>1, <1>2, <1>3, <2>1, <2>2, QuietKeepsHistories
<1>5. CASE Load(c) \/ LoadFails(c)
  <2>1. Ends /\ AtFront("load", c)
    BY <1>5 DEF Load, LoadFails, AtHead
  <2>2. entry = NoEntry => entry' = NoEntry
    BY <1>5 DEF Load, LoadFails, Loads
  <2>3. QED
    BY <1>1, <1>2, <1>3, <2>1, <2>2, QuietKeepsHistories
<1>6. CASE TakeReady(c)
  <2>1. UNCHANGED running /\ Enqueue("commit", c) /\ entry # NoEntry
    BY <1>6 DEF TakeReady, NoEntry
  <2>2. QED
    BY <1>1, <1>2, <1>3, <2>1, QuietKeepsHistories
<1>7. CASE CommitBegins(c)
  <2>1. UNCHANGED <<chain, entry>> /\ AtFront("commit", c)
    BY <1>7 DEF CommitBegins, Begins, AtHead
  <2>2. QED
    BY <1>1, <1>2, <1>3, <2>1, QuietKeepsHistories
<1>8. CASE CommitFails(c) \/ Current(c) \/ Dropped(c) \/ AppendFails(c)
  <2>1. Ends /\ \E op \in {"commit", "current", "append"} : AtFront(op, c)
    BY <1>8 DEF CommitFails, Current, Dropped, AppendFails, AtHead, Running
  <2>2. entry = NoEntry => entry' = NoEntry
    BY <1>8 DEF CommitFails, Current, Dropped, AppendFails, GivesUp, Removes
  <2>3. QED
    BY <1>1, <1>2, <1>3, <2>1, <2>2, QuietKeepsHistories
<1>9. CASE Release(c) \/ Abort(c)
  <2>1. UNCHANGED <<chain, running>>
    BY <1>9 DEF Release, Abort
  <2>2. entry = NoEntry => entry' = NoEntry
    BY <1>9 DEF Release, Abort, GivesUp, Removes, Inv, ReservedAlone
  <2>3. QED
    BY <1>1, <1>2, <1>3, <2>1, <2>2, QuietKeepsHistories
<1>10. CASE Check(c)
  <2>1. /\ UNCHANGED <<running, entry>>
        /\ UNCHANGED chain \/ (Enqueue("current", c) /\ holder = Nobody)
    BY <1>10 DEF Check
  <2>2. QED
    BY <1>1, <1>2, <1>3, <2>1, QuietKeepsHistories
<1>11. QED
  BY <1>4, <1>5, <1>6, <1>7, <1>8, <1>9, <1>10

\* What sessions do before they reach the log.
LEMMA QuietSessionsKeepHistories ==
    ASSUME Inv, Histories, NEW s \in Lifecycles,
           StartWrite(s) \/ Flushed(s) \/ WriteBegins(s) \/ WriteFails(s)
    PROVE  Histories'
<1>1. TypeOK'
  BY NextKeepsInv, SessionsAreNext DEF Inv
<1>2. UNCHANGED <<log, events, init, state, holder, sent, entry>>
  BY DEF StartWrite, Flushed, WriteBegins, WriteFails, logVars, lifeVars
<1>3. \A t \in Lifecycles : retiring'[t] \in {"no", "done"} => retiring'[t] = retiring[t]
  BY Numbered DEF Inv, StartWrite, Flushed, WriteBegins, WriteFails, Settles, lifeVars
<1>4. CASE StartWrite(s)
  <2>1. UNCHANGED running /\ Enqueue("write", s)
    BY <1>4 DEF StartWrite
  <2>2. state # NoState
    BY <1>4, CoordinatorAssumption DEF StartWrite, Inv, WorkersOwn, NoState
  <2>3. QED
    BY <1>1, <1>2, <1>3, <2>1, <2>2, QuietKeepsHistories
<1>5. CASE Flushed(s)
  <2>1. UNCHANGED running
    BY <1>5 DEF Flushed
  <2>2. CASE UNCHANGED chain
    BY <1>1, <1>2, <1>3, <2>1, <2>2, QuietKeepsHistories DEF Alone
  <2>3. CASE Enqueue("retire", s) /\ init[s] = "ready" /\ ~HasWork(s) /\ retiring[s] = "flushing"
    <3>1. sent[s] = Len(events[s])
      BY <2>3, Numbered DEF Inv, SessionsQueueOnce, HasWork
    <3>2. ASSUME NEW t \in Lifecycles, Alone(t)
          PROVE  FALSE
      BY <2>3, <3>2 DEF Alone, Inv, HolderIsLast
    <3>3. QED
      BY <1>1, <1>2, <1>3, <2>1, <2>3, <3>1, <3>2, QuietKeepsHistories
  <2>4. QED
    BY <1>5, <2>2, <2>3 DEF Flushed
<1>6. CASE WriteBegins(s)
  <2>1. UNCHANGED chain /\ AtFront("write", s)
    BY <1>6 DEF WriteBegins, Begins, AtHead
  <2>2. QED
    BY <1>1, <1>2, <1>3, <2>1, QuietKeepsHistories DEF Alone
<1>7. CASE WriteFails(s)
  <2>1. Ends /\ AtFront("write", s)
    BY <1>7 DEF WriteFails
  <2>2. QED
    BY <1>1, <1>2, <1>3, <2>1, QuietKeepsHistories DEF Alone
<1>8. QED
  BY <1>4, <1>5, <1>6, <1>7

\* The end of an operation of s, after which s owns the identity.
LEMMA OwnersKeepHistories ==
    ASSUME Inv, TypeOK', Histories, NEW s \in Lifecycles,
           NEW op \in {"created", "suffix", "write"}, AtFront(op, s), Ends,
           UNCHANGED <<holder, events, retiring>>, Grows,
           state'.owner = s, Agree(s, Len(log))',
           init[s] # "none", init'[s] # "none",
           \A t \in Lifecycles \ {s} : init'[t] = init[t] /\ sent'[t] = sent[t],
           init'[s] = "ready" => Agree(s, sent[s])',
           ~state'.materialized => Len(log') = 0,
           \A i \in DOMAIN chain : chain[i].op # "append",
           \A t \in Lifecycles \ {s} : state.owner = t =>
              Len(log) = 0 /\ (init[t] = "ready" => Len(events[t]) = 0)
    PROVE  Histories'
<1>1. /\ TypeOK /\ TypeOK' /\ OwnersAgree /\ SentIsStored /\ RetireesHaveSent /\ AppendsAreFree
      /\ HistoriesAreOwn /\ LosersHadNothing /\ ThreatsAreReloads
      /\ Len(log) \in Nat /\ \A t \in Lifecycles : Len(events[t]) \in Nat /\ sent[t] \in Nat
  BY Numbered DEF Inv, Histories
<1>2. log' \in Seq(Events) /\ Len(log') \in Nat
  <2>1. log' \in Seq(Events)
    BY DEF TypeOK
  <2>2. QED
    BY <2>1
<1>3. \A t \in Lifecycles : \A n \in Nat : Agree(t, n) => Agree(t, n)'
  BY <1>1, AgreeStays
<1>4. OwnersAgree'
  BY DEF OwnersAgree
<1>5. SentIsStored'
  <2> SUFFICES ASSUME NEW t \in Lifecycles, init'[t] = "ready", t # s
               PROVE  Agree(t, sent[t])'
    BY DEF SentIsStored
  <2>1. Agree(t, sent[t])
    BY <1>1 DEF SentIsStored
  <2>2. sent'[t] = sent[t]
    OBVIOUS
  <2>3. QED
    BY <1>1, <1>3, <2>1, <2>2 DEF Agree
<1>6. AppendsAreFree' /\ RetireesHaveSent'
  <2>1. /\ \A i \in DOMAIN chain' :
             /\ i \in Nat /\ i + 1 \in DOMAIN chain /\ chain'[i] = chain[i + 1]
             /\ chain'[i].op \in OfSessions => chain'[i].of \in Lifecycles \ {s}
    BY <1>1, SessionLinkEnds DEF Inv, OfSessions, Initializations
  <2>2. AppendsAreFree'
    BY <2>1 DEF AppendsAreFree
  <2>3. "retire" \in OfSessions
    BY DEF OfSessions
  <2>4. \A t \in Lifecycles : retiring'[t] = "done" => Agree(t, Len(events[t]))'
    BY <1>1, <1>3 DEF RetireesHaveSent, Agree
  <2>5. QED
    BY <1>1, <2>1, <2>2, <2>3, <2>4 DEF RetireesHaveSent
<1>7. HistoriesAreOwn'
  <2> SUFFICES ASSUME NEW t \in Lifecycles
               PROVE  /\ \A i \in 1 .. Len(events[t]) : events[t][i].by # t => i <= Len(log')
                      /\ \A i \in 1 .. Len(log') : log'[i].by = t =>
                           i <= Len(events[t]) /\ events[t][i] = log'[i]
                      /\ holder # t /\ retiring[t] = "no" => Len(events[t]) = 0
    BY DEF HistoriesAreOwn
  <2>1. \A i \in 1 .. Len(events[t]) : events[t][i].by # t => i <= Len(log')
    BY <1>1, <1>2 DEF HistoriesAreOwn, Grows
  <2>2. ASSUME NEW i \in 1 .. Len(log'), log'[i].by = t
        PROVE  i <= Len(events[t]) /\ events[t][i] = log'[i]
    <3>1. i <= Len(events[s]) /\ log'[i] = events[s][i]
      BY <1>1, <1>2 DEF Agree
    <3>2. CASE t # s
      <4>1. i \in 1 .. Len(log)
        BY <1>1, <1>2, <2>2, <3>1, <3>2 DEF HistoriesAreOwn
      <4>2. QED
        BY <1>1, <2>2, <4>1 DEF HistoriesAreOwn, Grows
    <3>3. QED
      BY <3>1, <3>2
  <2>3. QED
    BY <1>1, <2>1, <2>2 DEF HistoriesAreOwn
<1>8. LosersHadNothing'
  BY <1>1 DEF LosersHadNothing
<1>9. ThreatsAreReloads'
  <2> SUFFICES ASSUME NEW t \in Lifecycles, Threat(t)'
               PROVE  FALSE
    BY DEF ThreatsAreReloads
  <2>1. t # s
    BY DEF Threat
  <2>2. GoesOn(t) /\ events'[t] = events[t]
    BY <2>1 DEF Threat, GoesOn
  <2>3. ~Threat(t)
    BY <1>1, <2>1, NoThreat
  <2>4. Len(log) = 0
    BY <1>1, <2>1, <2>2, <2>3, ThreatWasSo
  <2>5. 1 \in 1 .. Len(log')
    BY <1>2 DEF Threat
  <2>6. log'[1] = events[s][1] /\ log'[1] = events[t][1] /\ Len(events[s]) > 0 /\ Len(events[t]) > 0
    BY <1>1, <1>2, <2>5 DEF Threat, Agree
  <2>7. TypeOK /\ HistoriesAreOwn
    BY <1>1
  <2>8. events[s][1] # events[t][1]
    BY <2>1, <2>4, <2>6, <2>7, BeginningsDiffer
  <2>9. QED
    BY <2>6, <2>8
<1>10. QED
  BY <1>4, <1>5, <1>6, <1>7, <1>8, <1>9 DEF Histories

\* A landing continues the log with the history.
LEMMA LandsAgrees ==
    ASSUME TypeOK, TypeOK', NEW s \in Lifecycles, NEW upto \in Nat,
           Len(log) <= upto, upto <= Len(events[s]), Agree(s, Len(log)),
           Lands(s, Len(log), upto), UNCHANGED events
    PROVE  /\ Grows /\ Len(log') = upto /\ state'.owner = s /\ state'.materialized
           /\ Agree(s, Len(log))' /\ Agree(s, upto)'
<1>1. /\ events[s] \in Seq(Events) /\ log \in Seq(Events) /\ log' \in Seq(Events)
      /\ Len(events[s]) \in Nat /\ Len(log) \in Nat
  <2>1. events[s] \in Seq(Events) /\ log \in Seq(Events) /\ log' \in Seq(Events)
    BY DEF TypeOK
  <2>2. QED
    BY <2>1
<1> DEFINE tail == SubSeq(events[s], Len(log) + 1, upto)
<1>2. /\ tail \in Seq(Events) /\ Len(tail) = upto - Len(log)
      /\ \A i \in 1 .. upto - Len(log) : tail[i] = events[s][Len(log) + i]
  <2>1. \A i \in Len(log) + 1 .. upto : events[s][i] \in Events
    BY <1>1
  <2>2. tail \in Seq(Events)
    BY <1>1, <2>1, SubSeqProperties
  <2>3. Len(tail) = upto - Len(log)
    BY <1>1, SubSeqProperties
  <2>4. \A i \in 1 .. upto - Len(log) : tail[i] = events[s][Len(log) + i]
    BY <1>1, <2>1
  <2>5. QED
    BY <2>2, <2>3, <2>4
<1>3. log' = log \o tail /\ state' = OwnedBy(s, upto, TRUE)
  BY DEF Lands
<1> HIDE DEF tail
<1>4. /\ Len(log') = upto
      /\ \A i \in 1 .. Len(log) : log'[i] = log[i]
      /\ \A i \in Len(log) + 1 .. upto : log'[i] = events[s][i]
  <2>1. Len(log') = Len(log) + Len(tail)
    BY <1>1, <1>2, <1>3, ConcatProperties
  <2>2. \A i \in 1 .. Len(log) : log'[i] = log[i]
    BY <1>1, <1>2, <1>3
  <2>3. ASSUME NEW i \in Len(log) + 1 .. upto
        PROVE  log'[i] = events[s][i]
    <3>1. log'[i] = tail[i - Len(log)]
      BY <1>1, <1>2, <1>3
    <3>2. i - Len(log) \in 1 .. upto - Len(log)
      BY <1>1
    <3>3. QED
      BY <1>1, <1>2, <3>1, <3>2
  <2>4. Len(log') = upto
    BY <1>1, <1>2, <2>1
  <2>5. QED
    BY <2>2, <2>3, <2>4
<1>5. \A i \in 1 .. upto : log'[i] = events[s][i]
  <2>1. \A i \in 1 .. Len(log) : log[i] = events[s][i]
    BY DEF Agree
  <2>2. \A i \in 1 .. upto : i \in 1 .. Len(log) \/ i \in Len(log) + 1 .. upto
    BY <1>1
  <2>3. QED
    BY <1>4, <2>1, <2>2
<1>6. QED
  BY <1>1, <1>3, <1>4, <1>5 DEF Agree, Grows, OwnedBy

\* The end of an initialization that failed, and left the log.
LEMMA FailuresKeepHistories ==
    ASSUME Inv, TypeOK', Histories, NEW s \in Lifecycles,
           NEW op \in Initializations, AtHead(op, s), Ends,
           UNCHANGED <<log, entry, holder, events, retiring, sent>>,
           init' = [init EXCEPT ![s] = "failed"],
           \/ state' = state
           \/ /\ state' = NoState /\ Len(log) = 0
              /\ \A t \in Lifecycles : state.owner = t /\ init[t] = "ready" =>
                    Len(events[t]) = 0
    PROVE  Histories'
<1> USE CoordinatorAssumption
<1>1. /\ TypeOK /\ TypeOK' /\ OwnersAgree /\ SentIsStored /\ RetireesHaveSent /\ AppendsAreFree
      /\ HistoriesAreOwn /\ LosersHadNothing /\ ThreatsAreReloads /\ AtFront(op, s)
      /\ init'[s] = "failed" /\ \A t \in Lifecycles \ {s} : init'[t] = init[t]
      /\ init[s] = "pending"
  <2>1. init[s] = "pending" /\ AtFront(op, s)
    BY EndsRemovesFromTyped DEF AtHead, Inv, SessionsQueueOnce
  <2>2. QED
    BY <2>1, Numbered DEF Inv, Histories
<1>2. OwnersAgree'
  BY <1>1 DEF OwnersAgree, NoState, Agree
<1>3. SentIsStored'
  BY <1>1 DEF SentIsStored, Agree
<1>4. AppendsAreFree' /\ RetireesHaveSent'
  <2>1. \A t \in Lifecycles : Agree(t, Len(events[t])) => Agree(t, Len(events[t]))'
    BY DEF Agree
  <2>2. \A i \in DOMAIN chain : chain[i].op = "retire" =>
              sent'[chain[i].of] = Len(events'[chain[i].of])
    BY <1>1 DEF RetireesHaveSent
  <2>3. \A t \in Lifecycles : retiring'[t] = "done" => retiring[t] = "done"
    OBVIOUS
  <2>4. state'.owner \in Lifecycles => state'.owner = state.owner
    BY DEF NoState
  <2>5. QED
    BY <1>1, <2>1, <2>2, <2>3, <2>4, PlacesStay
<1>5. HistoriesAreOwn'
  BY <1>1 DEF HistoriesAreOwn
<1>6. LosersHadNothing'
  BY <1>1 DEF LosersHadNothing, NoState
<1>7. ThreatsAreReloads'
  <2> SUFFICES ASSUME NEW t \in Lifecycles, Threat(t)'
               PROVE  /\ state' = NoState
                      /\ init'[t] = "failed" /\ Alone(t)' /\ chain' = <<>>
    BY DEF ThreatsAreReloads
  <2>1. Len(log) > 0 /\ Agree(t, Len(log)) /\ state' = state /\ state.owner # t
    BY <1>1, Numbered DEF Threat, Agree
  <2>2. GoesOn(t)
    BY <1>1 DEF Threat, GoesOn
  <2>3. Threat(t)
    BY <2>1, <2>2 DEF Threat
  <2>4. t = s /\ op = "created"
    BY <1>1, <2>3, NoThreat
  <2>5. holder = s
    BY <1>1, <2>4 DEF Threat, GoesOn
  <2>6. state = NoState /\ Alone(s) /\ Len(chain) = 1
    BY <1>1, <2>3, <2>4, <2>5 DEF ThreatsAreReloads
  <2>7. chain' = <<>>
    <3>1. chain \in Seq(Links) /\ chain' \in Seq(Links)
      BY <1>1 DEF TypeOK
    <3>2. QED
      BY <2>6, <3>1 DEF Ends
  <2>8. QED
    BY <1>1, <2>1, <2>4, <2>6, <2>7 DEF Alone
<1>8. QED
  BY <1>2, <1>3, <1>4, <1>5, <1>6, <1>7 DEF Histories

\* What a prefix says of the events it covers.
LEMMA PrefixAgrees ==
    ASSUME TypeOK, NEW s \in Lifecycles, NEW n \in Nat, n <= Len(events[s]),
           IsPrefix(log, SubSeq(events[s], 1, n))
    PROVE  Len(log) <= n /\ Agree(s, Len(log))
<1>1. events[s] \in Seq(Events) /\ log \in Seq(Events)
  BY DEF TypeOK
<1> DEFINE seed == SubSeq(events[s], 1, n)
<1>2. /\ seed \in Seq(Events) /\ Len(seed) = n
      /\ \A i \in 1 .. n : seed[i] = events[s][i]
  BY <1>1
<1>3. Len(log) <= Len(seed) /\ SubSeq(log, 1, Len(log)) = SubSeq(seed, 1, Len(log))
  BY DEF IsPrefix
<1> HIDE DEF seed
<1>4. \A i \in 1 .. Len(log) : log[i] = seed[i]
  <2>1. \A i \in 1 .. Len(log) : /\ SubSeq(log, 1, Len(log))[i] = log[i]
                                /\ SubSeq(seed, 1, Len(log))[i] = seed[i]
    BY <1>1, <1>2, <1>3
  <2>2. QED
    BY <1>3, <2>1
<1>5. Len(log) \in Nat /\ Len(events[s]) \in Nat
  BY <1>1
<1>6. QED
  BY <1>2, <1>3, <1>4, <1>5 DEF Agree

\* Agreement is the prefix relation, either way.
LEMMA AgreeIsPrefix ==
    ASSUME TypeOK, NEW s \in Lifecycles
    PROVE  /\ Agree(s, Len(log)) <=> IsPrefix(log, events[s])
           /\ Agree(s, Len(events[s])) <=> IsPrefix(events[s], log)
<1>1. events[s] \in Seq(Events) /\ log \in Seq(Events)
  BY DEF TypeOK
<1>2. ASSUME NEW l \in Seq(Events), NEW m \in Seq(Events)
      PROVE  IsPrefix(l, m) <=> Len(l) <= Len(m) /\ \A i \in 1 .. Len(l) : l[i] = m[i]
  <2>1. CASE Len(l) <= Len(m)
    <3>1. /\ SubSeq(l, 1, Len(l)) \in Seq(Events) /\ SubSeq(m, 1, Len(l)) \in Seq(Events)
          /\ Len(SubSeq(l, 1, Len(l))) = Len(l) /\ Len(SubSeq(m, 1, Len(l))) = Len(l)
          /\ \A i \in 1 .. Len(l) : /\ SubSeq(l, 1, Len(l))[i] = l[i]
                                    /\ SubSeq(m, 1, Len(l))[i] = m[i]
      BY <2>1
    <3>2. SubSeq(l, 1, Len(l)) = SubSeq(m, 1, Len(l))
             <=> \A i \in 1 .. Len(l) : SubSeq(l, 1, Len(l))[i] = SubSeq(m, 1, Len(l))[i]
      BY <3>1, SeqEqual
    <3>3. QED
      BY <2>1, <3>1, <3>2 DEF IsPrefix
  <2>2. CASE ~(Len(l) <= Len(m))
    BY <2>2 DEF IsPrefix
  <2>3. QED
    BY <2>1, <2>2
<1>3. Len(log) \in Nat /\ Len(events[s]) \in Nat
  BY <1>1
<1>4. IsPrefix(log, events[s]) <=>
         Len(log) <= Len(events[s]) /\ \A i \in 1 .. Len(log) : log[i] = events[s][i]
  BY <1>1, <1>2
<1>5. IsPrefix(events[s], log) <=>
         Len(events[s]) <= Len(log) /\ \A i \in 1 .. Len(events[s]) : events[s][i] = log[i]
  BY <1>1, <1>2
<1>6. QED
  BY <1>3, <1>4, <1>5 DEF Agree

\* A session claims the identity, adopts the log, or collides.
LEMMA CreatedKeepsHistories ==
    ASSUME Inv, Histories, NEW s \in Lifecycles, Created(s)
    PROVE  Histories'
<1> USE CoordinatorAssumption
<1>1. TypeOK' /\ TypeOK /\ sent[s] \in Nat /\ sent[s] <= Len(events[s]) /\ Len(log) \in Nat
      /\ init \in [Lifecycles -> {"none", "pending", "ready", "failed"}]
  BY NextKeepsInv, SessionsAreNext, Numbered DEF Inv, SessionsQueueOnce
<1>2. /\ AtHead("created", s) /\ AtFront("created", s) /\ Ends
      /\ UNCHANGED <<holder, events, sent, retiring>>
  BY DEF Created, AtHead
<1>3. init[s] = "pending" /\ \A i \in DOMAIN chain : chain[i].op # "append"
  <2>1. 1 \in DOMAIN chain /\ chain[1].op = "created" /\ chain[1].of = s
        /\ DOMAIN chain \subseteq Nat /\ \A i \in DOMAIN chain : i >= 1
    BY <1>1, <1>2, EndsRemovesFromTyped
  <2>2. init[s] = "pending"
    BY <2>1 DEF Inv, SessionsQueueOnce, Initializations
  <2>3. \A i \in DOMAIN chain : i # 1 => 1 < i
    BY <2>1
  <2>4. \A i \in DOMAIN chain : chain[i].op # "append"
    BY <2>1, <2>3 DEF Histories, AppendsAreFree, Initializations
  <2>5. QED
    BY <2>2, <2>4
<1>4. ASSUME Abandoned
      PROVE  /\ Len(log) = 0
             /\ \A t \in Lifecycles : state.owner = t /\ init[t] = "ready" =>
                   Len(events[t]) = 0
  <2>1. Len(log) = 0 /\ state.owner \in Lifecycles
    BY <1>4 DEF Abandoned, Histories, LosersHadNothing
  <2>2. ASSUME NEW t \in Lifecycles, state.owner = t, init[t] = "ready"
        PROVE  Len(events[t]) = 0
    <3>1. ~HasWork(t) /\ Agree(t, sent[t])
      BY <1>4, <2>2 DEF Abandoned, Histories, SentIsStored
    <3>2. sent[t] \in Nat /\ Len(events[t]) \in Nat /\ sent[t] <= Len(events[t])
      BY Numbered DEF Inv, SessionsQueueOnce
    <3>3. QED
      BY <2>1, <3>1, <3>2 DEF Agree, HasWork
  <2>3. QED
    BY <2>1, <2>2
<1>5. ASSUME NEW materialized, TakesOwnership(s, Len(log), materialized), Agree(s, Len(log)),
             ~materialized => Len(log) = 0,
             state.owner \in {Nobody, "none"} \/ Abandoned
      PROVE  Histories'
  <2>1. \A t \in Lifecycles \ {s} : state.owner = t =>
           Len(log) = 0 /\ (init[t] = "ready" => Len(events[t]) = 0)
    BY <1>4, <1>5
  <2>2. CASE /\ sent[s] > Len(log) /\ init' = [init EXCEPT ![s] = "ready"]
             /\ Lands(s, Len(log), sent[s])
    <3>1. /\ Grows /\ state'.owner = s /\ state'.materialized
          /\ Agree(s, Len(log))' /\ Agree(s, sent[s])'
      <4>1. /\ Grows /\ Len(log') = sent[s] /\ state'.owner = s /\ state'.materialized
            /\ Agree(s, Len(log))' /\ \A n \in Nat : n = sent[s] => Agree(s, n)'
        BY <1>1, <1>2, <1>5, <2>2, LandsAgrees
      <4>2. QED
        BY <1>1, <1>2, <4>1 DEF Agree
    <3>2. /\ init'[s] = "ready"
          /\ \A t \in Lifecycles \ {s} : init'[t] = init[t] /\ sent'[t] = sent[t]
      BY <1>1, <1>2, <2>2
    <3>3. QED
      BY <1>1, <1>2, <1>3, <2>1, <3>1, <3>2, OwnersKeepHistories
  <2>3. CASE /\ \/ init' = [init EXCEPT ![s] = "ready"] /\ sent[s] = Len(log)
                \/ init' = [init EXCEPT ![s] = "failed"]
             /\ state' = OwnedBy(s, Len(log), materialized)
             /\ UNCHANGED <<log, entry, call>>
    <3>1. Grows /\ state'.owner = s /\ state'.materialized = materialized
      BY <1>1, <2>3 DEF Grows, OwnedBy
    <3>2. /\ init'[s] \in {"ready", "failed"} /\ (init'[s] = "ready" => sent[s] = Len(log))
          /\ \A t \in Lifecycles \ {s} : init'[t] = init[t] /\ sent'[t] = sent[t]
      BY <1>1, <1>2, <2>3
    <3>3. Agree(s, Len(log))' /\ (init'[s] = "ready" => Agree(s, sent[s])')
      BY <1>2, <1>5, <2>3, <3>2 DEF Agree
    <3>4. ~state'.materialized => Len(log') = 0
      BY <1>5, <2>3, <3>1
    <3>5. QED
      BY <1>1, <1>2, <1>3, <2>1, <3>1, <3>2, <3>3, <3>4, OwnersKeepHistories
  <2>4. QED
    BY <1>5, <2>2, <2>3 DEF TakesOwnership
<1>6. CASE /\ ~Untracked /\ state.owner = Nobody /\ Covers(s, SubSeq(log, 1, state.cursor))
           /\ TakesOwnership(s, state.cursor, state.materialized)
  <2>1. state.cursor = Len(log) /\ (~state.materialized => Len(log) = 0)
    BY <1>6 DEF Inv, Exact, Histories, LosersHadNothing
  <2>2. SubSeq(log, 1, Len(log)) = log
    BY DEF Inv, TypeOK
  <2>3. Agree(s, Len(log))
    BY <1>1, <1>6, <2>1, <2>2, PrefixAgrees DEF Covers
  <2>4. QED
    BY <1>5, <1>6, <2>1, <2>3
<1>7. CASE Untracked /\ Covers(s, log) /\ TakesOwnership(s, Len(log), TRUE)
  <2>1. Agree(s, Len(log))
    BY <1>1, <1>7, PrefixAgrees DEF Covers
  <2>2. state.owner \in {Nobody, "none"} \/ Abandoned
    BY <1>7 DEF Untracked, NoState
  <2>3. QED
    BY <1>5, <1>7, <2>1, <2>2
<1>8. CASE Untracked /\ log = <<>> /\ TakesOwnership(s, 0, FALSE)
  <2>1. Len(log) = 0
    BY <1>8
  <2>2. Agree(s, Len(log))
    BY <1>1, <2>1 DEF Agree
  <2>3. state.owner \in {Nobody, "none"} \/ Abandoned
    BY <1>8 DEF Untracked, NoState
  <2>4. TakesOwnership(s, Len(log), FALSE)
    BY <1>8, <2>1
  <2>5. QED
    BY <1>5, <2>1, <2>2, <2>3, <2>4
<1>9. CASE /\ init' = [init EXCEPT ![s] = "failed"]
           /\ state' = IF Abandoned THEN NoState ELSE state
           /\ UNCHANGED <<log, torn, entry, call>>
  <2>1. "created" \in Initializations
    BY DEF Initializations
  <2>2. QED
    BY <1>1, <1>2, <1>4, <1>9, <2>1, FailuresKeepHistories
<1>10. QED
  BY <1>6, <1>7, <1>8, <1>9 DEF Created

\* A restored session stores the end of its seed.
LEMMA SuffixKeepsHistories ==
    ASSUME Inv, Histories, NEW s \in Lifecycles, Suffix(s)
    PROVE  Histories'
<1> USE CoordinatorAssumption
<1>1. TypeOK' /\ TypeOK /\ sent[s] \in Nat /\ sent[s] <= Len(events[s]) /\ Len(log) \in Nat
      /\ init \in [Lifecycles -> {"none", "pending", "ready", "failed"}]
  BY NextKeepsInv, SessionsAreNext, Numbered DEF Inv, SessionsQueueOnce
<1>2. /\ AtHead("suffix", s) /\ AtFront("suffix", s) /\ Ends
      /\ UNCHANGED <<holder, events, sent, retiring>>
  BY DEF Suffix, AtHead
<1>3. 1 \in DOMAIN chain /\ chain[1].op = "suffix" /\ chain[1].of = s
  BY <1>1, <1>2, EndsRemovesFromTyped
<1>4. init[s] = "pending" /\ \A i \in DOMAIN chain : chain[i].op # "append"
  BY <1>3 DEF Inv, SessionsQueueOnce, SuffixesFit, Initializations
<1>5. CASE /\ state = OwnedBy(s, state.cursor, state.materialized)
           /\ init' = [init EXCEPT ![s] = "ready"]
           /\ Lands(s, state.cursor, sent[s])
  <2>1. state.owner = s
    BY <1>5 DEF OwnedBy
  <2>2. state.cursor = Len(log) /\ Len(log) <= sent[s] /\ Agree(s, Len(log))
    BY <1>3, <2>1 DEF Inv, Exact, SuffixesFit, Histories, OwnersAgree
  <2>3. /\ Grows /\ Len(log') = sent[s] /\ state'.owner = s /\ state'.materialized
        /\ Agree(s, Len(log))'
    BY <1>1, <1>2, <1>5, <2>2, LandsAgrees
  <2>4. Agree(s, sent[s])'
    BY <1>2, <2>3 DEF Agree
  <2>5. /\ init'[s] = "ready"
        /\ \A t \in Lifecycles \ {s} : init'[t] = init[t] /\ sent'[t] = sent[t]
    BY <1>1, <1>2, <1>5
  <2>6. QED
    BY <1>1, <1>2, <1>4, <2>1, <2>3, <2>4, <2>5, OwnersKeepHistories
<1>6. CASE init' = [init EXCEPT ![s] = "failed"] /\ UNCHANGED <<log, state, entry, call>>
  <2>1. "suffix" \in Initializations
    BY DEF Initializations
  <2>2. QED
    BY <1>1, <1>2, <1>6, <2>1, FailuresKeepHistories
<1>7. QED
  BY <1>5, <1>6 DEF Suffix

\* The owner stores what it wrote.
LEMMA WriteLandsKeepsHistories ==
    ASSUME Inv, Histories, NEW s \in Lifecycles, WriteLands(s)
    PROVE  Histories'
<1> USE CoordinatorAssumption
<1>1. TypeOK' /\ TypeOK /\ batch[s] \in Nat /\ Len(log) \in Nat
      /\ sent \in [Lifecycles -> Nat]
  BY NextKeepsInv, SessionsAreNext, Numbered DEF Inv
<1>2. /\ AtFront("write", s) /\ Ends
      /\ UNCHANGED <<holder, events, init, retiring>>
      /\ sent' = [sent EXCEPT ![s] = batch[s]]
  BY DEF WriteLands, Running
<1>3. 1 \in DOMAIN chain /\ chain[1].op = "write" /\ chain[1].of = s
  BY <1>1, <1>2, EndsRemovesFromTyped
<1>4. init[s] = "ready" /\ writing[s] # "no" /\ batch[s] <= Len(events[s])
  BY <1>3 DEF Inv, SessionsQueueOnce
<1>5. state.owner = s
  BY <1>4 DEF Inv, WorkersOwn, HasWork
<1>6. state.cursor = Len(log) /\ Agree(s, Len(log)) /\ (~state.materialized => Len(log) = 0)
  BY <1>5 DEF Inv, Exact, Histories, OwnersAgree, LosersHadNothing
<1>7. \A i \in DOMAIN chain : chain[i].op # "append"
  BY <1>5 DEF Histories, AppendsAreFree
<1>8. sent'[s] = batch[s] /\ \A t \in Lifecycles \ {s} : init'[t] = init[t] /\ sent'[t] = sent[t]
  BY <1>1, <1>2
<1>9. CASE Len(log) < batch[s] /\ Lands(s, Len(log), batch[s])
  <2>1. /\ Grows /\ Len(log') = batch[s] /\ state'.owner = s /\ state'.materialized
        /\ Agree(s, Len(log))'
    BY <1>1, <1>2, <1>4, <1>6, <1>9, LandsAgrees
  <2>2. Agree(s, sent[s])'
    BY <1>8, <2>1 DEF Agree
  <2>3. QED
    BY <1>1, <1>2, <1>4, <1>5, <1>7, <1>8, <2>1, <2>2, OwnersKeepHistories
<1>10. CASE ~(Len(log) < batch[s]) /\ UNCHANGED <<log, state>>
  <2>1. Grows
    BY <1>1, <1>10 DEF Grows
  <2>2. Agree(s, Len(log))' /\ Agree(s, sent[s])'
    BY <1>1, <1>2, <1>4, <1>6, <1>8, <1>10 DEF Agree
  <2>3. state'.owner = s /\ (~state'.materialized => Len(log') = 0)
    BY <1>5, <1>6, <1>10
  <2>4. QED
    BY <1>1, <1>2, <1>4, <1>5, <1>7, <1>8, <2>1, <2>2, <2>3, OwnersKeepHistories
<1>11. QED
  BY <1>6, <1>9, <1>10 DEF WriteLands

\* A history that is published, of which only s itself can have added to the log.
LEMMA PublishedKeepsHistories ==
    ASSUME Inv, TypeOK', Histories, NEW s \in Lifecycles, NEW history \in Seq(Events),
           Admits(s), Published(s, history), NEW op \in Initializations, Enqueue(op, s),
           \A i \in 1 .. Len(history) : history[i].by # s => i <= Len(log),
           \/ state' = state
           \/ \A i \in DOMAIN chain : chain[i].op # "append"
    PROVE  /\ SentIsStored' /\ AppendsAreFree' /\ RetireesHaveSent' /\ HistoriesAreOwn'
           /\ UNCHANGED <<log, torn, retiring, running>> /\ holder = Nobody /\ holder' = s
           /\ events'[s] = history /\ init'[s] = "pending" /\ init[s] = "none"
           /\ \A t \in Lifecycles \ {s} : /\ events'[t] = events[t] /\ init'[t] = init[t]
                                          /\ sent'[t] = sent[t]
           /\ Len(events[s]) = 0
<1> USE CoordinatorAssumption
<1>1. /\ TypeOK /\ TypeOK' /\ SentIsStored /\ RetireesHaveSent /\ AppendsAreFree
      /\ HistoriesAreOwn
      /\ init \in [Lifecycles -> {"none", "pending", "ready", "failed"}]
      /\ events \in [Lifecycles -> Seq(Events)] /\ sent \in [Lifecycles -> Nat]
      /\ Len(log) \in Nat
  BY Numbered DEF Inv, Histories
<1>2. /\ UNCHANGED <<log, torn, retiring, running>> /\ holder = Nobody /\ holder' = s
      /\ events'[s] = history /\ init'[s] = "pending" /\ init[s] = "none"
      /\ retiring[s] = "no"
      /\ \A t \in Lifecycles \ {s} : /\ events'[t] = events[t] /\ init'[t] = init[t]
                                     /\ sent'[t] = sent[t]
  BY <1>1 DEF Admits, Published, logVars
<1>3. Len(events[s]) = 0
  BY <1>1, <1>2 DEF HistoriesAreOwn
<1>4. SentIsStored'
  <2> SUFFICES ASSUME NEW t \in Lifecycles \ {s}, init[t] = "ready"
               PROVE  Agree(t, sent[t])'
    BY <1>2 DEF SentIsStored
  <2>1. Agree(t, sent[t])
    BY <1>1 DEF SentIsStored
  <2>2. QED
    BY <1>2, <2>1 DEF Agree
<1>5. AppendsAreFree' /\ RetireesHaveSent'
  <2>1. \A t \in Lifecycles : Agree(t, Len(events[t])) /\ retiring[t] = "done" =>
           Agree(t, Len(events[t]))'
    BY <1>2 DEF Agree
  <2>2. \A t \in Lifecycles : retiring'[t] = "done" => retiring[t] = "done"
    BY <1>2
  <2>3. \A i \in DOMAIN chain : chain[i].op = "retire" =>
              sent'[chain[i].of] = Len(events'[chain[i].of])
    <3>1. \A i \in DOMAIN chain : chain[i].op = "retire" => chain[i].of \in Lifecycles \ {s}
      BY <1>2 DEF Inv, SessionsQueueOnce, OfSessions
    <3>2. QED
      BY <1>1, <1>2, <3>1 DEF RetireesHaveSent
  <2>4. op # "append" /\ op # "retire"
    BY DEF Initializations
  <2>5. QED
    BY <1>1, <2>1, <2>2, <2>3, <2>4, PlacesStay
<1>6. HistoriesAreOwn'
  <2> SUFFICES ASSUME NEW t \in Lifecycles
               PROVE  /\ \A i \in 1 .. Len(events'[t]) : events'[t][i].by # t => i <= Len(log)
                      /\ \A i \in 1 .. Len(log) : log[i].by = t =>
                           i <= Len(events'[t]) /\ events'[t][i] = log[i]
                      /\ holder' # t /\ retiring[t] = "no" => Len(events'[t]) = 0
    BY <1>2 DEF HistoriesAreOwn
  <2>1. CASE t # s
    BY <1>1, <1>2, <2>1 DEF HistoriesAreOwn
  <2>2. CASE t = s
    <3>1. ASSUME NEW i \in 1 .. Len(log), log[i].by = s
          PROVE  FALSE
      <4>1. i <= Len(events[s])
        BY <1>1, <3>1 DEF HistoriesAreOwn
      <4>2. QED
        BY <1>1, <1>3, <3>1, <4>1
    <3>2. QED
      BY <1>2, <2>2, <3>1
  <2>3. QED
    BY <2>1, <2>2
<1>7. QED
  BY <1>2, <1>3, <1>4, <1>5, <1>6

\* A fresh history shares nothing with the log.
LEMMA CreateFreshKeepsHistories ==
    ASSUME Inv, Histories, NEW s \in Lifecycles, CreateFresh(s)
    PROVE  Histories'
<1> USE CoordinatorAssumption
<1>1. TypeOK' /\ TypeOK /\ OwnersAgree /\ HistoriesAreOwn /\ LosersHadNothing
      /\ ThreatsAreReloads /\ Len(log) \in Nat
  BY NextKeepsInv, SessionsAreNext, Numbered DEF Inv, Histories
<1>2. PICK history \in {<<>>, <<Event(s, "note")>>} : Published(s, history)
  BY DEF CreateFresh
<1>3. history \in Seq(Events) /\ \A i \in 1 .. Len(history) : history[i].by = s
  <2>1. Event(s, "note") \in Events /\ Event(s, "note").by = s
    BY DEF Event, Events
  <2>2. CASE history = <<>>
    BY <2>2
  <2>3. CASE history = <<Event(s, "note")>>
    BY <2>1, <2>3
  <2>4. QED
    BY <1>2, <2>2, <2>3
<1>4. /\ Admits(s) /\ Enqueue("created", s) /\ "created" \in Initializations
      /\ UNCHANGED <<state, entry, call>>
  BY DEF CreateFresh, Initializations
<1>5. /\ SentIsStored' /\ AppendsAreFree' /\ RetireesHaveSent' /\ HistoriesAreOwn'
      /\ UNCHANGED <<log, torn, retiring, running>> /\ holder = Nobody /\ holder' = s
      /\ events'[s] = history /\ init'[s] = "pending" /\ init[s] = "none"
      /\ \A t \in Lifecycles \ {s} : /\ events'[t] = events[t] /\ init'[t] = init[t]
                                     /\ sent'[t] = sent[t]
      /\ Len(events[s]) = 0
  BY <1>1, <1>2, <1>3, <1>4, PublishedKeepsHistories
<1>6. OwnersAgree'
  BY <1>1, <1>4, <1>5 DEF OwnersAgree, Agree
<1>7. LosersHadNothing'
  BY <1>1, <1>4, <1>5 DEF LosersHadNothing
<1>8. ThreatsAreReloads'
  <2> SUFFICES ASSUME NEW t \in Lifecycles, Threat(t)'
               PROVE  /\ state' = NoState
                      /\ init'[t] = "pending" /\ AtHead("created", t)' /\ holder' # t
    BY DEF ThreatsAreReloads
  <2>1. t # s
    <3> SUFFICES ASSUME t = s
                 PROVE  FALSE
      OBVIOUS
    <3>1. 1 \in 1 .. Len(log) /\ Len(log) <= Len(history) /\ log[1] = history[1]
      BY <1>1, <1>5 DEF Threat, Agree
    <3>2. log[1].by = s
      BY <1>3, <3>1
    <3>3. QED
      BY <1>1, <1>5, <3>1, <3>2 DEF HistoriesAreOwn
  <2>2. Threat(t)
    BY <1>4, <1>5, <2>1 DEF Threat, GoesOn, Agree
  <2>3. state = NoState /\ init[t] = "pending" /\ AtHead("created", t)
    BY <1>1, <1>5, <2>2 DEF ThreatsAreReloads, Alone
  <2>4. chain' # <<>> /\ Head(chain') = Head(chain)
    BY <1>1, <1>4, <2>3, EnqueueAddsToTyped DEF AtHead, AtFront
  <2>5. QED
    BY <1>4, <1>5, <2>1, <2>3, <2>4 DEF AtHead, AtFront
<1>9. QED
  BY <1>5, <1>6, <1>7, <1>8 DEF Histories

\* A restored history is the reserved log and a mark of its own.
LEMMA PublishKeepsHistories ==
    ASSUME Inv, Histories, NEW c \in Calls, NEW s \in Lifecycles, Publish(c, s)
    PROVE  Histories'
<1> USE CoordinatorAssumption
<1> DEFINE history == Append(log, Event(s, "note"))
<1>1. TypeOK' /\ TypeOK /\ OwnersAgree /\ HistoriesAreOwn /\ LosersHadNothing
      /\ ThreatsAreReloads /\ Len(log) \in Nat /\ log \in Seq(Events)
  <2>1. Next
    BY CallsAreNext
  <2>2. QED
    BY <2>1, NextKeepsInv, Numbered DEF Inv, Histories, TypeOK
<1>2. /\ call[c] = "reserved" /\ entry.source = Stored /\ state = OwnedBy(Nobody, Len(log), TRUE)
      /\ \A i \in DOMAIN chain : chain[i].op # "append"
  BY DEF Publish, Inv, ReservedAlone
<1>3. Admits(s) /\ Published(s, history) /\ Enqueue("suffix", s) /\ "suffix" \in Initializations
      /\ state'.owner = s /\ state'.materialized
  BY <1>2 DEF Publish, Stored, Initializations, OwnedBy
<1>4. /\ history \in Seq(Events) /\ Len(history) = Len(log) + 1
      /\ \A i \in 1 .. Len(log) : history[i] = log[i]
      /\ history[Len(log) + 1].by = s
  <2>1. Event(s, "note") \in Events /\ Event(s, "note").by = s
    BY DEF Event, Events
  <2>2. QED
    BY <1>1, <2>1
<1> HIDE DEF history
<1>5. /\ SentIsStored' /\ AppendsAreFree' /\ RetireesHaveSent' /\ HistoriesAreOwn'
      /\ UNCHANGED <<log, torn, retiring, running>> /\ holder = Nobody /\ holder' = s
      /\ events'[s] = history /\ init'[s] = "pending" /\ init[s] = "none"
      /\ \A t \in Lifecycles \ {s} : /\ events'[t] = events[t] /\ init'[t] = init[t]
                                     /\ sent'[t] = sent[t]
      /\ Len(events[s]) = 0
  <2>1. \A i \in 1 .. Len(history) : history[i].by # s => i <= Len(log)
    BY <1>1, <1>4
  <2>2. QED
    BY <1>1, <1>2, <1>3, <1>4, <2>1, PublishedKeepsHistories
<1>6. OwnersAgree'
  BY <1>1, <1>3, <1>4, <1>5 DEF OwnersAgree, Agree
<1>7. LosersHadNothing'
  BY <1>1, <1>2, <1>3, <1>5 DEF LosersHadNothing, OwnedBy
<1>8. ThreatsAreReloads'
  <2> SUFFICES ASSUME NEW t \in Lifecycles, Threat(t)'
               PROVE  FALSE
    BY DEF ThreatsAreReloads
  <2>1. t # s
    BY <1>3 DEF Threat
  <2>2. state.owner = Nobody /\ state # NoState
    BY <1>2 DEF OwnedBy, NoState
  <2>3. Threat(t)
    BY <1>5, <2>1, <2>2 DEF Threat, GoesOn, Agree
  <2>4. QED
    BY <1>1, <2>2, <2>3 DEF ThreatsAreReloads
<1>9. QED
  BY <1>5, <1>6, <1>7, <1>8 DEF Histories

\* The live session adds to its own history.
LEMMA ProduceKeepsHistories ==
    ASSUME Inv, Histories, NEW s \in Lifecycles, Produce(s)
    PROVE  Histories'
<1> USE CoordinatorAssumption
<1>1. /\ TypeOK' /\ TypeOK /\ OwnersAgree /\ SentIsStored /\ RetireesHaveSent
      /\ AppendsAreFree /\ HistoriesAreOwn /\ LosersHadNothing /\ ThreatsAreReloads
      /\ Len(log) \in Nat /\ \A t \in Lifecycles : Len(events[t]) \in Nat /\ sent[t] \in Nat
  BY NextKeepsInv, SessionsAreNext, Numbered DEF Inv, Histories
<1>2. /\ holder = s /\ retiring[s] = "no"
      /\ UNCHANGED <<log, torn, holder, init, sent, retiring, state, entry, chain, running>>
  BY DEF Produce, logVars, Inv, HolderIsLast
<1>3. /\ \A t \in Lifecycles \ {s} : events'[t] = events[t]
      /\ Len(events'[s]) = Len(events[s]) + 1
      /\ \A i \in 1 .. Len(events[s]) : events'[s][i] = events[s][i]
      /\ events'[s][Len(events[s]) + 1].by = s
  <2>1. PICK w \in {"start", "end"} : events' = [events EXCEPT ![s] = Append(@, Event(s, w))]
    BY DEF Produce
  <2>2. Event(s, w) \in Events /\ Event(s, w).by = s
    BY DEF Event, Events
  <2>3. events \in [Lifecycles -> Seq(Events)] /\ events[s] \in Seq(Events)
    BY <1>1, Numbered
  <2>4. QED
    BY <2>1, <2>2, <2>3
<1>4. \A t \in Lifecycles :
         /\ Len(events[t]) <= Len(events'[t]) /\ Len(events'[t]) \in Nat
         /\ \A i \in 1 .. Len(events[t]) : events'[t][i] = events[t][i]
  BY <1>1, <1>3
<1>5. OwnersAgree'
  <2>1. ASSUME NEW t \in Lifecycles, Agree(t, Len(log))
        PROVE  Agree(t, Len(log))'
    <3>1. Len(log) <= Len(events[t]) /\ Len(log) \in Nat
      BY <1>1, <2>1 DEF Agree
    <3>2. QED
      BY <1>1, <1>2, <1>4, <2>1, <3>1 DEF Agree
  <2>2. QED
    BY <1>1, <1>2, <2>1 DEF OwnersAgree
<1>6. SentIsStored'
  <2>1. ASSUME NEW t \in Lifecycles, Agree(t, sent[t])
        PROVE  Agree(t, sent[t])'
    <3>1. sent[t] <= Len(events[t]) /\ sent[t] \in Nat
      BY <1>1, <2>1 DEF Agree
    <3>2. QED
      BY <1>1, <1>2, <1>4, <2>1, <3>1 DEF Agree
  <2>2. QED
    BY <1>1, <1>2, <2>1 DEF SentIsStored
<1>7. AppendsAreFree' /\ RetireesHaveSent'
  <2>1. \A t \in Lifecycles : Agree(t, Len(events[t])) /\ retiring[t] = "done" =>
           Agree(t, Len(events[t]))'
    BY <1>2, <1>3 DEF Agree
  <2>2. \A i \in DOMAIN chain : chain[i].op = "retire" =>
              sent'[chain[i].of] = Len(events'[chain[i].of])
    <3>1. \A i \in DOMAIN chain : chain[i].op = "retire" => chain[i].of \in Lifecycles \ {s}
      BY <1>2 DEF Inv, SessionsQueueOnce, OfSessions
    <3>2. QED
      BY <1>1, <1>2, <1>3, <3>1 DEF RetireesHaveSent
  <2>3. QED
    BY <1>1, <1>2, <2>1, <2>2, PlacesStay
<1>8. HistoriesAreOwn'
  <2> SUFFICES ASSUME NEW t \in Lifecycles
               PROVE  /\ \A i \in 1 .. Len(events'[t]) : events'[t][i].by # t => i <= Len(log)
                      /\ \A i \in 1 .. Len(log) : log[i].by = t =>
                           i <= Len(events'[t]) /\ events'[t][i] = log[i]
                      /\ holder # t /\ retiring[t] = "no" => Len(events'[t]) = 0
    BY <1>2 DEF HistoriesAreOwn
  <2>1. CASE t # s
    BY <1>1, <1>3, <2>1 DEF HistoriesAreOwn
  <2>2. CASE t = s
    <3>1. ASSUME NEW i \in 1 .. Len(events'[s]), events'[s][i].by # s
          PROVE  i <= Len(log)
      <4>1. i \in 1 .. Len(events[s])
        BY <1>1, <1>3, <3>1
      <4>2. QED
        BY <1>1, <1>3, <3>1, <4>1 DEF HistoriesAreOwn
    <3>2. ASSUME NEW i \in 1 .. Len(log), log[i].by = s
          PROVE  i <= Len(events'[s]) /\ events'[s][i] = log[i]
      <4>1. i <= Len(events[s]) /\ events[s][i] = log[i]
        BY <1>1, <3>2 DEF HistoriesAreOwn
      <4>2. QED
        BY <1>1, <1>3, <4>1
    <3>3. QED
      BY <1>2, <2>2, <3>1, <3>2
  <2>3. QED
    BY <2>1, <2>2
<1>9. LosersHadNothing'
  <2>1. init[s] = "ready" => state.owner = s
    BY <1>2 DEF Inv, WorkersOwn
  <2>2. QED
    BY <1>1, <1>2, <1>3, <2>1 DEF LosersHadNothing
<1>10. ThreatsAreReloads'
  <2> SUFFICES ASSUME NEW t \in Lifecycles, Threat(t)'
               PROVE  Threat(t)
    BY <1>1, <1>2 DEF ThreatsAreReloads, Alone, AtHead, AtFront
  <2>1. CASE t # s
    BY <1>2, <1>3, <2>1 DEF Threat, GoesOn, Agree
  <2>2. CASE t = s
    <3>1. /\ Len(log) <= Len(events[s]) + 1 /\ \A i \in 1 .. Len(log) : log[i] = events'[s][i]
          /\ GoesOn(s) /\ Len(log) > 0 /\ state.owner # s
      BY <1>2, <1>3, <2>2 DEF Threat, GoesOn, Agree
    <3>2. Len(log) # Len(events[s]) + 1
      <4> SUFFICES ASSUME Len(log) = Len(events[s]) + 1
                   PROVE  FALSE
        OBVIOUS
      <4>1. Len(log) \in 1 .. Len(log) /\ log[Len(log)].by = s
        BY <1>1, <1>3, <3>1
      <4>2. QED
        BY <1>1, <4>1 DEF HistoriesAreOwn
    <3>3. Len(log) <= Len(events[s])
      BY <1>1, <3>1, <3>2
    <3>4. \A i \in 1 .. Len(log) : log[i] = events[s][i]
      BY <1>1, <1>3, <3>1, <3>3
    <3>5. QED
      BY <2>2, <3>1, <3>3, <3>4 DEF Threat, Agree
  <2>3. QED
    BY <2>1, <2>2
<1>11. QED
  BY <1>5, <1>6, <1>7, <1>8, <1>9, <1>10 DEF Histories

\* A session that leaves the store is still behind its controller.
LEMMA DisposeKeepsHistories ==
    ASSUME Inv, Histories, NEW s \in Lifecycles, Dispose(s)
    PROVE  Histories'
<1> USE CoordinatorAssumption
<1>1. /\ TypeOK' /\ TypeOK /\ OwnersAgree /\ SentIsStored /\ RetireesHaveSent
      /\ AppendsAreFree /\ HistoriesAreOwn /\ LosersHadNothing /\ ThreatsAreReloads
  BY NextKeepsInv, SessionsAreNext DEF Inv, Histories
<1>2. /\ holder = s /\ holder' = Nobody
      /\ UNCHANGED <<log, torn, init, events, sent, state, entry, chain, running>>
      /\ retiring'[s] = "flushing" /\ \A t \in Lifecycles \ {s} : retiring'[t] = retiring[t]
  BY <1>1, Numbered DEF Dispose, logVars
<1>3. OwnersAgree' /\ SentIsStored' /\ LosersHadNothing'
  BY <1>1, <1>2 DEF OwnersAgree, SentIsStored, LosersHadNothing, Agree
<1>4. AppendsAreFree' /\ RetireesHaveSent'
  BY <1>1, <1>2 DEF AppendsAreFree, RetireesHaveSent, Agree
<1>5. HistoriesAreOwn'
  BY <1>1, <1>2 DEF HistoriesAreOwn
<1>6. ThreatsAreReloads'
  <2> SUFFICES ASSUME NEW t \in Lifecycles, Threat(t)'
               PROVE  /\ state = NoState /\ init[t] = "pending" /\ AtHead("created", t)
    BY <1>2 DEF ThreatsAreReloads, AtHead, AtFront
  <2>1. Threat(t) /\ init[t] \in {"pending", "ready"}
    BY <1>2 DEF Threat, GoesOn, Agree
  <2>2. QED
    BY <1>1, <2>1 DEF ThreatsAreReloads
<1>7. QED
  BY <1>3, <1>4, <1>5, <1>6 DEF Histories

\* A new coordinator takes the history of the live session from it.
LEMMA ReloadKeepsHistories ==
    ASSUME Inv, Histories, Reload
    PROVE  Histories'
<1> USE CoordinatorAssumption
<1>1. /\ TypeOK' /\ TypeOK /\ RetireesHaveSent /\ HistoriesAreOwn
  BY NextKeepsInv DEF Inv, Histories, Next
<1>2. /\ state' = NoState /\ entry' = NoEntry /\ ~running /\ chain = <<>>
      /\ \A s \in Lifecycles : init'[s] = IF s = holder THEN "pending" ELSE "none"
      /\ UNCHANGED <<log, holder, events, retiring, running>>
      /\ IF holder = Nobody THEN UNCHANGED chain ELSE Enqueue("created", holder)
  BY DEF Reload, logVars, Inv, Exact, TypeOK
<1>3. OwnersAgree' /\ SentIsStored' /\ LosersHadNothing'
  BY <1>2 DEF OwnersAgree, SentIsStored, LosersHadNothing, NoState
<1>4. HistoriesAreOwn'
  BY <1>1, <1>2 DEF HistoriesAreOwn
<1>5. \/ chain' = <<>>
      \/ chain' = <<[op |-> "created", of |-> holder]>>
  BY <1>2 DEF Enqueue
<1>6. AppendsAreFree' /\ RetireesHaveSent'
  <2>1. \A i \in DOMAIN chain' : chain'[i].op = "created"
    BY <1>5
  <2>2. QED
    BY <1>1, <1>2, <2>1 DEF AppendsAreFree, RetireesHaveSent, Agree
<1>7. ThreatsAreReloads'
  <2> SUFFICES ASSUME NEW s \in Lifecycles, Threat(s)'
               PROVE  /\ state' = NoState /\ init'[s] = "pending" /\ AtHead("created", s)'
                      /\ Alone(s)' /\ Len(chain') = 1
    BY DEF ThreatsAreReloads
  <2>1. holder = s
    BY <1>2 DEF Threat, GoesOn
  <2>2. chain' = <<[op |-> "created", of |-> s]>>
    BY <1>2, <2>1 DEF Enqueue
  <2>3. Len(chain') = 1 /\ AtHead("created", s)'
    BY <1>2, <2>2 DEF AtHead, AtFront
  <2>4. QED
    BY <1>2, <2>1, <2>3 DEF Alone
<1>8. QED
  BY <1>3, <1>4, <1>6, <1>7 DEF Histories

\* A lifecycle leaves with all of its history stored.
LEMMA RetireKeepsHistories ==
    ASSUME Inv, Histories, NEW s \in Lifecycles, Retire(s)
    PROVE  Histories'
<1> USE CoordinatorAssumption
<1>1. /\ TypeOK' /\ TypeOK /\ OwnersAgree /\ SentIsStored /\ RetireesHaveSent
      /\ AppendsAreFree /\ HistoriesAreOwn /\ LosersHadNothing /\ ThreatsAreReloads
      /\ init \in [Lifecycles -> {"none", "pending", "ready", "failed"}]
      /\ sent \in [Lifecycles -> Nat]
      /\ retiring \in [Lifecycles -> {"no", "flushing", "queued", "done", "failed"}]
  BY NextKeepsInv, SessionsAreNext, Numbered DEF Inv, Histories
<1>2. /\ AtFront("retire", s) /\ Ends
      /\ UNCHANGED <<log, holder, events>>
      /\ init'[s] = "none" /\ retiring'[s] = "done"
      /\ \A t \in Lifecycles \ {s} : init'[t] = init[t] /\ sent'[t] = sent[t]
                                     /\ retiring'[t] = retiring[t]
      /\ state' = IF state.owner = s THEN NoState ELSE state
  BY <1>1 DEF Retire, AtHead, logVars, Settles
<1>3. /\ 1 \in DOMAIN chain /\ chain[1].op = "retire" /\ chain[1].of = s
      /\ init[s] = "ready" /\ retiring[s] = "queued"
  <2>1. 1 \in DOMAIN chain /\ chain[1].op = "retire" /\ chain[1].of = s
    BY <1>1, <1>2, EndsRemovesFromTyped
  <2>2. QED
    BY <2>1 DEF Inv, SessionsQueueOnce
<1>4. holder # s
  BY <1>3 DEF Inv, HolderIsLast
<1>5. Agree(s, Len(events[s]))
  BY <1>1, <1>3 DEF SentIsStored, RetireesHaveSent
<1>6. \A i \in DOMAIN chain' :
           /\ i \in Nat /\ i + 1 \in DOMAIN chain /\ chain'[i] = chain[i + 1]
           /\ chain'[i].op \in OfSessions => chain'[i].of \in Lifecycles \ {s}
  <2>1. "retire" \in OfSessions
    BY DEF OfSessions
  <2>2. QED
    BY <1>1, <1>2, <2>1, SessionLinkEnds DEF Inv, OfSessions, Initializations
<1>7. OwnersAgree'
  BY <1>1, <1>2 DEF OwnersAgree, NoState, Agree
<1>8. SentIsStored'
  BY <1>1, <1>2 DEF SentIsStored, Agree
<1>9. RetireesHaveSent'
  <2>1. \A t \in Lifecycles : retiring'[t] = "done" => Agree(t, Len(events[t]))'
    BY <1>1, <1>2, <1>5 DEF RetireesHaveSent, Agree
  <2>2. "retire" \in OfSessions
    BY DEF OfSessions
  <2>3. QED
    BY <1>1, <1>2, <1>6, <2>1, <2>2 DEF RetireesHaveSent
<1>10. AppendsAreFree'
  <2>1. state'.owner \notin Lifecycles \/ state'.owner = state.owner
    BY <1>2 DEF NoState
  <2>2. QED
    BY <1>1, <1>6, <2>1 DEF AppendsAreFree
<1>11. HistoriesAreOwn'
  BY <1>1, <1>2 DEF HistoriesAreOwn
<1>12. LosersHadNothing'
  BY <1>1, <1>2 DEF LosersHadNothing, NoState
<1>13. ThreatsAreReloads'
  <2> SUFFICES ASSUME NEW t \in Lifecycles, Threat(t)'
               PROVE  FALSE
    BY DEF ThreatsAreReloads
  <2>1. t # s
    BY <1>2, <1>4 DEF Threat, GoesOn
  <2>2. Threat(t)
    BY <1>2, <2>1 DEF Threat, GoesOn, Agree
  <2>3. QED
    BY <1>1, <1>2, <2>2, NoThreat
<1>14. QED
  BY <1>7, <1>8, <1>9, <1>10, <1>11, <1>12, <1>13 DEF Histories

\* A call works on an identity without owner: what it adds to the log is of no lifecycle.
LEMMA ColdKeepsHistories ==
    ASSUME Inv, TypeOK', Histories, NEW op \in {"commit", "append"}, NEW c, AtFront(op, c),
           UNCHANGED <<events, init, sent, holder, retiring>>,
           UNCHANGED chain \/ Ends,
           Grows, \A i \in 1 .. Len(log') : i > Len(log) => log'[i].by \notin Lifecycles,
           state.owner \notin Lifecycles, state'.owner \notin Lifecycles,
           state'.owner # "none" /\ ~state'.materialized => Len(log') = 0
    PROVE  Histories'
<1>1. /\ TypeOK' /\ TypeOK /\ SentIsStored /\ RetireesHaveSent
      /\ AppendsAreFree /\ HistoriesAreOwn /\ LosersHadNothing /\ ThreatsAreReloads
      /\ Len(log) \in Nat /\ \A t \in Lifecycles : Len(events[t]) \in Nat /\ sent[t] \in Nat
  BY Numbered DEF Inv, Histories
<1>2. Len(log') \in Nat
  <2>1. log' \in Seq(Events)
    BY DEF TypeOK
  <2>2. QED
    BY <2>1
<1>3. \A t \in Lifecycles : \A n \in Nat : Agree(t, n) => Agree(t, n)'
  BY <1>1, AgreeStays
<1>4. OwnersAgree'
  BY DEF OwnersAgree
<1>5. SentIsStored'
  BY <1>1, <1>3 DEF SentIsStored, Agree
<1>6. AppendsAreFree' /\ RetireesHaveSent'
  <2>1. \A t \in Lifecycles : Agree(t, Len(events[t])) => Agree(t, Len(events[t]))'
    BY <1>1, <1>3 DEF Agree
  <2>2. \A i \in DOMAIN chain : chain[i].op = "retire" =>
           sent'[chain[i].of] = Len(events'[chain[i].of])
    BY <1>1 DEF RetireesHaveSent
  <2>3. \A t \in Lifecycles : retiring'[t] = "done" => retiring[t] = "done"
    OBVIOUS
  <2>4. QED
    BY <1>1, <2>1, <2>2, <2>3, PlacesStay
<1>7. HistoriesAreOwn'
  <2> SUFFICES ASSUME NEW t \in Lifecycles
               PROVE  /\ \A i \in 1 .. Len(events[t]) : events[t][i].by # t => i <= Len(log')
                      /\ \A i \in 1 .. Len(log') : log'[i].by = t =>
                           i <= Len(events[t]) /\ events[t][i] = log'[i]
                      /\ holder # t /\ retiring[t] = "no" => Len(events[t]) = 0
    BY DEF HistoriesAreOwn
  <2>1. \A i \in 1 .. Len(events[t]) : events[t][i].by # t => i <= Len(log')
    BY <1>1, <1>2 DEF HistoriesAreOwn, Grows
  <2>2. ASSUME NEW i \in 1 .. Len(log'), log'[i].by = t
        PROVE  i <= Len(events[t]) /\ events[t][i] = log'[i]
    <3>1. i \in 1 .. Len(log) /\ log'[i] = log[i]
      BY <1>1, <1>2, <2>2 DEF Grows
    <3>2. QED
      BY <1>1, <2>2, <3>1 DEF HistoriesAreOwn
  <2>3. QED
    BY <1>1, <2>1, <2>2 DEF HistoriesAreOwn
<1>8. LosersHadNothing'
  BY <1>1 DEF LosersHadNothing
<1>9. ThreatsAreReloads'
  <2> SUFFICES ASSUME NEW t \in Lifecycles, Threat(t)'
               PROVE  FALSE
    BY DEF ThreatsAreReloads
  <2>1. GoesOn(t) /\ state.owner # t
    BY DEF Threat, GoesOn
  <2>2. ~Threat(t)
    BY <1>1, NoThreat
  <2>3. Len(log) = 0
    BY <1>1, <2>1, <2>2, ThreatWasSo
  <2>4. 1 \in 1 .. Len(log') /\ 1 \in 1 .. Len(events[t]) /\ log'[1] = events[t][1]
    BY <1>1, <1>2 DEF Threat, Agree
  <2>5. log'[1].by # t
    BY <2>3, <2>4
  <2>6. QED
    BY <1>1, <2>3, <2>4, <2>5 DEF HistoriesAreOwn
<1>10. QED
  BY <1>4, <1>5, <1>6, <1>7, <1>8, <1>9 DEF Histories

\* What closes an interrupted turn is of no lifecycle.
LEMMA BalancedGrows ==
    ASSUME TypeOK, NEW m, m = Balanced(log)
    PROVE  /\ Len(log) <= Len(m) /\ \A i \in 1 .. Len(log) : m[i] = log[i]
           /\ \A i \in 1 .. Len(m) : i > Len(log) => m[i].by = Nobody
           /\ Len(log) = 0 => m = log
           /\ m # log => Len(log) > 0 /\ Len(m) > Len(log)
<1>1. log \in Seq(Events) /\ Len(log) \in Nat
  <2>1. log \in Seq(Events)
    BY DEF TypeOK
  <2>2. QED
    BY <2>1
<1>2. Event(Nobody, "end") \in Events /\ Event(Nobody, "end").by = Nobody
  BY DEF Event, Events
<1>3. CASE Open(log)
  <2>1. m = Append(log, Event(Nobody, "end")) /\ DOMAIN log = 1 .. Len(log)
    BY <1>1, <1>3 DEF Balanced
  <2>2. Len(log) > 0
    BY <1>1, <1>3, <2>1 DEF Open
  <2>3. /\ Len(m) = Len(log) + 1 /\ \A i \in 1 .. Len(log) : m[i] = log[i]
        /\ m[Len(log) + 1].by = Nobody
    BY <1>1, <1>2, <2>1
  <2>4. \A i \in 1 .. Len(m) : i > Len(log) => i = Len(log) + 1
    BY <1>1, <2>3
  <2>5. QED
    BY <1>1, <2>2, <2>3, <2>4
<1>4. CASE ~Open(log)
  BY <1>1, <1>4 DEF Balanced
<1>5. QED
  BY <1>3, <1>4

\* A commit repairs the log, or takes it for a reservation.
LEMMA CommitsKeepHistories ==
    ASSUME Inv, Histories, NEW c \in Calls, CommitStale(c) \/ Commit(c)
    PROVE  Histories'
<1> USE CoordinatorAssumption
<1>1. TypeOK' /\ TypeOK /\ LosersHadNothing /\ Len(log) \in Nat
  BY NextKeepsInv, CallsAreNext, Numbered DEF Inv, Histories
<1>2. /\ AtFront("commit", c) /\ Ends /\ state.owner \notin Lifecycles
      /\ UNCHANGED <<events, init, sent, holder, retiring>>
  BY DEF CommitStale, Commit, Running, Unowned, lifeVars
<1>3. CASE Commit(c)
  <2>1. UNCHANGED log /\ state'.owner = Nobody /\ state'.materialized
    BY <1>3 DEF Commit, logVars, OwnedBy
  <2>2. Grows /\ \A i \in 1 .. Len(log') : i > Len(log) => log'[i].by \notin Lifecycles
    BY <1>1, <2>1 DEF Grows
  <2>3. state'.owner \notin Lifecycles
    BY <2>1
  <2>4. QED
    BY <1>1, <1>2, <2>1, <2>2, <2>3, ColdKeepsHistories
<1>4. CASE CommitStale(c)
  <2>1. state' = state /\ (log' = log \/ log' = Balanced(log))
    BY <1>4 DEF CommitStale, logVars
  <2>2. /\ Grows /\ \A i \in 1 .. Len(log') : i > Len(log) => log'[i].by \notin Lifecycles
        /\ Len(log) = 0 => log' = log
    <3>1. CASE log' = log
      BY <1>1, <3>1 DEF Grows
    <3>2. CASE log' = Balanced(log)
      BY <1>1, <3>2, BalancedGrows DEF Grows
    <3>3. QED
      BY <2>1, <3>1, <3>2
  <2>3. QED
    BY <1>1, <1>2, <2>1, <2>2, ColdKeepsHistories DEF LosersHadNothing
<1>5. QED
  BY <1>3, <1>4

\* A direct append is queued when no lifecycle is there.
LEMMA AppendCallKeepsHistories ==
    ASSUME Inv, Histories, NEW c \in Calls, AppendCall(c)
    PROVE  Histories'
<1> USE CoordinatorAssumption
<1>1. /\ TypeOK' /\ TypeOK /\ OwnersAgree /\ SentIsStored /\ RetireesHaveSent
      /\ AppendsAreFree /\ HistoriesAreOwn /\ LosersHadNothing /\ ThreatsAreReloads
  BY NextKeepsInv, CallsAreNext DEF Inv, Histories
<1>2. /\ Enqueue("append", c) /\ holder = Nobody
      /\ UNCHANGED <<log, events, init, sent, holder, retiring, state>>
      /\ \A s \in Lifecycles : init[s] = "none"
  BY DEF AppendCall, logVars, lifeVars, Live
<1>3. OwnersAgree' /\ SentIsStored' /\ LosersHadNothing'
  BY <1>1, <1>2 DEF OwnersAgree, SentIsStored, LosersHadNothing, Agree
<1>4. HistoriesAreOwn'
  BY <1>1, <1>2 DEF HistoriesAreOwn
<1>5. /\ DOMAIN chain = 1 .. Len(chain) /\ Len(chain) \in Nat
      /\ DOMAIN chain' = 1 .. Len(chain) + 1
      /\ \A i \in 1 .. Len(chain) : chain'[i] = chain[i]
      /\ chain'[Len(chain) + 1].op = "append" /\ chain'[Len(chain) + 1].of = c
  BY <1>1, <1>2, EnqueueAddsToTyped
<1>6. state.owner \notin Lifecycles
  BY <1>1, <1>2 DEF OwnersAgree
<1>7. \A i \in DOMAIN chain : chain[i].op \notin Initializations
  BY <1>2 DEF Inv, SessionsQueueOnce, OfSessions
<1>8. AppendsAreFree'
  BY <1>2, <1>5, <1>6, <1>7 DEF AppendsAreFree
<1>9. RetireesHaveSent'
  BY <1>1, <1>2, <1>5 DEF RetireesHaveSent, Agree
<1>10. ThreatsAreReloads'
  BY <1>2 DEF ThreatsAreReloads, Threat, GoesOn
<1>11. QED
  BY <1>3, <1>4, <1>8, <1>9, <1>10 DEF Histories

\* A direct append adopts and repairs a cold log, and adds to it.
LEMMA AppendsKeepHistories ==
    ASSUME Inv, Histories, NEW c \in Calls, AppendBegins(c) \/ AppendLands(c)
    PROVE  Histories'
<1> USE CoordinatorAssumption
<1>1. TypeOK' /\ TypeOK /\ LosersHadNothing /\ AppendsAreFree /\ log \in Seq(Events)
      /\ Len(log) \in Nat
  BY NextKeepsInv, CallsAreNext, Numbered DEF Inv, Histories, TypeOK
<1>2. /\ AtFront("append", c) /\ (UNCHANGED chain \/ Ends)
      /\ UNCHANGED <<events, init, sent, holder, retiring>>
  BY DEF AppendBegins, AppendLands, AtHead, Running, Begins, lifeVars
<1>3. state.owner \notin Lifecycles
  <2>1. chain \in Seq(Links) /\ chain # <<>> /\ Head(chain).op = "append"
    BY <1>1, <1>2 DEF TypeOK, AtFront
  <2>2. 1 \in DOMAIN chain /\ chain[1].op = "append"
    BY <2>1
  <2>3. QED
    BY <1>1, <2>2 DEF AppendsAreFree
<1>4. CASE AppendBegins(c)
  <2>1. CASE UNCHANGED <<log, state>>
    <3>1. Grows /\ \A i \in 1 .. Len(log') : i > Len(log) => log'[i].by \notin Lifecycles
      BY <1>1, <2>1 DEF Grows
    <3>2. state'.owner \notin Lifecycles
          /\ (state'.owner # "none" /\ ~state'.materialized => Len(log') = 0)
      BY <1>1, <1>3, <2>1 DEF LosersHadNothing
    <3>3. QED
      BY <1>1, <1>2, <1>3, <3>1, <3>2, ColdKeepsHistories
  <2>2. CASE log' = Balanced(log) /\ state' = OwnedBy(Nobody, Len(log'), TRUE)
    <3>1. Grows /\ \A i \in 1 .. Len(log') : i > Len(log) => log'[i].by \notin Lifecycles
      BY <1>1, <2>2, BalancedGrows DEF Grows
    <3>2. state'.owner \notin Lifecycles /\ state'.materialized
      BY <2>2 DEF OwnedBy
    <3>3. QED
      BY <1>1, <1>2, <1>3, <3>1, <3>2, ColdKeepsHistories
  <2>3. QED
    BY <1>4, <2>1, <2>2 DEF AppendBegins, logVars
<1>5. CASE AppendLands(c)
  <2>1. log' = Append(log, Event(c, "note")) /\ state'.owner = state.owner /\ state'.materialized
    BY <1>5 DEF AppendLands, OwnedBy
  <2>2. Event(c, "note") \in Events /\ Event(c, "note").by = c
    BY DEF Event, Events
  <2>3. Grows /\ \A i \in 1 .. Len(log') : i > Len(log) => log'[i].by \notin Lifecycles
    BY <1>1, <2>1, <2>2 DEF Grows
  <2>4. state'.owner \notin Lifecycles
    BY <1>3, <2>1
  <2>5. QED
    BY <1>1, <1>2, <1>3, <2>1, <2>3, <2>4, ColdKeepsHistories
<1>6. QED
  BY <1>4, <1>5

\* Nobody has a history at the start.
LEMMA InitImpliesHistories == Init => Histories
<1> SUFFICES ASSUME Init
             PROVE  Histories
  OBVIOUS
<1> USE CoordinatorAssumption
<1>1. /\ \A s \in Lifecycles : events[s] = <<>> /\ init[s] = "none" /\ retiring[s] = "no"
      /\ state = NoState /\ chain = <<>> /\ holder = Nobody
      /\ log \in {<<>>, <<Event(Nobody, "start")>>}
  BY DEF Init
<1>2. Len(log) \in Nat /\ \A i \in 1 .. Len(log) : log[i].by = Nobody
  BY <1>1 DEF Event
<1>3. OwnersAgree /\ SentIsStored /\ LosersHadNothing
  BY <1>1 DEF OwnersAgree, SentIsStored, LosersHadNothing, NoState
<1>4. RetireesHaveSent /\ AppendsAreFree
  BY <1>1 DEF RetireesHaveSent, AppendsAreFree
<1>5. HistoriesAreOwn
  BY <1>1, <1>2 DEF HistoriesAreOwn
<1>6. ThreatsAreReloads
  BY <1>1 DEF ThreatsAreReloads, Threat, GoesOn
<1>7. QED
  BY <1>3, <1>4, <1>5, <1>6 DEF Histories

\* A step that changes nothing.
LEMMA StutteringKeepsHistories ==
    ASSUME Histories, UNCHANGED vars
    PROVE  Histories'
<1>1. UNCHANGED <<log, events, init, state, holder, sent, retiring, chain, running, entry>>
  BY DEF vars, logVars, lifeVars
<1>2. OwnersAgree' /\ SentIsStored' /\ LosersHadNothing' /\ RetireesHaveSent'
  BY <1>1 DEF Histories, OwnersAgree, SentIsStored, LosersHadNothing, RetireesHaveSent, Agree
<1>3. HistoriesAreOwn' /\ AppendsAreFree'
  BY <1>1 DEF Histories, HistoriesAreOwn, AppendsAreFree
<1>4. ThreatsAreReloads'
  BY <1>1 DEF Histories, ThreatsAreReloads, Threat, GoesOn, Alone, Agree, AtHead, AtFront
<1>5. QED
  BY <1>2, <1>3, <1>4 DEF Histories

\* Every step keeps it.
LEMMA NextKeepsHistories == Inv /\ Histories /\ [Next]_vars => Histories'
<1> SUFFICES ASSUME Inv, Histories, [Next]_vars
             PROVE  Histories'
  OBVIOUS
<1>1. CASE UNCHANGED vars
  BY <1>1, StutteringKeepsHistories
<1>2. ASSUME NEW s \in Lifecycles, SessionOperation(s)
      PROVE  Histories'
  BY <1>2, CreatedKeepsHistories, SuffixKeepsHistories, QuietSessionsKeepHistories,
     WriteLandsKeepsHistories, RetireKeepsHistories DEF SessionOperation
<1>3. ASSUME NEW c \in Calls, CallOperation(c)
      PROVE  Histories'
  BY <1>3, QuietCallsKeepHistories, CommitsKeepHistories, AppendsKeepHistories
     DEF CallOperation
<1>4. ASSUME NEW s \in Lifecycles,
             CreateFresh(s) \/ Produce(s) \/ StartWrite(s) \/ Dispose(s) \/ Flushed(s)
      PROVE  Histories'
  BY <1>4, CreateFreshKeepsHistories, ProduceKeepsHistories, QuietSessionsKeepHistories,
     DisposeKeepsHistories
<1>5. ASSUME NEW c \in Calls,
             \/ Call(c) \/ TakeReady(c) \/ Check(c) \/ AppendCall(c) \/ Abort(c) \/ Release(c)
             \/ \E s \in Lifecycles : Publish(c, s)
      PROVE  Histories'
  BY <1>5, QuietCallsKeepHistories, AppendCallKeepsHistories, PublishKeepsHistories
<1>6. CASE Reload
  BY <1>6, ReloadKeepsHistories
<1>7. QED
  BY <1>1, <1>2, <1>3, <1>4, <1>5, <1>6 DEF Next, Operation

\* Both invariants together, as the second rests on the first.
LEMMA HistoriesAlways == Spec => [](Inv /\ Histories)
BY InitImpliesInv, NextKeepsInv, InitImpliesHistories, NextKeepsHistories, PTL DEF Spec

\* While a lifecycle owns the identity the log is a beginning of its history, and one that
\* retired left all of its history in the log, over every publication, restoration, direct
\* append, repair and reload (onCreated, attachPrepared, appendLiveBatch, retireCore).
THEOREM OneHistoryIsStored == Spec => []LogIsOwners
<1>1. Inv /\ Histories => LogIsOwners
  <2> SUFFICES ASSUME Inv, Histories
               PROVE  LogIsOwners
    OBVIOUS
  <2>1. TypeOK /\ OwnersAgree /\ RetireesHaveSent
    BY DEF Inv, Histories
  <2>2. QED
    BY <2>1, AgreeIsPrefix DEF LogIsOwners, OwnersAgree, RetireesHaveSent
<1>2. QED
  BY <1>1, HistoriesAlways, PTL

\* What a session stores is its own, and no closing on behalf of nobody.
LEMMA LandingsAreNoRepairs ==
    ASSUME TypeOK, TypeOK', HistoriesAreOwn, NEW s \in Lifecycles, NEW upto \in Nat,
           Len(log) <= upto, upto <= Len(events[s]), Agree(s, Len(log)),
           Lands(s, Len(log), upto), UNCHANGED events
    PROVE  ~Repairs
<1> USE CoordinatorAssumption
<1> SUFFICES ASSUME log' # log, log' = Balanced(log)
             PROVE  FALSE
  BY DEF Repairs
<1>1. Len(log') = upto /\ Agree(s, Len(log))'
  BY LandsAgrees
<1>2. /\ Len(log) \in Nat /\ Len(log') > Len(log)
      /\ \A i \in 1 .. Len(log') : i > Len(log) => log'[i].by = Nobody
  BY Numbered, BalancedGrows
<1>3. /\ Len(log') \in 1 .. Len(log') /\ Len(log') \in 1 .. Len(events[s])
      /\ events[s][Len(log')] = log'[Len(log')]
  BY <1>1, <1>2 DEF Agree
<1>4. events[s][Len(log')].by # s
  BY <1>2, <1>3
<1>5. Len(log') <= Len(log)
  BY <1>3, <1>4 DEF HistoriesAreOwn
<1>6. QED
  BY <1>1, <1>2, <1>5

\* Only a commit, or a direct append that adopts, repairs.
LEMMA CallsRepair ==
    ASSUME Inv, Histories, Next, Repairs
    PROVE  /\ Unowned /\ Len(log) > 0
           /\ \E c \in Calls, op \in {"commit", "append"} : AtFront(op, c)
<1> USE CoordinatorAssumption
<1>1. /\ TypeOK /\ TypeOK' /\ HistoriesAreOwn /\ AppendsAreFree /\ OwnersAgree /\ LosersHadNothing
      /\ Exact /\ Len(log) \in Nat
  BY NextKeepsInv, Numbered DEF Inv, Histories
<1>2. log' # log /\ log' = Balanced(log) /\ Len(log) > 0
  BY <1>1, BalancedGrows DEF Repairs
<1>3. ASSUME NEW s \in Lifecycles, SessionOperation(s)
      PROVE  FALSE
  <2>1. /\ sent[s] \in Nat /\ batch[s] \in Nat /\ Len(events[s]) \in Nat
        /\ sent[s] <= Len(events[s])
    BY <1>1, Numbered DEF Inv, SessionsQueueOnce
  <2>2. ASSUME NEW m, TakesOwnership(s, Len(log), m), Agree(s, Len(log)), UNCHANGED events
        PROVE  FALSE
    BY <1>1, <1>2, <2>1, <2>2, LandingsAreNoRepairs DEF TakesOwnership
  <2>3. CASE Created(s)
    <3>1. UNCHANGED events
      BY <2>3 DEF Created
    <3>2. CASE /\ ~Untracked /\ state.owner = Nobody
               /\ Covers(s, SubSeq(log, 1, state.cursor))
               /\ TakesOwnership(s, state.cursor, state.materialized)
      <4>1. state.cursor = Len(log) /\ SubSeq(log, 1, Len(log)) = log
        BY <1>1, <3>2 DEF Exact, TypeOK
      <4>2. QED
        BY <1>1, <2>1, <2>2, <3>1, <3>2, <4>1, PrefixAgrees DEF Covers
    <3>3. CASE Covers(s, log) /\ TakesOwnership(s, Len(log), TRUE)
      BY <1>1, <2>1, <2>2, <3>1, <3>3, PrefixAgrees DEF Covers
    <3>4. log # <<>>
      BY <1>2
    <3>5. QED
      BY <1>2, <2>3, <3>2, <3>3, <3>4 DEF Created
  <2>4. CASE Suffix(s)
    <3>1. /\ AtFront("suffix", s) /\ Ends /\ UNCHANGED events
          /\ state = OwnedBy(s, state.cursor, state.materialized)
          /\ Lands(s, state.cursor, sent[s])
      BY <1>2, <2>4 DEF Suffix, AtHead
    <3>2. 1 \in DOMAIN chain /\ chain[1].op = "suffix" /\ chain[1].of = s
      BY <1>1, <3>1, EndsRemovesFromTyped
    <3>3. state.owner = s
      BY <3>1 DEF OwnedBy
    <3>4. state.cursor = Len(log) /\ Len(log) <= sent[s] /\ Agree(s, Len(log))
      BY <1>1, <3>2, <3>3 DEF Inv, Exact, SuffixesFit, OwnersAgree
    <3>5. QED
      BY <1>1, <1>2, <2>1, <3>1, <3>4, LandingsAreNoRepairs DEF Repairs
  <2>5. CASE WriteLands(s)
    <3>1. /\ AtFront("write", s) /\ Ends /\ UNCHANGED events
          /\ state.cursor < batch[s] /\ Lands(s, state.cursor, batch[s])
      BY <1>2, <2>5 DEF WriteLands, Running
    <3>2. 1 \in DOMAIN chain /\ chain[1].op = "write" /\ chain[1].of = s
      BY <1>1, <3>1, EndsRemovesFromTyped
    <3>3. init[s] = "ready" /\ writing[s] # "no" /\ batch[s] <= Len(events[s])
      BY <3>2 DEF Inv, SessionsQueueOnce
    <3>4. state.owner = s
      BY <3>3 DEF Inv, WorkersOwn, HasWork
    <3>5. state.cursor = Len(log) /\ Agree(s, Len(log))
      BY <1>1, <3>4 DEF Exact, OwnersAgree
    <3>6. QED
      BY <1>1, <1>2, <2>1, <3>1, <3>3, <3>5, LandingsAreNoRepairs DEF Repairs
  <2>6. QED
    BY <1>2, <1>3, <2>3, <2>4, <2>5 DEF SessionOperation, WriteBegins, WriteFails, Retire,
       logVars
<1>4. ASSUME NEW c \in Calls, CallOperation(c)
      PROVE  Unowned /\ \E op \in {"commit", "append"} : AtFront(op, c)
  <2>1. CASE CommitStale(c)
    BY <2>1 DEF CommitStale, Running
  <2>2. CASE AppendBegins(c)
    <3>1. state = NoState /\ AtFront("append", c)
      BY <1>2, <2>2 DEF AppendBegins, logVars, AtHead
    <3>2. QED
      BY <3>1 DEF Unowned, NoState
  <2>3. CASE AppendLands(c)
    <3>1. log' = Append(log, Event(c, "note")) /\ Event(c, "note") \in Events
          /\ Event(c, "note").by = c /\ log \in Seq(Events)
      BY <1>1, <2>3 DEF AppendLands, Event, Events, TypeOK
    <3>2. Len(log') = Len(log) + 1 /\ log'[Len(log) + 1].by = c
      BY <3>1
    <3>3. log'[Len(log) + 1].by = Nobody
      BY <1>1, <1>2, <3>2, BalancedGrows
    <3>4. QED
      BY <3>2, <3>3
  <2>4. QED
    BY <1>2, <1>4, <2>1, <2>2, <2>3 DEF CallOperation, Load, LoadFails, CommitBegins,
       CommitFails,
       Commit, Current, Dropped, AppendFails, logVars
<1>5. \A s \in Lifecycles :
         ~(CreateFresh(s) \/ Produce(s) \/ StartWrite(s) \/ Dispose(s) \/ Flushed(s))
  BY <1>2 DEF CreateFresh, Published, Produce, StartWrite, Dispose, Flushed, logVars
<1>6. \A c \in Calls :
         ~(\/ Call(c) \/ TakeReady(c) \/ Check(c) \/ AppendCall(c) \/ Abort(c) \/ Release(c)
           \/ \E s \in Lifecycles : Publish(c, s))
  BY <1>2 DEF Call, TakeReady, Check, AppendCall, Abort, Release, Publish, Published, logVars
<1>7. ~Reload
  BY <1>2 DEF Reload, logVars
<1>8. QED
  BY <1>2, <1>3, <1>4, <1>5, <1>6, <1>7 DEF Next, Operation

\* Nobody's turn is closed for him: when an interrupted turn is closed on behalf of nobody,
\* no session in the store or behind a controller that can still write goes on from that
\* log (commitPrepared and adopt against adoptLivePrefix and retire).
THEOREM TheLivingCloseTheirOwn == Spec => RepairSparesTheLiving
<1>1. Inv /\ Histories /\ [Next]_vars
        => [Repairs => \A s \in Lifecycles : GoesOn(s) => ~IsPrefix(log, events[s])]_vars
  <2> SUFFICES ASSUME Inv, Histories, Next, Repairs, NEW s \in Lifecycles, GoesOn(s),
                      IsPrefix(log, events[s])
               PROVE  FALSE
    OBVIOUS
  <2>1. PICK c \in Calls, op \in {"commit", "append"} : AtFront(op, c)
    BY CallsRepair
  <2>2. Unowned /\ Len(log) > 0
    BY CallsRepair
  <2>3. Agree(s, Len(log))
    BY AgreeIsPrefix DEF Inv
  <2>4. Threat(s)
    BY <2>2, <2>3 DEF Threat, Unowned
  <2>5. QED
    BY <2>1, <2>4, NoThreat DEF Histories
<1>2. QED
  BY <1>1, HistoriesAlways, PTL DEF Spec, RepairSparesTheLiving
===============================================================================
