------------------------------ MODULE Coordinator ------------------------------
(***************************************************************************)
(* The persistence coordinator at one identity: lifecycles of live         *)
(* sessions that follow one another, calls that restore, load or inspect   *)
(* the stored log, and direct writers.                                     *)
(*                                                                         *)
(* Operations on the log are serialized in a chain.  A commit and an       *)
(* append are running from the moment they looked at the bookkeeping until *)
(* the backend has answered, and what is not serialized may come in        *)
(* between: publications, disposals, aborts, reservations.  The write      *)
(* path of a session is reduced to one write at a time (see WriteBehind).  *)
(*                                                                         *)
(* A direct writer is taken to touch only an identity with no lifecycle,   *)
(* and no other process to write the log; format versions, legacy events   *)
(* and working directories are left out, the eviction of ready             *)
(* preparations, create() and readFrom() too.                              *)
(***************************************************************************)
EXTENDS Naturals, Sequences, SequencesExt

CONSTANTS
    Lifecycles,         \* Session objects that may be published
    Calls,              \* calls of the service
    Nobody,
    MaxEvents,          \* bound on the events of one lifecycle
    MaxReloads          \* bound on the reloads of the plugin under a live session

ASSUME CoordinatorAssumption ==
    /\ Nobody \notin Lifecycles \cup Calls
    /\ "none" \notin Lifecycles \cup {Nobody}      \* the owner of NoState
    /\ Lifecycles \cap Calls = {}
    /\ MaxEvents \in Nat /\ MaxReloads \in Nat

VARIABLES
    \* The log in the backend.
    log,                \* its events
    torn,               \* a torn tail lies behind them
    \* The lifecycles.
    holder,             \* whom the session store holds
    events,             \* the history of each
    init,               \* initialization: "none", "pending", "ready" or "failed"
    sent,               \* how much initialization and the writes took over
    writing,            \* the write: "no", "background" or "barrier"
    batch,              \* how far it reaches
    retiring,           \* "no", "flushing", "queued", "done" or "failed"
    retirement,         \* the lifecycle whose retirement a call would wait for
    \* The bookkeeping.
    state,              \* the session state, or NoState
    entry,              \* the preparation, or NoEntry
    chain,              \* the serialized operations
    running,            \* the head of the chain awaits the backend
    reloads,
    \* The calls.
    kind,               \* "prepare", "load", "inspect" or "append"
    call,               \* where each is
    on,                 \* whose load, or whose retirement, it awaits
    source,             \* the log it was shown
    aborted             \* those given up

logVars  == <<log, torn>>
lifeVars == <<events, init, sent, writing, batch, retiring>>
callVars == <<kind, on, source, aborted>>
vars == <<logVars, holder, lifeVars, retirement, state, entry, chain, running, reloads, call,
          callVars>>

-----------------------------------------------------------------------------

Event(by, what) == [by |-> by, what |-> what]
Events == [by : Lifecycles \cup Calls \cup {Nobody}, what : {"start", "end", "note"}]
Sources == [log : Seq(Events), torn : BOOLEAN]

NoState == [cursor |-> 0, materialized |-> FALSE, owner |-> "none"]
NoEntry == [phase |-> "none"]
Stored == [log |-> log, torn |-> torn]
Unread == [log |-> <<>>, torn |-> FALSE]

\* The lifecycles with a write controller.
Live == {s \in Lifecycles : init[s] # "none"}

States == {NoState} \cup [cursor : Nat, materialized : BOOLEAN, owner : Lifecycles \cup {Nobody}]
Entries == {NoEntry} \cup [phase : {"loading", "ready", "committing", "reserved"}, by : Calls,
                          source : Sources]
Operations == {"created", "suffix", "write", "retire", "load", "commit", "current", "append"}
Links == [op : Operations, of : Lifecycles \cup Calls]
Places == {"idle", "again", "drain", "enter", "join", "await", "check", "queued", "reserved",
           "done", "rejected"}

TypeOK ==
    /\ log \in Seq(Events) /\ torn \in BOOLEAN
    /\ holder \in Lifecycles \cup {Nobody}
    /\ events \in [Lifecycles -> Seq(Events)]
    /\ init \in [Lifecycles -> {"none", "pending", "ready", "failed"}]
    /\ sent \in [Lifecycles -> Nat] /\ batch \in [Lifecycles -> Nat]
    /\ writing \in [Lifecycles -> {"no", "background", "barrier"}]
    /\ retiring \in [Lifecycles -> {"no", "flushing", "queued", "done", "failed"}]
    /\ retirement \in Lifecycles \cup {Nobody}
    /\ state \in States /\ entry \in Entries
    /\ chain \in Seq(Links)
    /\ running \in BOOLEAN /\ reloads \in 0..MaxReloads
    /\ kind \in [Calls -> {"prepare", "load", "inspect", "append"}]
    /\ call \in [Calls -> Places]
    /\ on \in [Calls -> Lifecycles \cup Calls \cup {Nobody}]
    /\ source \in [Calls -> Sources]
    /\ aborted \subseteq Calls

\* A turn is open at the end of a log.
Open(l) == \E i \in DOMAIN l : l[i].what = "start"
                               /\ \A j \in DOMAIN l : j > i => l[j].what # "end"

\* The log with what interruptedTurnClosers() adds.
Balanced(l) == IF Open(l) THEN Append(l, Event(Nobody, "end")) ELSE l

\* A process starts on what an earlier one left.
Init ==
    /\ log \in {<<>>, <<Event(Nobody, "start")>>}
    /\ torn \in {t \in BOOLEAN : log = <<>> => ~t}
    /\ holder = Nobody /\ retirement = Nobody
    /\ events = [s \in Lifecycles |-> <<>>]
    /\ init = [s \in Lifecycles |-> "none"]
    /\ sent = [s \in Lifecycles |-> 0] /\ batch = sent
    /\ writing = [s \in Lifecycles |-> "no"] /\ retiring = writing
    /\ state = NoState /\ entry = NoEntry
    /\ chain = <<>> /\ running = FALSE /\ reloads = 0
    /\ kind \in [Calls -> {"prepare", "load", "inspect", "append"}]
    /\ call = [c \in Calls |-> "idle"]
    /\ on = [c \in Calls |-> Nobody]
    /\ source = [c \in Calls |-> Unread]
    /\ aborted = {}

\* serialize(), and the head of the chain before and after it looked at the bookkeeping.
Enqueue(op, of) == chain' = Append(chain, [op |-> op, of |-> of])
AtFront(op, of) == chain # <<>> /\ Head(chain) = [op |-> op, of |-> of]
AtHead(op, of) == AtFront(op, of) /\ ~running
Running(op, of) == AtFront(op, of) /\ running
Begins == running' = TRUE /\ UNCHANGED chain
Ends == running' = FALSE /\ chain' = Tail(chain)

Goes(c, p) == call' = [call EXCEPT ![c] = p]

\* Faulty: the waiters are not woken.
RemovesQuietly(c, p) ==
    /\ entry' = NoEntry
    /\ call' = [d \in Calls |-> IF d = c THEN p ELSE call[d]]

\* remove(): the calls that wait for the preparation to be free try again, and c goes to p.
Removes(c, p) ==
    /\ entry' = NoEntry
    /\ call' = [d \in Calls |-> IF d = c THEN p ELSE IF call[d] = "await" THEN "again" ELSE call[d]]

\* invalidate(), by a session.
Invalidates == Removes(Nobody, "idle")

\* remove() by the call that committed or reserved the preparation, if it still has it.
Mine(c) == entry # NoEntry /\ entry.phase \in {"committing", "reserved"} /\ entry.by = c
GivesUp(c, p) == IF Mine(c) THEN Removes(c, p) ELSE Goes(c, p) /\ UNCHANGED entry

\* assertWritable()
Writable == entry = NoEntry \/ entry.phase \notin {"committing", "reserved"}

HasWork(s) == sent[s] < Len(events[s]) \/ writing[s] # "no"

-----------------------------------------------------------------------------
(***************************************************************************)
(* Lifecycles.                                                             *)
(***************************************************************************)

Admits(s) == holder = Nobody /\ retiring[s] = "no" /\ init[s] = "none"

Published(s, history) ==
    /\ holder' = s
    /\ events' = [events EXCEPT ![s] = history]
    /\ sent' = [sent EXCEPT ![s] = Len(history)]
    /\ init' = [init EXCEPT ![s] = "pending"]
    /\ UNCHANGED <<logVars, writing, batch, retiring, retirement, running, reloads, callVars>>

\* A fresh session, or one with a seed of its own, is published under the identity;
\* reservationFor() refuses while a preparation is there.
CreateFresh(s) ==
    /\ Admits(s) /\ entry = NoEntry
    /\ \E history \in {<<>>, <<Event(s, "note")>>} : Published(s, history)
    /\ Enqueue("created", s)
    /\ UNCHANGED <<state, entry, call>>

\* The session of a reservation is published (attachPrepared); its constructor marked the
\* end of the seed, and that mark is to be stored.
Publish(c, s) ==
    /\ Admits(s) /\ call[c] = "reserved" /\ Mine(c)
    /\ state.owner = Nobody /\ state.cursor = Len(entry.source.log)
    /\ Published(s, Append(entry.source.log, Event(s, "note")))
    /\ Removes(c, "done")
    /\ state' = [state EXCEPT !.owner = s]
    /\ Enqueue("suffix", s)

\* The live session appends.
Produce(s) ==
    /\ holder = s /\ Len(SelectSeq(events[s], LAMBDA e : e.by = s)) < MaxEvents
    /\ events' = [events EXCEPT ![s] = Append(@, Event(s, IF Open(@) THEN "end" ELSE "start"))]
    /\ UNCHANGED <<logVars, holder, init, sent, writing, batch, retiring, retirement, state,
                   entry, chain, running, reloads, call, callVars>>

\* The controller starts a write of all that is pending.
StartWrite(s) ==
    /\ init[s] = "ready" /\ retiring[s] \in {"no", "flushing"}
    /\ writing[s] = "no" /\ HasWork(s)
    /\ writing' = [writing EXCEPT ![s] = IF retiring[s] = "no" THEN "background" ELSE "barrier"]
    /\ batch' = [batch EXCEPT ![s] = Len(events[s])]
    /\ Enqueue("write", s)
    /\ UNCHANGED <<logVars, holder, events, init, sent, retiring, retirement, state, entry,
                   running, reloads, call, callVars>>

\* The session leaves the store, and retire() starts its final flush.
Dispose(s) ==
    /\ holder = s /\ holder' = Nobody
    /\ retiring' = [retiring EXCEPT ![s] = "flushing"] /\ retirement' = s
    /\ UNCHANGED <<logVars, events, init, sent, writing, batch, state, entry, chain, running,
                   reloads, call, callVars>>

\* A retirement has ended: the calls that wait for it go on, or reject with it.
Settles(s, p) ==
    /\ retiring' = [retiring EXCEPT ![s] = p]
    /\ retirement' = IF retirement = s THEN Nobody ELSE retirement
    /\ call' = [c \in Calls |-> IF call[c] = "drain" /\ on[c] = s
                                  THEN IF p = "failed" THEN "rejected" ELSE "enter"
                                  ELSE call[c]]

\* The final flush has ended.
Flushed(s) ==
    /\ retiring[s] = "flushing"
    /\ \/ init[s] = "failed" /\ Settles(s, "failed") /\ UNCHANGED chain
       \/ /\ init[s] = "ready" /\ ~HasWork(s)
          /\ retiring' = [retiring EXCEPT ![s] = "queued"]
          /\ Enqueue("retire", s)
          /\ UNCHANGED <<retirement, call>>
    /\ UNCHANGED <<logVars, holder, events, init, sent, writing, batch, state, entry, running,
                   reloads, callVars>>

\* The plugin is reloaded when its work is done: the new coordinator knows nothing, and
\* takes the history of a live session from the session.
Reload ==
    /\ reloads < MaxReloads /\ reloads' = IF holder = Nobody THEN reloads ELSE reloads + 1
    /\ chain = <<>> /\ retirement = Nobody
    /\ \A s \in Lifecycles : init[s] = "ready" => ~HasWork(s)
    /\ \A c \in Calls : call[c] \in {"idle", "done", "rejected"}
    /\ state' = NoState /\ entry' = NoEntry
    /\ init' = [s \in Lifecycles |-> IF s = holder THEN "pending" ELSE "none"]
    /\ sent' = [s \in Lifecycles |-> IF s = holder THEN Len(events[s]) ELSE sent[s]]
    /\ IF holder = Nobody THEN UNCHANGED chain ELSE Enqueue("created", holder)
    /\ UNCHANGED <<logVars, holder, events, writing, batch, retiring, retirement, running, call,
                   callVars>>

-----------------------------------------------------------------------------
(***************************************************************************)
(* The operations of sessions in the chain.                                *)
(***************************************************************************)

OwnedBy(s, cursor, materialized) == [cursor |-> cursor, materialized |-> materialized, owner |-> s]

\* appendCore() by a session, of its history from its cursor on, within one operation.
Lands(s, cursor, upto) ==
    /\ log' = log \o SubSeq(events[s], cursor + 1, upto)
    /\ state' = OwnedBy(s, upto, TRUE)
    /\ Invalidates

\* Faulty: the cursor is moved before the backend has answered.
TakesOwnershipAhead(s, cursor, materialized) ==
    \/ /\ sent[s] > cursor /\ Writable
       /\ init' = [init EXCEPT ![s] = "ready"]
       /\ Lands(s, cursor, sent[s])
    \/ /\ init' = [init EXCEPT ![s] = IF sent[s] > cursor THEN "failed" ELSE "ready"]
       /\ state' = OwnedBy(s, sent[s], materialized)
       /\ UNCHANGED <<log, entry, call>>

\* Initialization took s as the owner at a cursor and stores the rest of the seed; it fails
\* when the identity is not writable, or in the backend.
TakesOwnership(s, cursor, materialized) ==
    \/ /\ sent[s] = cursor
       /\ init' = [init EXCEPT ![s] = "ready"]
       /\ state' = OwnedBy(s, cursor, materialized)
       /\ UNCHANGED <<log, entry, call>>
    \/ /\ sent[s] > cursor /\ Writable
       /\ init' = [init EXCEPT ![s] = "ready"]
       /\ Lands(s, cursor, sent[s])
    \/ /\ sent[s] > cursor
       /\ init' = [init EXCEPT ![s] = "failed"]
       /\ state' = OwnedBy(s, cursor, materialized)
       /\ UNCHANGED <<log, entry, call>>

\* Faulty: only the lengths are compared.
CoversLength(s, prefix) == Len(prefix) <= sent[s]

\* seedCoversPrefix(), of the events initialization took over.
Covers(s, prefix) == IsPrefix(prefix, SubSeq(events[s], 1, sent[s]))

\* The state of a session that never stored anything, and has nothing to store.
Abandoned == /\ state.owner \in Lifecycles /\ ~state.materialized
             /\ ~(init[state.owner] # "none" /\ HasWork(state.owner))

\* onCreated(): s claims a state without owner, adopts the log as a live prefix, or is new;
\* otherwise, or when the backend fails, it collides.
Untracked == state = NoState \/ Abandoned
Created(s) ==
    /\ AtHead("created", s) /\ Ends
    /\ \/ /\ ~Untracked /\ state.owner = Nobody /\ Covers(s, SubSeq(log, 1, state.cursor))
          /\ TakesOwnership(s, state.cursor, state.materialized) /\ UNCHANGED torn
       \/ /\ Untracked /\ log # <<>> /\ Covers(s, log)
          /\ TakesOwnership(s, Len(log), TRUE) /\ torn' = FALSE
       \/ /\ Untracked /\ log = <<>> /\ entry = NoEntry
          /\ TakesOwnership(s, 0, FALSE) /\ UNCHANGED torn
       \/ /\ init' = [init EXCEPT ![s] = "failed"]
          /\ state' = IF Abandoned THEN NoState ELSE state
          /\ UNCHANGED <<log, torn, entry, call>>
    /\ UNCHANGED <<holder, events, sent, writing, batch, retiring, retirement, reloads, callVars>>

\* The initialization of a restored session.
Suffix(s) ==
    /\ AtHead("suffix", s) /\ Ends
    /\ \/ /\ Writable /\ state = OwnedBy(s, state.cursor, state.materialized)
          /\ init' = [init EXCEPT ![s] = "ready"]
          /\ Lands(s, state.cursor, sent[s])
       \/ /\ init' = [init EXCEPT ![s] = "failed"]
          /\ UNCHANGED <<log, state, entry, call>>
    /\ UNCHANGED <<torn, holder, events, sent, writing, batch, retiring, retirement, reloads,
                   callVars>>

WriteBegins(s) ==
    /\ AtHead("write", s) /\ Writable /\ Begins
    /\ UNCHANGED <<logVars, holder, lifeVars, retirement, state, entry, reloads, call, callVars>>

\* appendLiveBatch() has stored what initialization had not.
WriteLands(s) ==
    /\ Running("write", s) /\ Ends
    /\ IF state.cursor < batch[s] THEN Lands(s, state.cursor, batch[s])
       ELSE UNCHANGED <<log, state, entry, call>>
    /\ sent' = [sent EXCEPT ![s] = batch[s]]
    /\ writing' = [writing EXCEPT ![s] = "no"]
    /\ UNCHANGED <<torn, holder, events, init, batch, retiring, retirement, reloads, callVars>>

\* It rejects: what it held goes back, and a barrier fails the retirement with it.
WriteFails(s) ==
    /\ AtFront("write", s) /\ (running \/ ~Writable) /\ Ends
    /\ IF writing[s] = "barrier" THEN Settles(s, "failed")
       ELSE UNCHANGED <<retiring, retirement, call>>
    /\ writing' = [writing EXCEPT ![s] = "no"]
    /\ UNCHANGED <<logVars, holder, events, init, sent, batch, state, entry, reloads, callVars>>

\* The end of retireCore(): the controller is gone.
Retire(s) ==
    /\ AtHead("retire", s) /\ Ends
    /\ init' = [init EXCEPT ![s] = "none"]
    /\ sent' = [sent EXCEPT ![s] = 0] /\ batch' = [batch EXCEPT ![s] = 0]
    /\ state' = IF state.owner = s THEN NoState ELSE state
    /\ Settles(s, "done")
    /\ UNCHANGED <<logVars, holder, events, writing, entry, reloads, callVars>>

-----------------------------------------------------------------------------
(***************************************************************************)
(* Calls: prepare(), load() and inspect().                                 *)
(***************************************************************************)

Retry(c) == IF c \in aborted THEN "rejected" ELSE "again"

\* The answer to a call that finds a live session.
OnLive(c) == IF kind[c] = "prepare" THEN "rejected" ELSE "done"

\* What the call does after waitForRetirement(); entryFor().
Enter(c) ==
    IF holder # Nobody THEN Goes(c, OnLive(c)) /\ UNCHANGED <<entry, chain, on, source>>
    ELSE IF entry = NoEntry
    THEN /\ entry' = [phase |-> "loading", by |-> c, source |-> Unread]
         /\ Enqueue("load", c)
         /\ Goes(c, "join") /\ on' = [on EXCEPT ![c] = c] /\ UNCHANGED source
    ELSE IF entry.phase = "loading"
    THEN Goes(c, "join") /\ on' = [on EXCEPT ![c] = entry.by] /\ UNCHANGED <<entry, chain, source>>
    ELSE /\ Goes(c, IF kind[c] = "inspect" THEN "check" ELSE "await")
         /\ source' = [source EXCEPT ![c] = entry.source]
         /\ UNCHANGED <<entry, chain, on>>

Call(c) ==
    /\ kind[c] # "append"
    /\ \/ /\ call[c] \in {"idle", "again"}
          /\ IF retirement = Nobody THEN Enter(c)
             ELSE Goes(c, "drain") /\ on' = [on EXCEPT ![c] = retirement]
                  /\ UNCHANGED <<entry, chain, source>>
       \/ call[c] = "enter" /\ Enter(c)
    /\ UNCHANGED <<logVars, holder, lifeVars, retirement, state, running, reloads, kind, aborted>>

Joined(c) == {d \in Calls : call[d] = "join" /\ on[d] = c}
Loads(c) == entry # NoEntry /\ entry.phase = "loading" /\ entry.by = c

\* prepareCore() answered: the calls that joined go on with its source, those that want
\* the reservation only if the preparation is still the one they joined.
Load(c) ==
    /\ AtHead("load", c) /\ Ends /\ log # <<>>
    /\ entry' = IF Loads(c) THEN [phase |-> "ready", by |-> c, source |-> Stored] ELSE entry
    /\ call' = [d \in Calls |-> IF d \notin Joined(c) THEN call[d]
                                ELSE IF kind[d] = "inspect" THEN "check"
                                ELSE IF Loads(c) THEN "await" ELSE "again"]
    /\ source' = [d \in Calls |-> IF d \in Joined(c) THEN Stored ELSE source[d]]
    /\ UNCHANGED <<logVars, holder, lifeVars, retirement, state, reloads, kind, on, aborted>>

\* It rejects: there is no log, or it cannot be read.
LoadFails(c) ==
    /\ AtHead("load", c) /\ Ends
    /\ entry' = IF Loads(c) THEN NoEntry ELSE entry
    /\ call' = [d \in Calls |-> IF d \notin Joined(c) THEN call[d]
                                ELSE IF kind[d] = "inspect" /\ holder # Nobody THEN "done"
                                ELSE "rejected"]
    /\ UNCHANGED <<logVars, holder, lifeVars, retirement, state, reloads, callVars>>

\* A call that waits for the preparation finds it ready, and commits it.
TakeReady(c) ==
    /\ call[c] = "await" /\ entry.phase = "ready"
    /\ entry' = [entry EXCEPT !.phase = "committing", !.by = c]
    /\ source' = [source EXCEPT ![c] = entry.source]
    /\ Enqueue("commit", c)
    /\ Goes(c, "queued")
    /\ UNCHANGED <<logVars, holder, lifeVars, retirement, state, running, reloads, kind, on,
                   aborted>>

CommitBegins(c) ==
    /\ AtHead("commit", c) /\ call[c] = "queued" /\ Begins
    /\ UNCHANGED <<logVars, holder, lifeVars, retirement, state, entry, reloads, call, callVars>>

\* Faulty: the owner is not asked for, or a damaged log is reserved without its repair.
AnyOwner == TRUE
NeverDamaged(c) == FALSE

\* isPreparedSourceCurrent(), and no session owns the identity.
IsCurrent(c) == source[c] = Stored
Unowned == state.owner \notin Lifecycles
Damaged(c) == source[c].torn \/ Open(source[c].log)

\* commitPrepared() gives no state: the log is not the one that was read, or now repaired.
CommitStale(c) ==
    /\ Running("commit", c) /\ Ends /\ Unowned
    /\ \/ ~IsCurrent(c) /\ UNCHANGED logVars
       \/ IsCurrent(c) /\ Damaged(c) /\ log' = Balanced(log) /\ torn' = FALSE
    /\ GivesUp(c, Retry(c))
    /\ UNCHANGED <<holder, lifeVars, retirement, state, reloads, callVars>>

\* It rejects: the identity has an owner, or the backend failed.
CommitFails(c) ==
    /\ Running("commit", c) /\ Ends
    /\ GivesUp(c, "rejected")
    /\ UNCHANGED <<logVars, holder, lifeVars, retirement, state, reloads, callVars>>

\* It gives the state, and the call has the reservation, unless it was aborted, the
\* preparation was invalidated, or a session is live.
Commit(c) ==
    /\ Running("commit", c) /\ Ends /\ Unowned
    /\ IsCurrent(c) /\ ~Damaged(c)
    /\ state' = OwnedBy(Nobody, Len(source[c].log), TRUE)
    /\ IF c \in aborted
       THEN /\ entry' = IF Mine(c) THEN [entry EXCEPT !.phase = "ready"] ELSE entry
            /\ Goes(c, "rejected")
       ELSE IF ~Mine(c) THEN Goes(c, "again") /\ UNCHANGED entry
       ELSE IF holder # Nobody THEN Removes(c, OnLive(c))
       ELSE IF kind[c] = "load" THEN Removes(c, "done")
       ELSE entry' = [entry EXCEPT !.phase = "reserved"] /\ Goes(c, "reserved")
    /\ UNCHANGED <<logVars, holder, lifeVars, retirement, reloads, callVars>>

\* The holder of a reservation gives it back; it cannot be used again if its session has
\* gone on.
Release(c) ==
    /\ call[c] = "reserved"
    /\ \/ Removes(c, "done")
       \/ entry' = [entry EXCEPT !.phase = "ready"] /\ Goes(c, "done")
    /\ UNCHANGED <<logVars, holder, lifeVars, retirement, state, chain, running, reloads,
                   callVars>>

\* An inspection has its source, and asks whether it is current.
Check(c) ==
    /\ call[c] = "check"
    /\ IF holder # Nobody THEN Goes(c, "done") /\ UNCHANGED chain
       ELSE Goes(c, "queued") /\ Enqueue("current", c)
    /\ UNCHANGED <<logVars, holder, lifeVars, retirement, state, entry, running, reloads, callVars>>

\* The answer; a stale source is discarded unless a reservation retains it.
Current(c) ==
    /\ AtHead("current", c) /\ call[c] = "queued" /\ Ends
    /\ LET found == entry # NoEntry /\ entry.phase # "loading" /\ entry.source = source[c] IN
       IF holder # Nobody \/ IsCurrent(c) \/ (found /\ entry.phase # "ready")
       THEN Goes(c, "done") /\ UNCHANGED entry
       ELSE IF found THEN Removes(c, "again") ELSE Goes(c, "again") /\ UNCHANGED entry
    /\ UNCHANGED <<logVars, holder, lifeVars, retirement, state, reloads, callVars>>

\* An operation of the chain whose call was aborted before it started.
Dropped(c) ==
    /\ (AtHead("commit", c) \/ AtHead("current", c)) /\ call[c] # "queued" /\ Ends
    /\ UNCHANGED <<logVars, holder, lifeVars, retirement, state, entry, reloads, call, callVars>>

\* The signal of a call: it rejects at once, except while its commit is running.
Abort(c) ==
    /\ kind[c] \in {"prepare", "inspect"} /\ c \notin aborted
    /\ call[c] \notin {"idle", "reserved", "done", "rejected"}
    /\ aborted' = aborted \cup {c}
    /\ IF Running("commit", c) THEN UNCHANGED <<entry, call>> ELSE GivesUp(c, "rejected")
    /\ UNCHANGED <<logVars, holder, lifeVars, retirement, state, chain, running, reloads, kind,
                   on, source>>

-----------------------------------------------------------------------------
(***************************************************************************)
(* Direct writers: append(), of one event that continues the log they saw. *)
(***************************************************************************)

AppendCall(c) ==
    /\ kind[c] = "append" /\ call[c] = "idle"
    /\ holder = Nobody /\ Live = {} /\ \A d \in Calls : ~Mine(d)
    /\ Len(log) < MaxEvents
    /\ source' = [source EXCEPT ![c] = Stored]
    /\ Goes(c, "queued") /\ Enqueue("append", c)
    /\ UNCHANGED <<logVars, holder, lifeVars, retirement, state, entry, running, reloads, kind,
                   on, aborted>>

\* appendCore() up to the backend's answer: a cold identity is adopted, and repaired; the
\* event must continue what is then stored.
AppendBegins(c) ==
    /\ AtHead("append", c) /\ Writable
    /\ IF state # NoState THEN UNCHANGED <<logVars, state>>
       ELSE /\ log # <<>>
            /\ log' = Balanced(log) /\ torn' = FALSE
            /\ state' = OwnedBy(Nobody, Len(log'), TRUE)
    /\ LET continues == Len(source[c].log) = state'.cursor
           p == IF continues THEN "queued" ELSE "rejected"
       IN /\ IF continues THEN Begins ELSE Ends
          /\ IF state = NoState /\ entry # NoEntry /\ entry.phase = "ready"
               THEN Removes(c, p)               \* takeReady()
               ELSE Goes(c, p) /\ UNCHANGED entry
    /\ UNCHANGED <<holder, lifeVars, retirement, reloads, callVars>>

AppendLands(c) ==
    /\ Running("append", c) /\ Ends
    /\ log' = Append(log, Event(c, "note"))
    /\ state' = OwnedBy(state.owner, state.cursor + 1, TRUE)
    /\ Removes(c, "done")
    /\ UNCHANGED <<torn, holder, lifeVars, retirement, reloads, callVars>>

\* Not writable, not stored, or the backend failed.
AppendFails(c) ==
    /\ AtFront("append", c) /\ Ends
    /\ Goes(c, "rejected")
    /\ UNCHANGED <<logVars, holder, lifeVars, retirement, state, entry, reloads, callVars>>

-----------------------------------------------------------------------------

SessionOperation(s) ==
    Created(s) \/ Suffix(s) \/ WriteBegins(s) \/ WriteLands(s) \/ WriteFails(s) \/ Retire(s)

CallOperation(c) ==
    \/ Load(c) \/ LoadFails(c)
    \/ CommitBegins(c) \/ CommitStale(c) \/ CommitFails(c) \/ Commit(c)
    \/ Current(c) \/ Dropped(c)
    \/ AppendBegins(c) \/ AppendLands(c) \/ AppendFails(c)

Operation == (\E s \in Lifecycles : SessionOperation(s)) \/ (\E c \in Calls : CallOperation(c))

Next ==
    \/ Operation
    \/ \E s \in Lifecycles :
         CreateFresh(s) \/ Produce(s) \/ StartWrite(s) \/ Dispose(s) \/ Flushed(s)
    \/ \E c \in Calls :
         \/ Call(c) \/ TakeReady(c) \/ Check(c) \/ AppendCall(c) \/ Abort(c) \/ Release(c)
         \/ \E s \in Lifecycles : Publish(c, s)
    \/ Reload

Spec == Init /\ [][Next]_vars

-----------------------------------------------------------------------------

\* While a lifecycle owns the identity, the log is a beginning of its history: a stored log
\* is never continued by a session that did not start from it, whatever was published,
\* restored, reloaded or appended before (onCreated, attachPrepared, appendLiveBatch).  And
\* a lifecycle that retired left its whole history in the log.
LogIsOwners ==
    /\ state.owner \in Lifecycles => IsPrefix(log, events[state.owner])
    /\ \A s \in Lifecycles : retiring[s] = "done" => IsPrefix(events[s], log)

\* The cursor that sequence numbers are checked against is the length of the stored log,
\* over every claim, adoption, repair and failed write.
CursorIsExact == state # NoState => state.cursor = Len(log) /\ ~torn

\* What a call reserved is the log as it is stored, balanced and without owner, until the
\* reservation is used or given back.
ReservationIsCurrent ==
    \A c \in Calls : call[c] = "reserved" =>
        /\ Mine(c) /\ entry.source = Stored
        /\ ~torn /\ ~Open(log)
        /\ state = OwnedBy(Nobody, Len(log), TRUE)

\* An interrupted turn is closed on behalf of nobody only when no session goes on from the
\* stored log, in the store or behind a controller that can still write: it could end that
\* turn itself (commitPrepared and adopt against adoptLivePrefix and retire).
Repairs == log' # log /\ log' = Balanced(log)
GoesOn(s) == holder = s \/ init[s] \in {"pending", "ready"}
RepairSparesTheLiving ==
    [][Repairs => \A s \in Lifecycles : GoesOn(s) => ~IsPrefix(log, events[s])]_vars

\* Nobody waits for what will not come: a load that was joined, the commit or reservation of
\* a preparation, a retirement, a place in the chain; whatever was removed, invalidated,
\* failed or aborted meanwhile (observeQueuedAbort, makeReady, remove, retire).
Queued(op, of) == \E i \in DOMAIN chain : chain[i] = [op |-> op, of |-> of]
NobodyIsForgotten ==
    /\ \A c \in Calls :
         /\ call[c] = "join" => Queued("load", on[c])
         /\ call[c] = "drain" => retiring[on[c]] \in {"flushing", "queued"}
         /\ call[c] = "await" => \/ entry # NoEntry /\ entry.phase = "ready"
                                 \/ entry # NoEntry /\ Mine(entry.by)
                                    /\ call[entry.by] \in {"queued", "reserved"}
         /\ call[c] = "queued" => \E op \in {"commit", "current", "append"} : Queued(op, c)
    /\ \A s \in Lifecycles : retiring[s] = "queued" => Queued("retire", s)
=============================================================================
