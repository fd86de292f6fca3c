# Formal models of the agent harness

TLA+ specifications of the parts of this repository that carry its own core
logic, the TLC configurations that model-check them on small instances, and
machine-checked proofs (TLAPS) of what matters most for every instance.

- [The system](#the-system): components, state, operations, interactions
- [Modules](#modules): what models what, and how
- [Runs](#runs): what TLC checks, bounds, fairness
- [Proofs](#proofs): what is proved, from what, along which argument
- [Where code and comment disagree](#where-code-and-comment-disagree)
- [Not modelled](#not-modelled), [Plan](#plan), [Running](#running)

## The system

The program is an agent harness: plugins on a container (vendored `cordis`)
around a log. A **session** is an append-only event log with a grammar; an
**agent** owns one session and a **driver** that carries it through turns and
steps; a step asks a **model** for a message and runs the **tool calls** the
message makes; **persistence** stores the log behind the agent's back, with
checkpoints where side effects begin. Everything is JavaScript: one callback
runs at a time, and everything hard happens at awaits, at notifications whose
listeners run in place, and when the process dies.

| Component (source) | State it keeps | Operations | Correct when |
|---|---|---|---|
| Driver, `core/agent-loop/src/agent.ts` | phase, abort controller, latched wake, the frame of `turn()` and `step()` | `send`, `inject`, `cancel`, `runMaintenance`, `whenIdle`, the loop itself | phase and log agree at every await; no promised wake is stranded; an abort decides the outcome; an aborted activity converges |
| Inbox, `core/agent/src/inbox.ts` | next-turn list, next-step list | claim, clear, insert, replace, remove | one ordinary message per turn; nothing lost between lists |
| Tool scheduler, `core/agent-loop/src/tool-calls.ts` | rolling pool, ordered slots | classify, start, commit, refill, drain, skip | exclusive barrier, model order, every call answered, no fabricated result |
| Tool pipeline, `core/tools/src/index.ts` | per-execution cancellation state | prepare, dispatch, finalize | a result says truthfully whether the call ran |
| Session grammar, `core/session/src/invariant.ts` | a trace: open turn and step, next numbers, pending calls | validate, apply | every log is accepted |
| Session store, `core/session/src/index.ts` | sessions, publication, append in progress | create, prepare, publish, append, dispose | reentrant appends refused |
| Crash repair, `core/session/src/repair.ts` | none (reads a log) | `interruptedTurnClosers` | the closed log is accepted, truthful, and repair can be interrupted |
| Checkpoint policy, `session/session-checkpoint-policy` | none | flush before request, tool body, step | what the model saw and what tools did survive a crash |
| Write path, `session/session-persistence/src/write-behind.ts` | pending queue, active write, timer, barrier, flags | enqueue, flush, timers, write continuations | nothing lost, doubled, reordered or forgotten; a flush means what it says |
| Persistence coordinator, `.../coordinator.ts` | cursor and owner per session, preparation leases, retirements | init, append, flush, retire, load, fork, delete | one writer, contiguous sequence numbers |
| Job registry, `jobs/jobs-local/src/index.ts` | records, waiters, cleanups | start, read, kill, wait, settle, teardown | completions told exactly once; teardown leaves nothing |
| Agent lifecycle, `core/agent-loop/src/index.ts` | memoized teardowns, tracked agents and calls, effects on the owners | create, resume, configured start, publish, dispose, unload | rollbacks leave nothing; every unload converges and leaves nothing |
| Registries, `core/agent/src/index.ts`, `core/session/src/index.ts` | entries by identity | enter, announce, detach | one holder per identity; creations and disposals paired |
| Preparations, `session/session-persistence/src/preparations.ts` | one entry per unpublished stored session | load, reserve, release, attach | one exclusive user of a stored log |
| Model access and retry, `llm/*` | retry budget, delays | stream, recover | an abort wins over a retry |
| Goals, `goal/goal`, `goal/goal-round-driver` | the durable goal and its activation; per agent a reserved round, a serialized loop, flags | mutations, reserve, fence, checkpoint, unload | only the next round of the active goal enters the log; rounds yield to humans; no trigger is lost |
| Compaction, `compaction/*` | surface of the log | compact as maintenance | history shown is a valid surface |
| Approvals and questions, `interaction/*` | open requests | ask, decide, withdraw | one decision per request |
| Schedules, `schedule/schedule` | durable timers | arm, fire, restart | each occurrence once |
| Subagents and teams, `subagent/*`, `experimental/agent-team` | child agents, mailbox | delegate, continue, interrupt | parents and children converge |
| The rest | see `components` in `PROJECT.json` | | |

How they meet:

- `send` inserts into the inbox and wakes the driver; the driver claims from the
  inbox, appends to the session, and awaits listeners, the model and the tool
  scheduler. Listeners run inside the driver's appends and may call back.
- The scheduler appends `tool/call` and `tool/result` to the same session and
  awaits the pipeline, which awaits gates, wrappers (the checkpoint policy is
  one) and the tool body.
- Persistence hears every append through a listener, queues the event, and
  never makes the producer wait. Only `flush` waits; the checkpoint policy
  calls it before a request, before a tool body and before a step.
- A cold session is loaded through crash repair before any agent resumes it.
- The factory prepares an agent, enters it and its session into the registries,
  and hands out a handle; the handle, the owner's fiber, the caller's signal and
  the factory's own unload all reach the same teardown, which cancels the
  driver, awaits it, unwinds the scope and leaves the registries.
- The coordinator serializes what it does with one stored log in a chain;
  publications, disposals, aborts and reservations happen beside the chain, at
  any of its awaits.
- The round driver hears goal changes, inbox insertions, agent status and turn
  ends, queues the next round as an ordinary followup when the agent is idle,
  and sits in the chain of `agent/pre-step` listeners to turn away a round that
  is no longer the goal's next.
- Jobs outlive the call that started them; their completion is told through a
  wait, a read or a notice that wakes their owner, and the disposal of the
  owner drains them.

The behaviours that are hard are listed line by line in `PROJECT.json`
(`hazards`), each with the properties that would catch it going wrong, or a note
saying why none covers it.

## Modules

| Module | Models | Composes |
|---|---|---|
| `SessionTrace` | the grammar of the log as operators: `Accepts` is `validateEvent`, `Advance` is `applyTransition` | |
| `SessionLog` | the abstract log: any accepted event may be appended | `SessionTrace` |
| `AgentLoop` | the driver, its inbox, its callers and its disposal | `SessionTrace`; refines `SessionLog` |
| `ToolCalls` | one batch of tool calls, scheduler and pipeline | `SessionTrace`; its appends are steps of `SessionLog` |
| `Jobs` | the job registry, its producers, waits, notices and teardowns | |
| `AgentLifecycle` | calls that create or resume one identity, their rollbacks, their teardowns and the unloads of owner and factory | the driver of `AgentLoop` as a bit |
| `Coordinator` | one stored identity: the lifecycles that follow one another on it, the calls that restore, load or inspect it, direct writers, and the coordinator's chain between them | `WriteBehind` reduced to one write at a time |
| `GoalRounds` | the goal of one session and the plugin that turns it into rounds | `AgentLoop` reduced to the awaits at which goal, inbox or driver may change |
| `DurableLog` | what persistence promises: a growing stored prefix, flushes that stand for what was produced before them | |
| `WriteBehind` | the write path of one live session | refines `DurableLog` |
| `CrashRecovery` | turns, checkpoints, crashes and repair on one log | `SessionTrace`; the promise of `DurableLog`; `AgentLoop` and `ToolCalls` reduced to their appends and effects |
| `AgentLoop_proofs`, `ToolCalls_proofs`, `Jobs_proofs`, `WriteBehind_proofs`, `AgentLifecycle_proofs`, `GoalRounds_proofs`, `Coordinator_proofs`, `CrashRecovery_proofs` | theorems and proofs | |
| `MC*` | symmetry, views and initial states for TLC | |

Definitions named `...` after the word *Faulty* in a comment are plausible bugs
of the definition that follows them. They are used nowhere in a specification;
they exist so that each property can be shown to notice one of them.

### AgentLoop

The step of the model is the stretch of code between two points at which other
code can run. `pc` names the point: an await (`preStep`, `generating`, `tools`,
`stopping`, `retiring`, `proposed`), the inside of an append (`turnOpen`, `stepOpen`,
`stepDone`, `stepClosed`, `turnClosed`), or a synchronous listener (`reserved`
for `agent/status`, `failed` for `agent/error`). What may run there differs:

- at an await anybody may send, stage, edit, cancel, dispose, ask `whenIdle`;
- inside an append only the observers of that append run, and the session
  refuses an append from within one, so a caller there can neither send nor
  cancel in a way that clears a non-empty inbox;
- the gap between an async function's return and its caller's resumption, one
  microtask, is a point of its own where the caller uses what it was given without
  a look at the signal: `proposed` behind `preStep()`, `retiring` behind `turn()`.
  `preStep()` looks at its signal and returns a decision (`PreStep`); `turn()` uses
  it a step later (`UseDecision`): `EndWithoutStep` ends the turn, aborted or not,
  and only what starts a step looks again (`AbandonStep`, `StartStep`). Where the
  caller does look (behind `step()` and the `agent/turn-stopping` listeners) the gap
  is part of the await before it;
- `send` itself is split: it notifies `agent/inbox` between its insertion and
  its wake (`sending`), and the driver's retirement is split between publishing
  idle and replaying a latched wake (`tail`).

`phase`, `turn`, `step`, `abort` and `wakeRequested` are the fields of the
phase object, `nextTurn` and `nextStep` the lists of the inbox. The order of
the next-step list is left out because a claim takes all of it. Message
contents, prompts and the stream of chunks are left out; retries of a request
stay inside one await. A veto of an append by a companion is modelled where
the code can meet it with a healthy log: at `turn/start` and `step/start`.
History variables (`fate`, `wake`, `home`, `truncated`, `unheard`, `waiter`,
`disposing`) carry what the properties relate. `unheard` marks an abort that comes
when the turn is about to end and will not look at its signal again
(`PastLastLook`): behind the catch clause, or behind a `preStep()` whose decision
ends the turn. `OutcomeIsTruthful` says that the outcome is "aborted" exactly for
the other aborts; see [below](#where-code-and-comment-disagree) for these.

### ToolCalls

`pc` again names the point of `executeToolCalls`/`runGroup`; each call has a
`stage` in the pipeline. The registry's answer to "is this call parallel?" is
nondeterministic each time it is asked, since plugins change it at will. The
identities of the calls of one message are taken to be distinct.

### Jobs

Each method of the registry is one action; `wait()`, `disposeOwned()` and
`disposeAll()` are split at their awaits. A producer's promise resolving and
the continuation that records it are two steps, and so are a waiter being
released and its `await` returning. Producers that throw on cancel are
included, producers that break the written contract (accept a cancel and never
settle) are not.

### AgentLifecycle

Two or more calls on one identity. `phase` is where the promise of a call is:
awaiting the load (`loading`, `loaded`), setup (`setup`), its own rollback
(`rollback`), the list of stored sessions (`listing`), a draining predecessor
(`waiting`), or settled. `publish()` is synchronous, so it is one action; its
argument says where a listener's throw or abort, or a collision, stopped it.
`teardown` is the memoized `dispose()`, split where it awaits the driver and the
scope; `effect` is what the call has registered on its owner's fiber. An unload
is a fiber's state followed by its disposers, which run concurrently. `pool` and
`grant` are the entry of `SessionPreparations` at this identity and each call's
share in it; the commit of the repair is taken as part of the reservation.
Agent and session enter and leave the registries together, since no other code
but listeners runs in between, so one `holder` stands for both entries.

Left out: agents configured by `resumeSessionId`; the second effect-level
disposal that a *throwing* `cancel()` takes (an observer of an append that
disposes of the agent it observes); work sent to an agent after its disposal
began, which the code declares the sender's bug. A plugin's unload is modelled
once, without reload.

### Coordinator

One identity. `log` and `torn` are the backend; `state` and `entry` are what the
coordinator keeps of it (`SessionState` and the entry of
`SessionPreparations`); `chain` is the queue that `serialize()` builds out of
promises, with `running` true while its head awaits the backend. Every operation
that goes through `serialize()` is one or two actions at the head of the chain:
two when the code looks at the bookkeeping, awaits the backend and uses what it
saw (`CommitBegins` and `Commit`, `AppendBegins` and `AppendLands`,
`WriteBegins` and `WriteLands`). What is not serialized is an action of its own
and may happen at any time: `CreateFresh` and `Publish` (a `Session` enters the
store), `Dispose`, `Abort`, `TakeReady`, `Release`, `Call`. A lifecycle's `init`
is its `ready` promise; `sent`, `writing` and `batch` reduce its write controller
to what `WriteBehind` proves of it.

An event is known by who appended it and whether it opens or closes a turn; that
is what tells two histories apart and a balanced log from an interrupted one.
`Balanced` stands for the closers that `CrashRecovery` models event by event.
Backends fail at will, a commit whole: partial appends and their rollback are
the backends' own. Left out: `create()`, `readFrom()`, the eviction of ready
preparations, formats, working directories; a direct `append()` is called only
while no lifecycle is there, since nothing in the program does otherwise and the
code does not fence it.

### GoalRounds

Handlers call each other synchronously and deeply: a goal change runs the
driver's listener, which may run a pass of its loop, which may reserve a round,
wake the agent and open a turn. Handlers are therefore functions of a record,
the whole state, and an action says that the state becomes what a composition of
them returns (`Becomes`). The rest is the awaits: `agent.at` names the one the
agent is at (`assembling`, the listeners `inner` and `outer` of the fence,
`decided` between the return of `preStep()` and the resumption of `turn()`, `step`,
`turning` between two turns, `leaving` before the return to idle);
`flushing`, `returned` and `ended` count the driver's loops that are in a flush,
behind a pass, or behind their last pass. They are counts because there can be
two loops: `state.run` is assigned only when the synchronous part of the first
pass has returned, so a goal change inside that part starts another.

A goal and its revision are one number, `version`. A round is a version and a
number, plus a `copy` that keeps two queued messages of one round apart. `log`
is "sound" as long as the strict fold of `goal/src/fold.ts` accepts the session
log; once it does not, every read of the goal throws, for ever, and the value
says how that came about:

- "late": a listener in front of the fence (the driver's listener is not the
  outermost one) awaited after the fence had let the round go, and the goal was
  changed meanwhile;
- "unfenced": the plugin was gone when a round that it had queued was proposed;
- "unsound": the fence itself let go what the fold refuses, which `FenceIsSound`
  excludes.

The first two are possible and are part of the model, as are these: rounds that
are queued during a maintenance job, because the agent reports "idle" there; a
round of which two messages wait (see
[below](#where-code-and-comment-disagree)), the second of which may stand before
a human's message; and goals that stay armed without a round because the driver
believes that humans wait (`competing`, which only the next return to idle
clears) or keeps an attempt whose message was cleared. So is a cancel that comes
when the agent is at `decided` and the step was rejected: `StepRejected` ends that
turn as blocked, the driver's listener of `turn/end` disarms nothing, and the next
idle may reserve and admit a round at the very version that was cancelled.
`HearsCancel` says at which awaits a cancel is heard, and `halted` records the
goal's version at those only. `RoundsYield` and `ArmedGoalsMoveOn` say what remains
true with these excepted.

Left out: texts, the codec of goal changes, the projection of goals, agents whose
`followup` throws, edits of queued rounds, listeners that rewrite the messages of a
step (so that no step proposed here is empty; `AgentLoop` has the empty ones).

The README of the driver says (`goal-round-driver/README.md:26`) that a pending
automatic prompt in a mixed batch is rejected. The code does so for human messages
queued for a turn, which the driver hears of; steered input is claimed along with
the round and enters with it. The model has the batch as the code has it
(`batch.others`).

### WriteBehind and DurableLog

An event is its sequence number. The steps are the callbacks of the controller:
the window's timer, the outcome of a write, the controller forgetting it one
microtask later, the continuation of a detached write, the resumption of a
barrier. A timer or the backend acts only when no continuation is queued
(`Quiet`), as microtasks run before either. `init` and `seed` model the
initialization that flushes and writes await first, and the case in which it
stores an event that is queued as well. A write either commits or is refused;
partial writes and their rollback belong to the backends.

`DurableLog` has four ideas: events are produced, a prefix of them is stored,
a flush remembers how many there were, and it may resolve only when they are
stored. The refinement maps the number of stored events to the length of
`durable` and both waiting places of a flush to "pending".

### CrashRecovery

The log is a sequence of events as `SessionTrace` abstracts them. `stored` is
what storage acknowledged; a crash keeps any prefix that contains it, and what
survived beyond it may be lost by the next crash. `TraceOf` is the companion's
summary of a log, folded event by event; `Scan`, `OpenAtEnd` and `Closers` translate `interruptedTurnClosers` clause by clause. `seen` (the log
behind the last request) and `ran` (the tool bodies that ran) belong to the
world and survive crashes, and the properties compare the log with them.
Messages, chunks and headers, which the scan ignores, are left out, and so are
requests that name no session and nested tool calls, which the policy lets
pass.

## Runs

| Run | Shows | Bounds |
|---|---|---|
| `AgentLoop` | grammar refinement, phase/log agreement, one message per turn, latches and wakes, outcomes, `whenIdle`; aborted activities converge, promised wakes are settled | 2 messages, 2 steps owed per turn |
| `AgentLoop_lostwake`, `AgentLoop_disposal` | two disagreements below | 2 messages |
| `ToolCalls` | barrier, order, settlement without fabricated results, truthful cancellation; the batch ends | 3 calls, pool of 2 |
| `Jobs` | completions told exactly once, teardown quiet and complete; disposals and waits end | 2 jobs, 1 owner or none, 2 waits for the same job, limit 1 |
| `AgentLifecycle` | rejections, pairing, registries against drivers, reservations, both unloads; unloads end and aborted calls reject, whatever the backend does | 2 calls of any kind, at most one configured |
| `AgentLifecycle_ownerleaves` | a third disagreement | 2 calls |
| `Coordinator` | the log belongs to its owner, the cursor is its length, reservations are current, repair spares live sessions, nobody waits for what will not come | 2 lifecycles of 2 events, 2 calls of any kind, 1 reload; the log empty, or torn inside a turn |
| `GoalRounds` | the fence is sound, rounds yield to humans, no trigger is lost | 1 human message, goals of 1 or 2 rounds, 2 mutations |
| `GoalRounds_twins` | a fourth disagreement | as above |
| `WriteBehind` | nothing lost or stranded; refines `DurableLog`; flushes settle | 3 events, 2 callers and the retirement |
| `CrashRecovery_safety` | what was shown and done stays on record; repair is accepted, truthful, restartable, complete | 2 turns of 2 steps, 2 calls, 2 crashes |

Every property has at least one mutated definition (`mutants` in
`PROJECT.json`) under which it is violated within the same bounds.

Why the bounds are enough to be interesting: with two messages one can be in the
turn under way while the other is steered, staged or queued, and a replacement
reuses an identity; a second step lets steering and the token ceiling meet (the
safety properties were also run with three messages, 0.9 million states, with
the same result). Three calls on a pool of two give a full pool with one call to
refill it, or a group boundary before, between or after exclusive calls (also
run with four calls, 6.4 million states). Three flushes let one raise a barrier,
one join it and one come too late, and three events fill a failed batch, the
queue behind it and a batch after it (also run with four events and a third
caller). Two crashes let a repair be interrupted, two turns let a repaired log
be continued and be cut again. Two lifecycles and two calls at one identity let
one lifecycle retire while the next is published, and one call hold or lose the
preparation that the other waits for. Two goal mutations let a goal be created
and changed under a round, and two rounds let a cap be reached; one human message
is enough to compete with a round, to be queued before it or behind it and to be
handed back by the fence (also run with three mutations, 3.1 million states).

`CHECK_DEADLOCK FALSE` appears where the modelled system ends: a batch that has
returned, a registry that has closed, a retired session at its event bound, a
log at its turn bound. `AgentLoop` never stops, so its runs check deadlock.
Two calls are enough for the factory to have
one of them hold the identity, the stored log or a teardown while the other
arrives; a third would only queue behind.

The type invariant of every module is proved, so no run repeats it.

Symmetry is used only in runs without liveness properties, over constants that
no definition orders. The view of `Coordinator` forgets what a call awaited, was
shown or suffered once no later step reads it. `MCJobs` has its interchangeable
waits begin in a fixed order instead, since it checks liveness too.

**Fairness.** Callers are never obliged to do anything. What is fair is what
the event loop and the code's own contracts provide: queued continuations run,
timers pass, a promise the driver awaits settles (`AgentLoop`, `ToolCalls`,
where hooks, tools and streams are contractually cancellable), a producer
whose cancel was accepted settles (`Jobs`, the contract in
`jobs/jobs/src/types.ts`), and the backend answers each write (`WriteBehind`).
`GoalRounds` assumes only that a flush settles, one way or the other, and that
continuations run (`LoopStep`), not that any turn ends.
`AgentLifecycle` assumes least: neither reads nor setups need ever settle, only
drivers that were cancelled, disposers, and the backend's `list()`, which no
signal cuts short. `FlushEnds` holds for
producers that pause: nothing in the code bounds a barrier whose producers
never do.

## Proofs

TLAPS checks these for every value of the constants (`theorems` in
`PROJECT.json`); no theorem rests on an assumption other than the named
`ASSUME`s of the modules, which the runs evaluate.

`AgentLoop_proofs`, for any set of messages and any step bound:

- `TypeCorrect`: the type invariant, one lemma per group of actions.
- `DriverNeverLosesItsPlace`: `DriverMatchesLog`, i.e. wherever the driver is
  suspended, phase and log name the same open turn and step and the same next
  numbers. It is proved together with the types: `DriverMatchesLog` says
  for every `pc` what the trace is, each append's guard in the grammar follows
  from it at the point before, and each step re-establishes it at the point after.
- `LogGrammar`: from that invariant, every step of the driver is a step of
  `SessionLog` or leaves the log alone. A log the companion refuses is the
  value `Broken`, and the invariant excludes it.
- `LatchIsNeverStale`: a wake is latched only behind maintenance or an abort
  that is not a disposal.
- `NoWakeIsStranded`: `NoStrandedWake`. A message that was sent to wake the agent
  is still queued only while somebody is bound to look: the invariant `OwedInv`
  says that what is owed a wake is pending (`OwedIsPending`), that a driver is on
  its way to the inbox, or a wake latched for when it returns (`DriverIsComing`),
  and that an idle phase is never an aborted one (`IdleIsNotAborted`).
- `FollowUpsStandAlone`: `OneOrdinaryMessagePerTurn`, with `HomesAreBehind`: the
  turn a message was claimed for is never ahead of the driver's, and before it
  while that turn is only being opened, so the claim that opens a turn is the first.
- `IdleIsQuiescent`: `WhenIdleMeansQuiescent`, an action property, from
  `ActivityIsOpen`: while a driver or a maintenance job is active, or a retired
  driver has yet to replay a wake, the promise `whenIdle()` awaits is unresolved.
- `OutcomesAreTruthful`: `OutcomeIsTruthful`, from `OutcomeInv`: before its turn
  closes no driver holds another outcome than completed or truncated, and a
  truncation, once seen, is the outcome it holds (`OutcomeSoFar`); where a turn is
  about to end without another look at its signal, an abort it finds came after
  the last look (`LastLookWasClear`), and a signal that is not aborted has nothing
  unheard (`UnheardIsAborted`). `DriverLooks` is the lemma that the driver comes to
  its last look with a signal it found clear.

`ToolCalls_proofs`, for any number of calls, any assignment of modes and any pool:

- `TypeCorrect`.
- `ExclusiveCallsAreAlone`: `ExclusiveIsABarrier`. The invariant says that what has
  started lies within the current group, what lies before the group is committed,
  and the pool holds exactly what runs; an exclusive call is a group by itself.
- `SettledBatch`: `BatchIsSettled`; `TruthfulCancellation`: `CancellationIsTruthful`.
- `BatchLogGrammar`: every append of the batch is one of `SessionLog`. The log's
  open calls are those between what is committed and what has started
  (`OpenWith`), which is why a result is never refused.

`Jobs_proofs`, for any jobs, waits and agents:

- `TypeCorrect`.
- `CompletionsAreToldOnce`: `CompletionIsToldOnce`. A live job is marked as reported
  exactly when somebody asked for its end (`Asked`), and a wait under way is one
  for a live job, so that whatever a settlement finds decides alone who tells of it
  (`Told`).
- `NothingIsLeftBehind`: `TeardownLeavesNothing`. A live job is in the store
  (`Stored`), an owner of jobs has a cleanup attached, and the cleanup awaits
  every job it leaves in the store (`Owned`).
- `QuietTeardown`: `TeardownIsQuiet`, an action property: what a draining cleanup or
  service awaits has been asked for (`Asked`), so its completion is not announced.

`WriteBehind_proofs`, for any set of callers and any number of events:

- `TypeCorrect`.
- `NothingLost`: `NothingLostOrReordered`. By itself that is not inductive: a
  write must never be started while another runs, or its batch would vanish.
  The invariant `Inv` adds that a queued `continueAutomatic()` cannot meet a
  running write unless a barrier stands in its way, that nothing is stored
  before initialization, and states the line of events (`Line`) with the batch
  and the queue apart. The lemmas `LineTakes`, `LinePutsBack`, `LineGrows`,
  `LineSeeds` and `LineStores` are the five ways the line moves; the proof
  that each action keeps `Inv` picks one of them.
- `KeepsPromise`: the refinement of `DurableLog`. When a barrier finds the
  queue empty and no write running, `Line` says that everything produced is
  stored, so the flushes it answers may resolve; commits only lengthen what is
  stored; every other step leaves the promise's variables alone or rejects.
- `NothingIsStranded`: `NoStrandedEvents`. `Watched` adds that a window which passed
  during a write is remembered only while that write may succeed, that a write
  outside the background has a barrier waiting for it, and that a barrier that
  failed has paused automatic writes.

`AgentLifecycle_proofs`, for any set of calls:

- `TypeCorrect`.
- `WorkStaysRegistered`: `WorkIsRegistered`. Not inductive by itself: when an
  agent leaves the registries its driver must be idle (`DrainedStaysIdle`: no
  driver starts again behind a drained teardown), and when a live agent is sent
  work it must be the one registered (`LiveHolds`). A publication preserves all
  three because it happens only while the identity is free, when the invariant
  leaves no other driver at work and no other live agent.
- `PairsAreKept`: `CreationsArePaired`, which is inductive with the types.
- `OneUserAtATime`: `StoredIdentityHasOneUser`; `RejectedLeavesNothing`:
  `RejectionLeavesNothing`; `UnloadsAreComplete`: `UnloadLeavesNoneBehind`. The three
  lean on one invariant, `LifeInv`: what a call has made by the place it has
  reached (`Begun`), which calls may be registered (`Held`), that the preparation
  is reserved for exactly one call, on its way or in its hands (`Granted`), that a
  disposing factory has begun every agent's teardown (`Disposing`), and the three
  properties as they must hold at every step (`Rejected`, `Alone`, `Unloaded`).
  One lemma per action.

`GoalRounds_proofs`, for any messages and bounds:

- `TypeCorrect`.
- `OnlyTheNextRoundIsLetGo`: `FenceIsSound`. The fence compares version and
  number; the fold also wants the round to be within the goal's cap. The
  invariant `Good` adds why that is implied: what is reserved is never ahead of
  the goal, and at the goal's own version within its cap (`InCap`), since every
  mutation, the change of a cap included, advances the version; and a step that
  was let go and not cancelled since is fit (`LetGoIsFit`). The state being a
  record and the handlers functions, there is one lemma per handler, `Good(s)`
  implies `Good(Handler(s))`, and an action follows from the lemmas of the
  handlers it is composed of. `SomeCopyIsUnused` is a pigeonhole argument over
  the finite inbox.
- `HumansComeFirst`: `RoundsYield`, what becomes of a cancel, or of a human's
  message, that came several awaits before the fence looks. `YieldInv` follows
  both to it. A goal that is still armed at the version of the last cancel has no
  driver, or the cancel is on its way to it: as the abort of a turn that will
  look at its signal (`HearsCancel`), and then as the reservation that `turn/end`
  marked (`HaltHolds`). A queued round is the last
  in the inbox or known to be stale (`QueuedIsLast`), no reservation is beyond the
  next round (`ReservedIsNext`), and so what the fence would accept is the round
  of the step in hand, claimed before nothing but rounds (`WantedIsInHand`);
  between the fence and the log only a cancel can intervene (`LetGoYields`), and
  the decision to enter is checked against it once more.
  Changes that cannot let a round through are one relation, `Quieter`, with one
  lemma. `OnlyStepEntersAdmits` is the frame argument that nothing else starts
  the step of a round.

`Coordinator_proofs`, for any lifecycles, calls, events and reloads:

- `TypeCorrect`.
- `CursorIsTheLength`: `CursorIsExact`. A write, a claim or an append changes
  cursor and log together, but from values its lifecycle took over earlier, so
  they must still fit when it comes to the head of the chain. `Inv` therefore
  says what the chain may hold: one initialization of a lifecycle while it is
  pending, one write while it is under way, its retirement (`SessionsQueueOnce`);
  the lifecycle in the store is the last to be initialized (`HolderIsLast`); who
  has something to store owns the identity (`WorkersOwn`); and the seed of a
  restored lifecycle reaches past the cursor, with no direct append in between
  (`SuffixesFit`).
- `ReservedIsStored`: `ReservationIsCurrent`. A commit reads the log at the head
  of the chain and reserves it; what would spoil the reservation must not be
  queued behind. An initialization is queued only while the preparation is free
  or by its holder, an append only while nobody has it, and a preparation that a
  call has committed is that call's (`KindsFit`, `CommitsAreAlone`,
  `ReservedAlone`).

- `OneHistoryIsStored`: `LogIsOwners`. The invariant `Histories` follows a history
  from the lifecycle that produces it to the log: the log is the owner's
  (`OwnersAgree`), what was sent is stored or in the chain (`SentIsStored`,
  `RetireesHaveSent`), a lifecycle's history goes on from the one it restored
  (`HistoriesAreOwn`, `AppendsAreFree`), and one that lost the identity had
  nothing to store (`LosersHadNothing`, `ThreatsAreReloads`).
- `TheLivingCloseTheirOwn`: `RepairSparesTheLiving`.
- `EveryWaiterIsServed`: `NobodyIsForgotten`. The invariant `Waiting` says who moves
  whom: a load that is awaited is in the chain or joined to one that is, a
  preparation that is awaited is being read, a retirement that is awaited goes on.

The operations of the chain either add a link behind (`EnqueueAdds`) or take the
first away (`EndsRemoves`), so that the parts of `Inv` about links follow from
one lemma each for operations of sessions and of calls (`CallsLeaveSessions`,
`SessionsLeaveCalls`, `SessionsLeaveReservations`, `CallsStayAlone`).

`CrashRecovery_proofs`, for any number of calls, turns, steps and crashes:

- `TypeCorrect`.
- `LogsAreGrammatical`: `LogStaysGrammatical`. Since a crash may cut the log
  anywhere, the invariant `Sound` speaks of every beginning of it: what the
  companion makes of that beginning (`TracesOf`) and what the repair's scan reads
  out of it (`OpensOf`) name the same open turn and step, and what the scan takes
  for recorded and unanswered the companion awaits an answer to (`Matched`). A
  crash then keeps `Sound` because a beginning of a beginning is one
  (`BeginningIsSound`), and a step of the driver because its event is accepted at
  the end (`SoundAgain`), where the driver knows itself to be (`InPlace`).
- `EffectsStay`: `EffectsAreOnRecord`. What was shown to the model and the records
  of bodies that ran lie below `stored` (`SeenIsStored`, `BodiesRecorded`); that a
  body about to run has its record below its flush target is `ToolRecorded`.
- `DenialsAreTrue`: `NotStartedIsTrue`. `Noticed` says that the scan notices the
  record of every pending call, so that a call without one never ran, and
  `DeniedAreIdle` that a call said not to have started cannot start any more:
  it was made by a process that is gone.
- `RepairsAreRestartable`: `RepairIsRestartable`, for any log of events at all.
  Appending the first closer and scanning again leaves the others (`CloserAppended`),
  for which the calls must be numbered the same without the first of them
  (`InOrderWithoutFirst`); `ClosersGoOn` repeats it.
- `RepairsAnswerEveryCall`: the action property of that name, from `Noticed`: a call
  of the step that a repair closes is pending or has its result.

The log is read with recursive functions. What they compute is proved from
three lemmas: a recursion over `0..N` has a solution (`RecursionHasFunction`), two
that begin alike and go on alike agree (`RecursionsAgree`), and a set of naturals
with 0 and every successor of its own has them all (`NaturalsAreAll`). The
library's induction takes an operator, which the installed provers cannot
instantiate; stated with a set it follows from the well-foundedness of `<`. In
the same way the closers of a repair, and the calls skipped after a
cancellation, are gone through one at a time (`ClosersKeepSound`,
`SkipCallsKeeps`).

Only model-checked: all liveness (fairness and `ENABLED` are out of the
prover's reach).

## Where code and comment disagree

1. `AgentLoop_lostwake`. A comment of `wakeDriver` says that live drivers claim
   queued work themselves (`agent.ts:175`). Between the exit check of the last
   turn (`agent.ts:324`) and the driver's return to idle (`agent.ts:219`), a
   microtask later, a waking send finds a live, unaborted driver that will
   claim nothing more; the message waits until somebody else wakes the agent.
   `NoStrandedWake`, which `AgentLoop` checks, is the claim with exactly
   these sends excepted.
2. `AgentLoop_disposal`. The next line says that disposal never latches, so
   teardown waits on no model turn (`agent.ts:176`). The test reads the abort's
   cause, and an activity that was cancelled by a user before it was disposed
   keeps the first cause: a wake is latched behind the disposal and its replay
   starts a driver that the disposal's `whenIdle()` waits for.

3. `AgentLifecycle_ownerleaves`. Every racing owner awaits one quiescence, says
   the comment at `agent-loop/src/index.ts:494`; but an owner whose effect finds
   a disposal under way returns at once (`index.ts:527`), so it can be gone
   while its agent still drains. `UnloadLeavesNoneBehind`, which the
   passing run checks, has what remains true: the agent is at least being
   disposed of.

4. `GoalRounds_twins`. `drive()` is to "process admitted work at quiescence, then
   reserve at most one next round" (`goal-round-driver/src/index.ts:137`). It
   takes any attempt it finds for work that is over (`:157`). During a
   maintenance job the agent reports "idle", so the driver reserves a round there
   that stays queued; a trigger that was pending makes the next pass forget that
   attempt and, after a flush, reserve the same round again. Two messages of one
   round wait; the fence turns the second one away, in a turn that starts and is
   rejected.

Two cancels that the code loses are part of the models, and excepted by name in
the properties they would break; a run without the exception would only show them:

- `turn()` looks at its signal last in the catch clause, or, when `preStep()`'s
  decision ends the turn, inside `preStep()` (`agent.ts:241`), a microtask before it
  uses the decision (`agent.ts:266-277`). A cancel behind the last look leaves an
  aborted signal and a `turn/end` that says blocked, completed, max-tokens or
  error, where `agent-loop/README.md:70` has "Durable `turn/end` records `aborted`
  for `user` and `parent`". `OutcomeIsTruthful` excepts it with `unheard`.
- In consequence, when a turn whose step was rejected is cancelled in that gap, be
  it a human's or a stale round's, an armed goal is neither paused nor disarmed
  (`goal-round-driver/src/index.ts:322`), and goes on with a round at the same revision, where `goal-round-driver/README.md:40`
  has the driver pause or disarm "so cancellation cannot auto-restart it".
  `RoundsYield` excepts it with `HearsCancel`. Replacing `HearsCancel` by "the agent
  is in a turn" in `UserCancels` makes TLC print the history.

Two more statements are contradicted by the shape of `AgentLifecycle` and need no
run: the documentation of `AgentHandle` (`agent/src/index.ts:165`) has
`dispose()` unwind the scope last, and `Leave` comes after `ScopeUnwinds`, as
the README of `agent-loop` has it; and the scope is not always unwound "after
the driver exits" (`agent.ts:69`), since an unloading factory's fiber unwinds
its children, the scopes among them, while `dispose()` still awaits the driver.

The runs print a shortest trace of each.

## Not modelled

`components` in `PROJECT.json` lists every part with its reason. In short:
operating-system effects behind capability seams (shell, terminal, file
system, sandbox, web); wire protocols and hosts; the web client; generated code
and build tooling; synchronous projections of the log (titles, statistics,
todo, plan mode). The storage backends are taken as an append that commits or
is refused, and that keeps a prefix in a crash.

Approximations to know of: `Accepts` has no surface replacements, so a `tool/result`
that replaces another on the surface is not an event of the models; the mode of a
tool call is the one the scheduler read, and a tool replaced while `prepare()` is
awaited behind that read is not compared with it; in `Coordinator` no fresh session
is created with the stored log as its seed (the ownerless claim of
`coordinator.ts:1244`), so that only claims of that branch that ought to be refused
occur; the closing appends of a turn are not vetoed; the
three synchronous segments of `CrashRecovery` that append several events at
once are one step, since a crash can cut them anywhere anyway; a session of
which nothing survived is continued as an empty one, where the program would
start a new one.

## Plan

What is left, in order of weight, each with its main question:

1. `Schedule`: occurrences across restarts, on `DurableLog`.
2. `LlmRetry`: the retry policy racing aborts inside the point "generating".
3. `UserApproval`: one decision per request against cancellation.
4. `Subagents`: continuations and interruption.
5. `AgentLifecycle` further: a disposal from inside an append, agents configured
   by `resumeSessionId`; `Coordinator` further: `create()` and `readFrom()`.

## Running

    tlc -config AgentLoop.cfg MCAgentLoop.tla
    tlapm AgentLoop_proofs.tla

The largest runs (`AgentLifecycle`, `Coordinator`, `GoalRounds`,
`CrashRecovery_safety`: 0.4 to 2.2 million distinct states each) take one to two
minutes on two cores, the others seconds; the proofs take about fourteen minutes
together, `Coordinator_proofs` five of them, `CrashRecovery_proofs` and
`GoalRounds_proofs` two each.
