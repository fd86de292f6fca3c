---------------------------- MODULE AgentLifecycle ----------------------------
(***************************************************************************)
(* The agent factory (AgentLoop): calls that create or resume an agent     *)
(* under one and the same identity, and the teardowns that race them.  A   *)
(* call may be made by a plugin, which holds the handle and whose fiber    *)
(* owns the lifecycle, or by the factory for a configured agent, which the *)
(* factory's own fiber owns and which is restored when it is on disk and   *)
(* created when it is not.  A lifecycle ends by its handle, by its owner's *)
(* unload, by its caller's signal, or by the factory's unload.             *)
(*                                                                         *)
(* Both registries keep the identity in step, so one variable holds it.    *)
(* publish() runs without interruption and is one action, whose argument   *)
(* says how far its listeners let it come.  The driver is a bit here (see  *)
(* AgentLoop), and so is the work of the scope's disposers.  Two calls may *)
(* await one load of the log and take turns to reserve it; committing the  *)
(* repair is part of the reservation.  Options, metadata and reasons of    *)
(* abort are left out.                                                     *)
(***************************************************************************)
EXTENDS FiniteSets

CONSTANTS
    Attempts,           \* calls that create or resume the identity
    Nobody              \* the identity is free

ASSUME AttemptsAssumption == Nobody \notin Attempts

VARIABLES
    \* The calls.
    kind,               \* "create", "resume" or "configured"
    phase,              \* where each call is
    aborted,            \* calls whose caller, or whose owner during the load, gave up
    \* The resources of a prepared agent.
    teardown,           \* dispose(): "no", "draining", "unwinding" or "done"
    effect,             \* the call's effect on its owner: "off", "load", "on" or "running"
    scope,              \* the agent's scope: "none", "open" or "gone"
    driver,             \* "idle" or "busy"
    \* The identity.
    holder,             \* whose agent and session the registries hold
    announced,          \* the creations each attempt announced
    disposed,           \* and the disposals
    \* SessionPreparations, at this identity.
    pool,               \* its entry: "empty", "loading", "ready" or "reserved"
    grant,              \* each call's reservation: "none", "asked", "granted" or "delivered"
    \* The fibers.
    owner,              \* of the plugin: "active", "unloading" or "gone"
    factory             \* "active", "unloading", "disposing" or "gone"

callVars     == <<kind, phase, aborted>>
resourceVars == <<teardown, effect, scope, driver>>
identityVars == <<holder, announced, disposed>>
poolVars     == <<pool, grant>>
fiberVars    == <<owner, factory>>
vars == <<callVars, resourceVars, identityVars, poolVars, fiberVars>>

-----------------------------------------------------------------------------

Settled == {"idle", "live", "failed"}

TypeOK ==
    /\ kind \in [Attempts -> {"create", "resume", "configured"}]
    /\ phase \in [Attempts -> Settled \cup
                    {"waiting", "loading", "loaded", "setup", "rollback", "listing"}]
    /\ aborted \in SUBSET Attempts
    /\ teardown \in [Attempts -> {"no", "draining", "unwinding", "done"}]
    /\ effect \in [Attempts -> {"off", "load", "on", "running"}]
    /\ scope \in [Attempts -> {"none", "open", "gone"}]
    /\ driver \in [Attempts -> {"idle", "busy"}]
    /\ holder \in Attempts \cup {Nobody}
    /\ announced \in [Attempts -> SUBSET {"session", "agent"}]
    /\ disposed \in [Attempts -> SUBSET {"session", "agent"}]
    /\ pool \in {"empty", "loading", "ready", "reserved"}
    /\ grant \in [Attempts -> {"none", "asked", "granted", "delivered"}]
    /\ owner \in {"active", "unloading", "gone"}
    /\ factory \in {"active", "unloading", "disposing", "gone"}

\* validateConfiguredAgents(): no two configured agents bear one identity.
ConfiguredOnce == \A a, b \in Attempts : kind[a] = "configured" /\ kind[b] = "configured" => a = b

Init ==
    /\ kind \in [Attempts -> {"create", "resume", "configured"}]
    /\ ConfiguredOnce
    /\ phase = [a \in Attempts |-> "idle"]
    /\ aborted = {}
    /\ teardown = [a \in Attempts |-> "no"]
    /\ effect = [a \in Attempts |-> "off"]
    /\ scope = [a \in Attempts |-> "none"]
    /\ driver = [a \in Attempts |-> "idle"]
    /\ holder = Nobody
    /\ announced = [a \in Attempts |-> {}]
    /\ disposed = [a \in Attempts |-> {}]
    /\ pool \in {"empty", "ready"}
    /\ grant = [a \in Attempts |-> "none"]
    /\ owner = "active"
    /\ factory = "active"

\* ownership.isActive(): the factory's fiber is not unloading.
IsActive == factory = "active"

\* ownership.signal
FactoryAborted == factory \in {"disposing", "gone"}

\* The fiber a call's effects are registered on.
OwnerOf(a) == IF kind[a] = "configured" THEN factory ELSE owner

\* The signal of prepare(), and the fused one of a load: the caller, the owner, the
\* factory, and the lifecycle's own dispose().
Aborted(a) == a \in aborted \/ FactoryAborted \/ teardown[a] # "no"

Goes(a, p) == phase' = [phase EXCEPT ![a] = p]

\* A call fails; a configured one first asks whether the log is there, unless the
\* factory is going away.
Fails(a) == Goes(a, IF kind[a] = "configured" /\ IsActive THEN "listing" ELSE "failed")

-----------------------------------------------------------------------------
(***************************************************************************)
(* Load: a call asks for the exclusive use of the stored session.          *)
(***************************************************************************)

\* A call asks for the entry of its identity; a missing one starts a load.
AskPool(a) ==
    /\ grant' = [grant EXCEPT ![a] = "asked"]
    /\ pool' = IF pool = "empty" THEN "loading" ELSE pool

\* persistence.prepare() begins, unless the signal is already aborted; the refusal of a
\* live identity is LoadRefused.
StartLoad(a) ==
    /\ Goes(a, "loading")
    /\ effect' = [effect EXCEPT ![a] = "load"]
    /\ IF holder = Nobody /\ ~Aborted(a) THEN AskPool(a) ELSE UNCHANGED poolVars

\* resume()
Resume(a) ==
    /\ phase[a] = "idle" /\ kind[a] = "resume"
    /\ owner = "active" /\ IsActive
    /\ StartLoad(a)
    /\ UNCHANGED <<kind, aborted, teardown, scope, driver, identityVars, fiberVars>>

\* A configured agent starts: it waits while another lifecycle holds the identity, as
\* one does that is still draining when the plugin is mounted again.
StartConfigured(a) ==
    /\ phase[a] = "idle" /\ kind[a] = "configured" /\ IsActive
    /\ Goes(a, "waiting")
    /\ UNCHANGED <<kind, aborted, resourceVars, identityVars, poolVars, fiberVars>>

IdentityReleased(a) ==
    /\ phase[a] = "waiting"
    /\ holder = Nobody \/ FactoryAborted
    /\ IF IsActive
       THEN StartLoad(a)
       ELSE Goes(a, "failed") /\ UNCHANGED <<effect, poolVars>>
    /\ UNCHANGED <<kind, aborted, teardown, scope, driver, identityVars, fiberVars>>

\* The backend has read the log.
LoadReads ==
    /\ pool = "loading" /\ pool' = "ready"
    /\ UNCHANGED <<callVars, resourceVars, identityVars, grant, fiberVars>>

\* The backend fails, or has no such log: every call that awaits the read fails with it.
LoadFails ==
    /\ pool = "loading" /\ pool' = "empty"
    /\ LET waiting == {a \in Attempts : grant[a] = "asked"} IN
       /\ grant' = [a \in Attempts |-> IF a \in waiting THEN "none" ELSE grant[a]]
       /\ effect' = [a \in Attempts |-> IF a \in waiting THEN "off" ELSE effect[a]]
       /\ phase' = [a \in Attempts |->
                      IF a \notin waiting THEN phase[a]
                      ELSE IF kind[a] = "configured" /\ IsActive THEN "listing"
                      ELSE "failed"]
    /\ UNCHANGED <<kind, aborted, teardown, scope, driver, identityVars, fiberVars>>

\* The ready entry is the oldest of too many, or a write to the log makes it obsolete.
Evict ==
    /\ pool = "ready" /\ pool' = "empty"
    /\ UNCHANGED <<callVars, resourceVars, identityVars, grant, fiberVars>>

\* reserve() finds the entry ready.
Reserve(a) ==
    /\ grant[a] = "asked" /\ pool = "ready" /\ holder = Nobody /\ ~Aborted(a)
    /\ pool' = "reserved"
    /\ grant' = [grant EXCEPT ![a] = "granted"]
    /\ UNCHANGED <<callVars, resourceVars, identityVars, fiberVars>>

\* reserve() finds the entry gone, and prepare() begins again.
AskAgain(a) ==
    /\ grant[a] = "asked" /\ pool = "empty" /\ holder = Nobody /\ ~Aborted(a)
    /\ AskPool(a)
    /\ UNCHANGED <<callVars, resourceVars, identityVars, fiberVars>>

\* prepare() refuses an identity that is live, at its start, when it begins again, and
\* when it has just reserved the entry, which it discards.
LoadRefused(a) ==
    /\ phase[a] = "loading"
    /\ \/ grant[a] = "none" /\ UNCHANGED pool
       \/ /\ grant[a] = "asked" /\ holder # Nobody
          /\ pool \in {"empty", "ready"} /\ pool' = "empty"
    /\ Fails(a)
    /\ effect' = [effect EXCEPT ![a] = "off"]
    /\ grant' = [grant EXCEPT ![a] = "none"]
    /\ UNCHANGED <<kind, aborted, teardown, scope, driver, identityVars, fiberVars>>

\* The reservation reaches the call, which takes its effect off the owner.
LoadDelivered(a) ==
    /\ phase[a] = "loading" /\ grant[a] = "granted" /\ ~Aborted(a)
    /\ Goes(a, "loaded")
    /\ effect' = [effect EXCEPT ![a] = "off"]
    /\ grant' = [grant EXCEPT ![a] = "delivered"]
    /\ UNCHANGED <<kind, aborted, teardown, scope, driver, identityVars, pool, fiberVars>>

\* Faulty: the load is waited for to its end.
AbandonAfterLoad(a) ==
    /\ phase[a] = "loading" /\ Aborted(a) /\ grant[a] = "granted"
    /\ Fails(a)
    /\ effect' = [effect EXCEPT ![a] = "off"]
    /\ UNCHANGED <<kind, aborted, teardown, scope, driver, identityVars, poolVars, fiberVars>>

\* raceAbortCall() stops waiting for the load.
AbandonLoad(a) ==
    /\ phase[a] = "loading" /\ Aborted(a)
    /\ Fails(a)
    /\ effect' = [effect EXCEPT ![a] = "off"]
    /\ grant' = [grant EXCEPT ![a] = IF @ = "asked" THEN "none" ELSE @]
    /\ UNCHANGED <<kind, aborted, teardown, scope, driver, identityVars, pool, fiberVars>>

\* releaseAbandoned(): a reservation that comes after its call stopped waiting.
ReleaseAbandoned(a) ==
    /\ grant[a] = "granted" /\ phase[a] # "loading"
    /\ grant' = [grant EXCEPT ![a] = "none"]
    /\ pool' = "ready"
    /\ UNCHANGED <<callVars, resourceVars, identityVars, fiberVars>>

-----------------------------------------------------------------------------
(***************************************************************************)
(* Setup and publication.                                                  *)
(***************************************************************************)

\* prepare(): the owner and the factory must be there and the caller still interested.
Preparable(a) == OwnerOf(a) = "active" /\ IsActive /\ a \notin aborted

\* The agent and its scope, with the teardown known to the factory and to the owner.
Prepared(a) ==
    /\ scope' = [scope EXCEPT ![a] = "open"]
    /\ effect' = [effect EXCEPT ![a] = "on"]

\* sessions.prepare() refuses an identity that is live.
IdentityFree == holder = Nobody

\* createAgent()
Create(a) ==
    /\ phase[a] = "idle" /\ kind[a] = "create" /\ owner = "active" /\ IsActive
    /\ IF IdentityFree /\ a \notin aborted
       THEN Goes(a, "setup") /\ Prepared(a)
       ELSE Goes(a, "failed") /\ UNCHANGED <<scope, effect>>
    /\ UNCHANGED <<kind, aborted, teardown, driver, identityVars, poolVars, fiberVars>>

\* release(): a reservation that was not consumed is ready again, unless its session is
\* not the stored one any more.
GivesBack(a, outcomes) ==
    IF grant[a] = "delivered"
    THEN grant' = [grant EXCEPT ![a] = "none"] /\ pool' \in outcomes
    ELSE UNCHANGED poolVars

\* attach(): publication consumes the reservation.
Consumes(a) ==
    IF grant[a] = "delivered" THEN grant' = [grant EXCEPT ![a] = "none"] /\ pool' = "empty"
    ELSE UNCHANGED poolVars

\* Faulty: the fibers are not looked at again.
ContinueRegardless(a) ==
    /\ phase[a] = "loaded"
    /\ Goes(a, "setup") /\ Prepared(a)
    /\ UNCHANGED <<kind, aborted, teardown, driver, identityVars, poolVars, fiberVars>>

\* The rest of resumeWith(), after the load; a call that cannot go on gives its
\* reservation back.
Continue(a) ==
    /\ phase[a] = "loaded"
    /\ IF Preparable(a)
       THEN Goes(a, "setup") /\ Prepared(a) /\ UNCHANGED poolVars
       ELSE /\ Fails(a)
            /\ GivesBack(a, {"ready"})
            /\ UNCHANGED <<scope, effect>>
    /\ UNCHANGED <<kind, aborted, teardown, driver, identityVars, fiberVars>>

BeginTeardown(a) == teardown' = [teardown EXCEPT ![a] = IF @ = "no" THEN "draining" ELSE @]

\* setup() rejects, or the signal ends the wait for it; a late abort is caught when
\* publish() begins.
SetupFails(a) ==
    /\ phase[a] = "setup"
    /\ Goes(a, "rollback") /\ BeginTeardown(a)
    /\ UNCHANGED <<kind, aborted, effect, scope, driver, identityVars, poolVars, fiberVars>>

\* The persistence listener of session/created refuses a session that is not the one
\* prepared from the stored log.
AliasesStored(a) == pool # "empty" /\ grant[a] # "delivered"

\* How far publish() comes: "enter" is refused an occupied identity; a listener of
\* session/created, of agent/created or of agent/session-start throws or aborts the call.
Stages == {"enter", "session", "agent", "start", "done"}

\* Faulty: a fresh session may carry an identity whose log is being restored.
AliasAllowed(a, s) == (s = "enter") <=> (holder # Nobody)

Reachable(a, s) ==
    /\ (s = "enter") <=> (holder # Nobody)
    /\ AliasesStored(a) => s \in {"enter", "session"}

\* The listeners that ran may have sent the agent work; a listener that throws may keep
\* the persistence listener from consuming the reservation.
Announces(a, s) ==
    IF s = "enter" THEN UNCHANGED <<identityVars, driver, poolVars>>
    ELSE /\ holder' = a
         /\ announced' = [announced EXCEPT ![a] = IF s = "session" THEN {"session"}
                                                  ELSE {"session", "agent"}]
         /\ disposed' = [disposed EXCEPT ![a] = {}]
         /\ driver' \in {driver, [driver EXCEPT ![a] = "busy"]}
         /\ \/ Consumes(a)
            \/ s = "session" /\ UNCHANGED poolVars

\* setup() fulfils and publish() runs.
Publish(a, s) ==
    /\ phase[a] = "setup" /\ ~Aborted(a)
    /\ Reachable(a, s)
    /\ Announces(a, s)
    /\ IF s = "done" THEN Goes(a, "live") /\ UNCHANGED teardown
       ELSE Goes(a, "rollback") /\ BeginTeardown(a)
    /\ UNCHANGED <<kind, aborted, effect, scope, fiberVars>>

\* Faulty: the call rejects while its teardown goes on.
RejectEarly(a) ==
    /\ phase[a] = "rollback"
    /\ Fails(a)
    /\ GivesBack(a, {"ready", "empty"})
    /\ UNCHANGED <<kind, aborted, resourceVars, identityVars, fiberVars>>

\* The rollback is complete and the call rejects; setup may have written to the session.
RollbackDone(a) ==
    /\ phase[a] = "rollback" /\ teardown[a] = "done"
    /\ Fails(a)
    /\ GivesBack(a, {"ready", "empty"})
    /\ UNCHANGED <<kind, aborted, resourceVars, identityVars, fiberVars>>

\* A configured agent that could not be restored is on disk: the failure is reported.
ListedPresent(a) ==
    /\ phase[a] = "listing" /\ Goes(a, "failed")
    /\ UNCHANGED <<kind, aborted, resourceVars, identityVars, poolVars, fiberVars>>

\* It is not, and create() makes it at once, without a setup.  A failure reaches the
\* caller before the teardown it began is over.
ListedAbsent(a, s) ==
    /\ phase[a] = "listing"
    /\ IF IsActive /\ IdentityFree
       THEN /\ Prepared(a)
            /\ Reachable(a, s) /\ Announces(a, s)
            /\ IF s = "done" THEN Goes(a, "live") /\ teardown' = [teardown EXCEPT ![a] = "no"]
               ELSE Goes(a, "failed") /\ teardown' = [teardown EXCEPT ![a] = "draining"]
       ELSE Goes(a, "failed") /\ UNCHANGED <<resourceVars, identityVars, poolVars>>
    /\ UNCHANGED <<kind, aborted, fiberVars>>

-----------------------------------------------------------------------------
(***************************************************************************)
(* Teardown.                                                               *)
(***************************************************************************)

\* handle.dispose(), by the holder of the handle; a configured agent has none.
DisposeHandle(a) ==
    /\ phase[a] = "live" /\ teardown[a] = "no" /\ kind[a] # "configured"
    /\ BeginTeardown(a)
    /\ UNCHANGED <<callVars, effect, scope, driver, identityVars, poolVars, fiberVars>>

\* Faulty: the driver is cancelled but not awaited.
DrainedAtOnce(a) ==
    /\ teardown[a] = "draining"
    /\ teardown' = [teardown EXCEPT ![a] = "unwinding"]
    /\ UNCHANGED <<callVars, effect, scope, driver, identityVars, poolVars, fiberVars>>

\* The driver has converged: whenIdle() returns.
Drained(a) ==
    /\ teardown[a] = "draining" /\ driver[a] = "idle"
    /\ teardown' = [teardown EXCEPT ![a] = "unwinding"]
    /\ UNCHANGED <<callVars, effect, scope, driver, identityVars, poolVars, fiberVars>>

\* The scope's disposers are through.  Its fiber is a child of the factory's, whose
\* unload starts it along with FactoryOwnership.dispose() and waits for no driver.
ScopeUnwinds(a) ==
    /\ scope[a] = "open"
    /\ teardown[a] = "unwinding" \/ factory = "disposing"
    /\ scope' = [scope EXCEPT ![a] = "gone"]
    /\ UNCHANGED <<callVars, teardown, effect, driver, identityVars, poolVars, fiberVars>>

\* Whoever heard of a creation hears of the disposal.
AnnouncesDisposal(a) == disposed' = [disposed EXCEPT ![a] = announced[a]]

\* Faulty: a rolled back agent leaves without a word.
UnregistersQuietly(a) ==
    IF holder # a THEN UNCHANGED <<holder, disposed>>
    ELSE /\ holder' = Nobody
         /\ IF phase[a] = "live" THEN AnnouncesDisposal(a) ELSE UNCHANGED disposed

\* Each detach removes exactly what its own enter() put there.
Unregisters(a) ==
    IF holder = a THEN holder' = Nobody /\ AnnouncesDisposal(a)
    ELSE UNCHANGED <<holder, disposed>>

\* The end of dispose(): the agent and the session leave the registries, and the
\* lifecycle its owners.
Leave(a) ==
    /\ teardown[a] = "unwinding" /\ scope[a] = "gone"
    /\ Unregisters(a)
    /\ teardown' = [teardown EXCEPT ![a] = "done"]
    /\ effect' = [effect EXCEPT ![a] = "off"]
    /\ UNCHANGED <<callVars, scope, driver, announced, poolVars, fiberVars>>

\* A published agent is sent work until somebody disposes of it; a queue that a status
\* listener refills prolongs the work at hand.
StartWork(a) ==
    /\ phase[a] = "live" /\ teardown[a] = "no" /\ driver[a] = "idle"
    /\ driver' = [driver EXCEPT ![a] = "busy"]
    /\ UNCHANGED <<callVars, teardown, effect, scope, identityVars, poolVars, fiberVars>>

FinishWork(a) ==
    /\ driver[a] = "busy" /\ driver' = [driver EXCEPT ![a] = "idle"]
    /\ UNCHANGED <<callVars, teardown, effect, scope, identityVars, poolVars, fiberVars>>

\* The signal a caller gave with its call; no one listens once the call is over.
CallerAborts(a) ==
    /\ kind[a] # "configured" /\ phase[a] \notin {"live", "failed"} /\ a \notin aborted
    /\ aborted' = aborted \cup {a}
    /\ UNCHANGED <<kind, phase, resourceVars, identityVars, poolVars, fiberVars>>

-----------------------------------------------------------------------------
(***************************************************************************)
(* The fibers unload.                                                      *)
(***************************************************************************)

OwnerUnloads ==
    /\ owner = "active" /\ owner' = "unloading"
    /\ UNCHANGED <<callVars, resourceVars, identityVars, poolVars, factory>>

\* An unloading fiber runs the effect of a call: it ends a load, or disposes of the agent
\* and stays until that is over, unless somebody was there first.
OwnerCleans(a) ==
    /\ OwnerOf(a) \in {"unloading", "disposing"}
    /\ \/ /\ effect[a] = "load"
          /\ aborted' = aborted \cup {a}
          /\ effect' = [effect EXCEPT ![a] = "off"]
          /\ UNCHANGED teardown
       \/ /\ effect[a] = "on" /\ BeginTeardown(a)
          /\ effect' = [effect EXCEPT ![a] = IF teardown[a] = "no" THEN "running" ELSE "off"]
          /\ UNCHANGED aborted
    /\ UNCHANGED <<kind, phase, scope, driver, identityVars, poolVars, fiberVars>>

OwnerGone ==
    /\ owner = "unloading"
    /\ \A a \in Attempts : kind[a] # "configured" => effect[a] = "off"
    /\ owner' = "gone"
    /\ UNCHANGED <<callVars, resourceVars, identityVars, poolVars, factory>>

FactoryUnloads ==
    /\ factory = "active" /\ factory' = "unloading"
    /\ UNCHANGED <<callVars, resourceVars, identityVars, poolVars, owner>>

\* FactoryOwnership.dispose(): every agent that is still tracked goes down.
FactoryDisposes ==
    /\ factory = "unloading" /\ factory' = "disposing"
    /\ teardown' = [a \in Attempts |->
                       IF scope[a] # "none" /\ teardown[a] = "no" THEN "draining"
                       ELSE teardown[a]]
    /\ UNCHANGED <<callVars, effect, scope, driver, identityVars, poolVars, owner>>

\* The teardowns, the calls and the fiber's own effects and children are over.
FactoryGone ==
    /\ factory = "disposing"
    /\ \A a \in Attempts :
          /\ teardown[a] \in {"no", "done"} /\ phase[a] \in Settled
          /\ scope[a] # "open"
          /\ kind[a] = "configured" => effect[a] = "off"
    /\ factory' = "gone"
    /\ UNCHANGED <<callVars, resourceVars, identityVars, poolVars, owner>>

-----------------------------------------------------------------------------

\* What the code does of itself once nobody interferes.  The retries of reserve() are not
\* among it: they may go on as long as the log keeps changing.
Advance(a) ==
    \/ IdentityReleased(a) \/ LoadRefused(a) \/ LoadDelivered(a) \/ AbandonLoad(a)
    \/ ReleaseAbandoned(a) \/ Continue(a) \/ RollbackDone(a)
    \/ ListedPresent(a) \/ \E s \in Stages : ListedAbsent(a, s)
    \/ Drained(a) \/ ScopeUnwinds(a) \/ Leave(a) \/ OwnerCleans(a)

Environment(a) ==
    \/ Resume(a) \/ StartConfigured(a) \/ Create(a) \/ Reserve(a) \/ AskAgain(a)
    \/ SetupFails(a) \/ \E s \in Stages : Publish(a, s)
    \/ DisposeHandle(a) \/ StartWork(a) \/ FinishWork(a) \/ CallerAborts(a)

Next ==
    \/ \E a \in Attempts : Advance(a) \/ Environment(a)
    \/ LoadReads \/ LoadFails \/ Evict
    \/ OwnerUnloads \/ OwnerGone \/ FactoryUnloads \/ FactoryDisposes \/ FactoryGone

Spec == Init /\ [][Next]_vars

\* An aborted wait for setup ends; nothing is assumed of the backend's reads, nor of a
\* setup that nobody aborts.  The backend's list(), which no signal cuts short, answers;
\* a cancelled driver converges, and disposers end.
SetupAborts(a) == Aborted(a) /\ SetupFails(a)

Fairness ==
    /\ \A a \in Attempts : /\ WF_vars(Advance(a)) /\ WF_vars(SetupAborts(a))
                           /\ WF_vars(FinishWork(a))
    /\ WF_vars(OwnerGone) /\ WF_vars(FactoryDisposes) /\ WF_vars(FactoryGone)

LiveSpec == Spec /\ Fairness

-----------------------------------------------------------------------------
(***************************************************************************)
(* Safety.                                                                 *)
(***************************************************************************)

\* A call that rejects has left nothing behind: no entry in the registries, no scope, no
\* effect on its owner, no reservation of the stored session.  Only the synchronous
\* create() rejects before the teardown it began is over.
RejectionLeavesNothing ==
    \A a \in Attempts : phase[a] = "failed" =>
        /\ grant[a] # "delivered"
        /\ kind[a] # "configured" =>
             holder # a /\ scope[a] # "open" /\ effect[a] = "off" /\ driver[a] = "idle"

\* Whatever races it, every creation a listener heard of is followed by its disposal when
\* the agent has left the registries, and by none while it is there.
CreationsArePaired ==
    \A a \in Attempts : disposed[a] = IF holder = a THEN {} ELSE announced[a]

\* A driver at work is always that of the agent the registries hold: it is drained before
\* the agent leaves, and no other lifecycle's teardown takes the entry from under it.
WorkIsRegistered ==
    \A a \in Attempts : driver[a] = "busy" => holder = a

\* One user at a time: a reserved log has exactly one call that will publish it or give it
\* back, and while an agent is live no unpublished twin of its session is kept.
StoredIdentityHasOneUser ==
    /\ pool = "reserved" =>
         \E a \in Attempts :
            /\ {b \in Attempts : grant[b] \in {"granted", "delivered"}} = {a}
            /\ grant[a] = "delivered" => phase[a] \in {"loaded", "setup", "rollback"}
    /\ \A a \in Attempts : phase[a] = "live" /\ holder = a => pool = "empty"

\* When the owner has unloaded, each of its agents is being disposed of, and none of its
\* calls can still produce one.  When the factory has, nothing it made goes on: no agent,
\* scope or work, and no call that could still publish.
UnloadLeavesNoneBehind ==
    /\ owner = "gone" => \A a \in Attempts :
          kind[a] # "configured" /\ phase[a] \in {"setup", "live"} => teardown[a] # "no"
    /\ factory = "gone" =>
          /\ holder = Nobody
          /\ \A a \in Attempts : /\ phase[a] \in Settled /\ scope[a] # "open"
                                /\ driver[a] = "idle"

(***************************************************************************)
(* What the documentation says and the code does not do.                   *)
(***************************************************************************)

\* Every racing owner awaits one quiescence: an owner is not gone before its agents are.
OwnerAwaitsQuiescence ==
    owner = "gone" => \A a \in Attempts :
        kind[a] # "configured" => teardown[a] \in {"no", "done"}

(***************************************************************************)
(* Liveness.                                                               *)
(***************************************************************************)

\* Every unload ends, and every call that was given up rejects, even if the backend never
\* answers a read and no setup ever settles.
TeardownsConverge ==
    /\ owner = "unloading" ~> owner = "gone"
    /\ factory = "unloading" ~> factory = "gone"
    /\ \A a \in Attempts :
          a \in aborted /\ phase[a] \in {"loading", "setup"} ~> phase[a] \in {"live", "failed"}
=============================================================================
