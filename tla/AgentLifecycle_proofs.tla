------------------------- MODULE AgentLifecycle_proofs -------------------------
(***************************************************************************)
(* Theorems about AgentLifecycle, for any set of calls: its types, that a  *)
(* driver at work is always the one the registries hold, that every        *)
(* announced creation is paired with its disposal, that a call which       *)
(* rejects leaves nothing behind, that the stored identity has one user at *)
(* a time, and that an unload leaves none of its agents behind.            *)
(***************************************************************************)
EXTENDS AgentLifecycle, TLAPS

-----------------------------------------------------------------------------
(***************************************************************************)
(* Types.                                                                  *)
(***************************************************************************)

\* The steps of a load keep the types.
LEMMA LoadKeepsTypes ==
    ASSUME TypeOK, NEW a \in Attempts,
           \/ Resume(a) \/ StartConfigured(a) \/ IdentityReleased(a) \/ Reserve(a)
           \/ AskAgain(a) \/ LoadRefused(a) \/ LoadDelivered(a) \/ AbandonLoad(a)
           \/ ReleaseAbandoned(a)
    PROVE  TypeOK'
<1> USE DEF TypeOK, Settled, Goes, Fails, StartLoad, AskPool, callVars, resourceVars,
            identityVars, poolVars, fiberVars
<1>1. CASE Resume(a)            BY <1>1 DEF Resume
<1>2. CASE StartConfigured(a)   BY <1>2 DEF StartConfigured
<1>3. CASE IdentityReleased(a)  BY <1>3 DEF IdentityReleased
<1>4. CASE Reserve(a)           BY <1>4 DEF Reserve
<1>5. CASE AskAgain(a)          BY <1>5 DEF AskAgain
<1>6. CASE LoadRefused(a)       BY <1>6 DEF LoadRefused
<1>7. CASE LoadDelivered(a)     BY <1>7 DEF LoadDelivered
<1>8. CASE AbandonLoad(a)       BY <1>8 DEF AbandonLoad
<1>9. CASE ReleaseAbandoned(a)  BY <1>9 DEF ReleaseAbandoned
<1>10. QED
  BY <1>1, <1>2, <1>3, <1>4, <1>5, <1>6, <1>7, <1>8, <1>9

\* However far a publication comes, its announcements keep the types.
LEMMA AnnouncesKeepsTypes ==
    ASSUME TypeOK, NEW a \in Attempts, NEW s \in Stages, Announces(a, s)
    PROVE  /\ holder' \in Attempts \cup {Nobody}
           /\ announced' \in [Attempts -> SUBSET {"session", "agent"}]
           /\ disposed' \in [Attempts -> SUBSET {"session", "agent"}]
           /\ driver' \in [Attempts -> {"idle", "busy"}]
           /\ pool' \in {"empty", "loading", "ready", "reserved"}
           /\ grant' \in [Attempts -> {"none", "asked", "granted", "delivered"}]
<1>1. CASE s = "enter"
  BY <1>1 DEF Announces, TypeOK, identityVars, poolVars
<1>2. CASE s # "enter"
  <2>1. holder' = a /\ disposed' = [disposed EXCEPT ![a] = {}]
    BY <1>2 DEF Announces
  <2>2. announced' \in [Attempts -> SUBSET {"session", "agent"}]
    BY <1>2 DEF Announces, TypeOK
  <2>3. driver' \in [Attempts -> {"idle", "busy"}]
    BY <1>2 DEF Announces, TypeOK
  <2>4. Consumes(a) \/ UNCHANGED poolVars
    BY <1>2 DEF Announces
  <2>5. holder' \in Attempts \cup {Nobody}
    BY <2>1
  <2>6. disposed' \in [Attempts -> SUBSET {"session", "agent"}]
    BY <2>1 DEF TypeOK
  <2>7. /\ pool' \in {"empty", "loading", "ready", "reserved"}
        /\ grant' \in [Attempts -> {"none", "asked", "granted", "delivered"}]
    <3>1. CASE Consumes(a)
      BY <3>1 DEF Consumes, TypeOK, poolVars
    <3>2. CASE UNCHANGED poolVars
      BY <3>2 DEF TypeOK, poolVars
    <3>3. QED
      BY <2>4, <3>1, <3>2
  <2>8. QED
    BY <2>2, <2>3, <2>5, <2>6, <2>7
<1>3. QED
  BY <1>1, <1>2

\* Setup, publication and their failures keep the types.
LEMMA PublicationKeepsTypes ==
    ASSUME TypeOK, NEW a \in Attempts,
           \/ Create(a) \/ Continue(a) \/ SetupFails(a) \/ \E s \in Stages : Publish(a, s)
           \/ RollbackDone(a) \/ ListedPresent(a) \/ \E s \in Stages : ListedAbsent(a, s)
    PROVE  TypeOK'
<1> USE DEF TypeOK, Settled, Goes, Fails, Prepared, BeginTeardown, GivesBack, callVars,
            resourceVars, identityVars, poolVars, fiberVars
<1>1. CASE Create(a)        BY <1>1 DEF Create
<1>2. CASE Continue(a)      BY <1>2 DEF Continue
<1>3. CASE SetupFails(a)    BY <1>3 DEF SetupFails
<1>4. CASE RollbackDone(a)  BY <1>4 DEF RollbackDone
<1>5. CASE ListedPresent(a) BY <1>5 DEF ListedPresent
<1>6. ASSUME NEW s \in Stages, Publish(a, s) PROVE TypeOK'
  <2>1. Announces(a, s)
    BY <1>6 DEF Publish
  <2>2. QED
    BY <1>6, <2>1, AnnouncesKeepsTypes DEF Publish
<1>7. ASSUME NEW s \in Stages, ListedAbsent(a, s) PROVE TypeOK'
  <2>1. CASE IsActive /\ IdentityFree
    <3>1. Announces(a, s)
      BY <1>7, <2>1 DEF ListedAbsent
    <3>2. QED
      BY <1>7, <2>1, <3>1, AnnouncesKeepsTypes DEF ListedAbsent
  <2>2. CASE ~(IsActive /\ IdentityFree)
    BY <1>7, <2>2 DEF ListedAbsent
  <2>3. QED
    BY <2>1, <2>2
<1>8. QED
  BY <1>1, <1>2, <1>3, <1>4, <1>5, <1>6, <1>7

\* Work, teardowns and aborts keep the types.
LEMMA TeardownKeepsTypes ==
    ASSUME TypeOK, NEW a \in Attempts,
           \/ DisposeHandle(a) \/ Drained(a) \/ ScopeUnwinds(a) \/ Leave(a)
           \/ StartWork(a) \/ FinishWork(a) \/ CallerAborts(a) \/ OwnerCleans(a)
    PROVE  TypeOK'
<1> USE DEF TypeOK, Settled, BeginTeardown, callVars, resourceVars, identityVars, poolVars,
            fiberVars
<1>1. CASE DisposeHandle(a) BY <1>1 DEF DisposeHandle
<1>2. CASE Drained(a)       BY <1>2 DEF Drained
<1>3. CASE ScopeUnwinds(a)  BY <1>3 DEF ScopeUnwinds
<1>4. CASE Leave(a)         BY <1>4 DEF Leave, Unregisters, AnnouncesDisposal
<1>5. CASE StartWork(a)     BY <1>5 DEF StartWork
<1>6. CASE FinishWork(a)    BY <1>6 DEF FinishWork
<1>7. CASE CallerAborts(a)  BY <1>7 DEF CallerAborts
<1>8. CASE OwnerCleans(a)   BY <1>8 DEF OwnerCleans
<1>9. QED
  BY <1>1, <1>2, <1>3, <1>4, <1>5, <1>6, <1>7, <1>8

\* The unloads keep the types.
LEMMA UnloadKeepsTypes ==
    ASSUME TypeOK,
           OwnerUnloads \/ OwnerGone \/ FactoryUnloads \/ FactoryDisposes \/ FactoryGone
    PROVE  TypeOK'
<1> USE DEF TypeOK, Settled, callVars, resourceVars, identityVars, poolVars, fiberVars
<1>1. CASE OwnerUnloads    BY <1>1 DEF OwnerUnloads
<1>2. CASE OwnerGone       BY <1>2 DEF OwnerGone
<1>3. CASE FactoryUnloads  BY <1>3 DEF FactoryUnloads
<1>4. CASE FactoryDisposes BY <1>4 DEF FactoryDisposes
<1>5. CASE FactoryGone     BY <1>5 DEF FactoryGone
<1>6. QED
  BY <1>1, <1>2, <1>3, <1>4, <1>5

LEMMA InitTypes == Init => TypeOK
BY DEF Init, TypeOK, Settled

LEMMA NextKeepsTypes == TypeOK /\ [Next]_vars => TypeOK'
<1> SUFFICES ASSUME TypeOK, [Next]_vars PROVE TypeOK'
  OBVIOUS
<1>1. CASE UNCHANGED vars
  BY <1>1 DEF vars, callVars, resourceVars, identityVars, poolVars, fiberVars, TypeOK, Settled
<1>2. ASSUME NEW a \in Attempts, Advance(a) PROVE TypeOK'
  BY <1>2, LoadKeepsTypes, PublicationKeepsTypes, TeardownKeepsTypes DEF Advance
<1>3. ASSUME NEW a \in Attempts, Environment(a) PROVE TypeOK'
  BY <1>3, LoadKeepsTypes, PublicationKeepsTypes, TeardownKeepsTypes DEF Environment
<1>4. CASE LoadReads \/ LoadFails \/ Evict
  <2>1. CASE LoadReads
    BY <2>1 DEF LoadReads, TypeOK, Settled, callVars, resourceVars, identityVars, fiberVars
  <2>2. CASE LoadFails
    BY <2>2 DEF LoadFails, TypeOK, Settled, identityVars, fiberVars
  <2>3. CASE Evict
    BY <2>3 DEF Evict, TypeOK, Settled, callVars, resourceVars, identityVars, fiberVars
  <2>4. QED
    BY <1>4, <2>1, <2>2, <2>3
<1>5. CASE OwnerUnloads \/ OwnerGone \/ FactoryUnloads \/ FactoryDisposes \/ FactoryGone
  BY <1>5, UnloadKeepsTypes
<1>6. QED
  BY <1>1, <1>2, <1>3, <1>4, <1>5 DEF Next

\* Every variable of the factory, its calls and the registries keeps its type.
THEOREM TypeCorrect == Spec => []TypeOK
BY InitTypes, NextKeepsTypes, PTL DEF Spec

-----------------------------------------------------------------------------
(***************************************************************************)
(* Work is registered.                                                     *)
(***************************************************************************)

\* Once a teardown has drained its driver, the driver does not start again.
DrainedStaysIdle ==
    \A a \in Attempts : teardown[a] \in {"unwinding", "done"} => driver[a] = "idle"

\* A call that has succeeded holds the identity until its teardown is over.
LiveHolds ==
    \A a \in Attempts : phase[a] = "live" /\ teardown[a] # "done" => holder = a

\* WorkIsRegistered alone is not inductive: Leave needs that a drained driver is idle,
\* and StartWork that a live agent is the registered one.
WorkInv == TypeOK /\ WorkIsRegistered /\ DrainedStaysIdle /\ LiveHolds

LEMMA InitWork == Init => WorkInv
BY InitTypes DEF Init, WorkInv, WorkIsRegistered, DrainedStaysIdle, LiveHolds

\* A load neither publishes nor touches teardowns, drivers or the registries.
LEMMA LoadKeepsWork ==
    ASSUME WorkInv, NEW a \in Attempts,
           \/ Resume(a) \/ StartConfigured(a) \/ IdentityReleased(a) \/ Reserve(a)
           \/ AskAgain(a) \/ LoadRefused(a) \/ LoadDelivered(a) \/ AbandonLoad(a)
           \/ ReleaseAbandoned(a)
    PROVE  (WorkIsRegistered /\ DrainedStaysIdle /\ LiveHolds)'
<1>1. UNCHANGED <<teardown, driver, holder>>
  BY DEF Resume, StartConfigured, IdentityReleased, Reserve, AskAgain, LoadRefused,
         LoadDelivered, AbandonLoad, ReleaseAbandoned, resourceVars, identityVars
<1>2. phase' = phase \/ \E p \in {"waiting", "loading", "loaded", "listing", "failed"} : Goes(a, p)
  BY DEF Resume, StartConfigured, IdentityReleased, Reserve, AskAgain, LoadRefused,
         LoadDelivered, AbandonLoad, ReleaseAbandoned, StartLoad, Fails, callVars
<1>3. QED
  BY <1>1, <1>2 DEF WorkInv, TypeOK, WorkIsRegistered, DrainedStaysIdle, LiveHolds, Goes

\* While the identity is free no driver works and no live agent is left: whoever takes it
\* then, however far it comes, is the only one.
LEMMA AnnouncesKeepsWork ==
    ASSUME WorkInv, NEW a \in Attempts, NEW s \in Stages, s # "enter", holder = Nobody,
           Announces(a, s), NEW p \in {"live", "rollback", "failed"}, Goes(a, p),
           NEW t \in {"no", "draining"}, teardown' = [teardown EXCEPT ![a] = t]
    PROVE  (WorkIsRegistered /\ DrainedStaysIdle /\ LiveHolds)'
<1>1. \A b \in Attempts : driver[b] = "idle"
  BY AttemptsAssumption DEF WorkInv, WorkIsRegistered, TypeOK
<1>2. \A b \in Attempts : phase[b] = "live" => teardown[b] = "done"
  BY AttemptsAssumption DEF WorkInv, LiveHolds
<1>3. /\ holder' = a
      /\ driver' \in {driver, [driver EXCEPT ![a] = "busy"]}
  BY DEF Announces
<1>4. \A b \in Attempts \ {a} : /\ driver'[b] = "idle"
                                /\ phase'[b] = phase[b] /\ teardown'[b] = teardown[b]
  BY <1>1, <1>3 DEF WorkInv, TypeOK, Goes
<1>5. teardown'[a] = t
  BY DEF WorkInv, TypeOK
<1>6. QED
  BY <1>2, <1>3, <1>4, <1>5 DEF WorkIsRegistered, DrainedStaysIdle, LiveHolds

LEMMA PublicationKeepsWork ==
    ASSUME WorkInv, NEW a \in Attempts,
           \/ Create(a) \/ Continue(a) \/ SetupFails(a) \/ \E s \in Stages : Publish(a, s)
           \/ RollbackDone(a) \/ ListedPresent(a) \/ \E s \in Stages : ListedAbsent(a, s)
    PROVE  (WorkIsRegistered /\ DrainedStaysIdle /\ LiveHolds)'
<1> USE DEF WorkInv, TypeOK
<1>1. CASE Create(a) \/ Continue(a) \/ RollbackDone(a) \/ ListedPresent(a)
  <2>1. UNCHANGED <<teardown, driver, holder>>
    BY <1>1 DEF Create, Continue, RollbackDone, ListedPresent, resourceVars, identityVars
  <2>2. \E p \in {"setup", "listing", "failed"} : Goes(a, p)
    BY <1>1 DEF Create, Continue, RollbackDone, ListedPresent, Fails
  <2>3. QED
    BY <2>1, <2>2 DEF WorkIsRegistered, DrainedStaysIdle, LiveHolds, Goes
<1>2. CASE SetupFails(a)
  BY <1>2 DEF SetupFails, Goes, BeginTeardown, identityVars,
              WorkIsRegistered, DrainedStaysIdle, LiveHolds
<1>3. ASSUME NEW s \in Stages, Publish(a, s)
      PROVE  (WorkIsRegistered /\ DrainedStaysIdle /\ LiveHolds)'
  <2>1. teardown[a] = "no"
    BY <1>3 DEF Publish, Aborted
  <2>2. CASE s = "enter"
    <3>1. UNCHANGED <<driver, holder>> /\ Goes(a, "rollback") /\ BeginTeardown(a)
      BY <1>3, <2>2 DEF Publish, Announces, identityVars
    <3>2. QED
      BY <2>1, <3>1 DEF Goes, BeginTeardown, WorkIsRegistered, DrainedStaysIdle, LiveHolds
  <2>3. CASE s # "enter"
    <3>1. holder = Nobody /\ Announces(a, s)
      BY <1>3, <2>3 DEF Publish, Reachable
    <3>2. CASE s = "done"
      <4>1. Goes(a, "live") /\ teardown' = [teardown EXCEPT ![a] = "no"]
        BY <1>3, <2>1, <3>2 DEF Publish
      <4>2. QED
        BY <2>3, <3>1, <4>1, AnnouncesKeepsWork
    <3>3. CASE s # "done"
      <4>1. Goes(a, "rollback") /\ teardown' = [teardown EXCEPT ![a] = "draining"]
        BY <1>3, <2>1, <3>3 DEF Publish, BeginTeardown
      <4>2. QED
        BY <2>3, <3>1, <4>1, AnnouncesKeepsWork
    <3>4. QED
      BY <3>2, <3>3
  <2>4. QED
    BY <2>2, <2>3
<1>4. ASSUME NEW s \in Stages, ListedAbsent(a, s)
      PROVE  (WorkIsRegistered /\ DrainedStaysIdle /\ LiveHolds)'
  <2>1. CASE IsActive /\ IdentityFree
    <3>1. s # "enter" /\ holder = Nobody /\ Announces(a, s)
      BY <1>4, <2>1 DEF ListedAbsent, Reachable, IdentityFree
    <3>2. CASE s = "done"
      <4>1. Goes(a, "live") /\ teardown' = [teardown EXCEPT ![a] = "no"]
        BY <1>4, <2>1, <3>2 DEF ListedAbsent
      <4>2. QED
        BY <3>1, <4>1, AnnouncesKeepsWork
    <3>3. CASE s # "done"
      <4>1. Goes(a, "failed") /\ teardown' = [teardown EXCEPT ![a] = "draining"]
        BY <1>4, <2>1, <3>3 DEF ListedAbsent
      <4>2. QED
        BY <3>1, <4>1, AnnouncesKeepsWork
    <3>4. QED
      BY <3>2, <3>3
  <2>2. CASE ~(IsActive /\ IdentityFree)
    BY <1>4, <2>2 DEF ListedAbsent, Goes, resourceVars, identityVars,
                      WorkIsRegistered, DrainedStaysIdle, LiveHolds
  <2>3. QED
    BY <2>1, <2>2
<1>5. QED
  BY <1>1, <1>2, <1>3, <1>4

\* Leave is where the invariant is at stake: who leaves is drained, and takes only its
\* own entry away.
LEMMA TeardownKeepsWork ==
    ASSUME WorkInv, NEW a \in Attempts,
           \/ DisposeHandle(a) \/ Drained(a) \/ ScopeUnwinds(a) \/ Leave(a)
           \/ StartWork(a) \/ FinishWork(a) \/ CallerAborts(a) \/ OwnerCleans(a)
    PROVE  (WorkIsRegistered /\ DrainedStaysIdle /\ LiveHolds)'
<1> USE DEF WorkInv, TypeOK, WorkIsRegistered, DrainedStaysIdle, LiveHolds, callVars,
            resourceVars, identityVars
<1>1. CASE DisposeHandle(a) BY <1>1 DEF DisposeHandle, BeginTeardown
<1>2. CASE Drained(a)       BY <1>2 DEF Drained
<1>3. CASE ScopeUnwinds(a)  BY <1>3 DEF ScopeUnwinds
<1>4. CASE Leave(a)
  <2>1. driver[a] = "idle" /\ UNCHANGED <<phase, driver>>
    BY <1>4 DEF Leave
  <2>2. teardown' = [teardown EXCEPT ![a] = "done"]
    BY <1>4 DEF Leave
  <2>3. \A b \in Attempts \ {a} : holder = b => holder' = b
    BY <1>4 DEF Leave, Unregisters
  <2>4. QED
    BY <2>1, <2>2, <2>3
<1>5. CASE StartWork(a)     BY <1>5 DEF StartWork
<1>6. CASE FinishWork(a)    BY <1>6 DEF FinishWork
<1>7. CASE CallerAborts(a)  BY <1>7 DEF CallerAborts
<1>8. CASE OwnerCleans(a)   BY <1>8 DEF OwnerCleans, BeginTeardown
<1>9. QED
  BY <1>1, <1>2, <1>3, <1>4, <1>5, <1>6, <1>7, <1>8

LEMMA NextKeepsWork == WorkInv /\ [Next]_vars => WorkInv'
<1> SUFFICES ASSUME WorkInv, [Next]_vars
             PROVE  (WorkIsRegistered /\ DrainedStaysIdle /\ LiveHolds)'
  BY NextKeepsTypes DEF WorkInv
<1>1. CASE UNCHANGED vars
  BY <1>1 DEF vars, callVars, resourceVars, identityVars, WorkInv, WorkIsRegistered,
              DrainedStaysIdle, LiveHolds
<1>2. ASSUME NEW a \in Attempts, Advance(a)
      PROVE  (WorkIsRegistered /\ DrainedStaysIdle /\ LiveHolds)'
  BY <1>2, LoadKeepsWork, PublicationKeepsWork, TeardownKeepsWork DEF Advance
<1>3. ASSUME NEW a \in Attempts, Environment(a)
      PROVE  (WorkIsRegistered /\ DrainedStaysIdle /\ LiveHolds)'
  BY <1>3, LoadKeepsWork, PublicationKeepsWork, TeardownKeepsWork DEF Environment
<1>4. CASE LoadFails
  BY <1>4 DEF LoadFails, identityVars, WorkInv, TypeOK, WorkIsRegistered, DrainedStaysIdle,
              LiveHolds
<1>5. CASE FactoryDisposes
  BY <1>5 DEF FactoryDisposes, callVars, identityVars, WorkInv, TypeOK, WorkIsRegistered,
              DrainedStaysIdle, LiveHolds
<1>6. CASE LoadReads \/ Evict \/ OwnerUnloads \/ OwnerGone \/ FactoryUnloads \/ FactoryGone
  BY <1>6 DEF LoadReads, Evict, OwnerUnloads, OwnerGone, FactoryUnloads, FactoryGone, callVars,
              resourceVars, identityVars, WorkInv, WorkIsRegistered, DrainedStaysIdle, LiveHolds
<1>7. QED
  BY <1>1, <1>2, <1>3, <1>4, <1>5, <1>6 DEF Next

\* A driver at work is always that of the agent the registries hold, for any number of
\* calls that create, resume, roll back and dispose of one identity.
THEOREM WorkStaysRegistered == Spec => []WorkIsRegistered
<1>1. WorkInv => WorkIsRegistered
  BY DEF WorkInv
<1>2. QED
  BY <1>1, InitWork, NextKeepsWork, PTL DEF Spec

-----------------------------------------------------------------------------
(***************************************************************************)
(* Creations are paired.                                                   *)
(***************************************************************************)

PairInv == TypeOK /\ CreationsArePaired

LEMMA InitPairs == Init => PairInv
BY InitTypes, AttemptsAssumption DEF Init, PairInv, CreationsArePaired

\* Who takes the free identity has nothing left to pair, and takes nobody's place.
LEMMA AnnouncesKeepsPairs ==
    ASSUME PairInv, NEW a \in Attempts, NEW s \in Stages, Announces(a, s),
           (s = "enter") <=> (holder # Nobody)
    PROVE  CreationsArePaired'
<1>1. CASE s = "enter"
  BY <1>1 DEF Announces, identityVars, PairInv, CreationsArePaired
<1>2. CASE s # "enter"
  <2>1. \A b \in Attempts : disposed[b] = announced[b]
    BY <1>2, AttemptsAssumption DEF PairInv, CreationsArePaired
  <2>2. /\ holder' = a
        /\ disposed' = [disposed EXCEPT ![a] = {}]
        /\ \A b \in Attempts \ {a} : announced'[b] = announced[b]
    BY <1>2 DEF Announces, PairInv, TypeOK
  <2>3. disposed'[a] = {} /\ \A b \in Attempts \ {a} : disposed'[b] = disposed[b]
    BY <2>2 DEF PairInv, TypeOK
  <2>4. QED
    BY <2>1, <2>2, <2>3 DEF CreationsArePaired
<1>3. QED
  BY <1>1, <1>2

\* The two publications.
LEMMA PublicationKeepsPairs ==
    ASSUME PairInv, NEW a \in Attempts, NEW s \in Stages, Publish(a, s) \/ ListedAbsent(a, s)
    PROVE  CreationsArePaired'
<1>1. CASE Publish(a, s)
  BY <1>1, AnnouncesKeepsPairs DEF Publish, Reachable
<1>2. CASE ListedAbsent(a, s)
  <2>1. CASE IsActive /\ IdentityFree
    BY <1>2, <2>1, AnnouncesKeepsPairs DEF ListedAbsent, Reachable
  <2>2. CASE ~(IsActive /\ IdentityFree)
    BY <1>2, <2>2 DEF ListedAbsent, identityVars, PairInv, CreationsArePaired
  <2>3. QED
    BY <2>1, <2>2
<1>3. QED
  BY <1>1, <1>2

\* The end of a teardown pairs what its own publication announced, and nothing else.
LEMMA LeaveKeepsPairs ==
    ASSUME PairInv, NEW a \in Attempts, Leave(a)
    PROVE  CreationsArePaired'
<1>1. announced' = announced
  BY DEF Leave
<1>2. CASE holder = a
  <2>1. holder' = Nobody /\ disposed' = [disposed EXCEPT ![a] = announced[a]]
    BY <1>2 DEF Leave, Unregisters, AnnouncesDisposal
  <2>2. QED
    BY <1>1, <1>2, <2>1, AttemptsAssumption DEF PairInv, TypeOK, CreationsArePaired
<1>3. CASE holder # a
  BY <1>1, <1>3 DEF Leave, Unregisters, PairInv, CreationsArePaired
<1>4. QED
  BY <1>2, <1>3

LEMMA NextKeepsPairs == PairInv /\ [Next]_vars => PairInv'
<1> SUFFICES ASSUME PairInv, [Next]_vars PROVE CreationsArePaired'
  BY NextKeepsTypes DEF PairInv
<1>1. CASE UNCHANGED identityVars
  BY <1>1 DEF identityVars, PairInv, CreationsArePaired
<1>2. ASSUME NEW a \in Attempts, NEW s \in Stages, Publish(a, s) \/ ListedAbsent(a, s)
      PROVE  CreationsArePaired'
  BY <1>2, PublicationKeepsPairs
<1>3. ASSUME NEW a \in Attempts, Leave(a)
      PROVE  CreationsArePaired'
  BY <1>3, LeaveKeepsPairs
<1>4. ASSUME NEW a \in Attempts, Advance(a)
      PROVE  CreationsArePaired'
  BY <1>1, <1>2, <1>3, <1>4
     DEF Advance, IdentityReleased, LoadRefused, LoadDelivered, AbandonLoad, ReleaseAbandoned,
         Continue, RollbackDone, ListedPresent, Drained, ScopeUnwinds, OwnerCleans
<1>5. ASSUME NEW a \in Attempts, Environment(a)
      PROVE  CreationsArePaired'
  BY <1>1, <1>2, <1>5
     DEF Environment, Resume, StartConfigured, Create, Reserve, AskAgain, SetupFails,
         DisposeHandle, StartWork, FinishWork, CallerAborts
<1>6. CASE \/ LoadReads \/ LoadFails \/ Evict \/ OwnerUnloads \/ OwnerGone \/ FactoryUnloads
           \/ FactoryDisposes \/ FactoryGone
  BY <1>1, <1>6 DEF LoadReads, LoadFails, Evict, OwnerUnloads, OwnerGone, FactoryUnloads,
                    FactoryDisposes, FactoryGone
<1>7. QED
  BY <1>1, <1>4, <1>5, <1>6 DEF Next, vars

\* Every creation a listener heard of is followed by its disposal once the agent has left
\* the registries, and by none before, for any number of calls that race for the identity.
THEOREM PairsAreKept == Spec => []CreationsArePaired
<1>1. PairInv => CreationsArePaired
  BY DEF PairInv
<1>2. QED
  BY <1>1, InitPairs, NextKeepsPairs, PTL DEF Spec

-----------------------------------------------------------------------------
(***************************************************************************)
(* The resources of a call: what a rejection leaves, who uses the stored   *)
(* identity, what an unload leaves.  The invariant follows a call from its *)
(* load to its teardown; each of its parts needs some of the others.       *)
(***************************************************************************)

\* A call that has no agent yet has no scope, no teardown, and at most the effect of its load;
\* one that has, has its scope, and is known to its owner until somebody disposes of it.
Begun ==
    \A a \in Attempts :
        /\ phase[a] \in {"idle", "waiting", "loading", "loaded"} =>
             scope[a] = "none" /\ teardown[a] = "no" /\ effect[a] \in {"off", "load"}
        /\ phase[a] \in {"idle", "waiting", "loaded"} => effect[a] = "off"
        /\ phase[a] \in {"idle", "waiting"} => grant[a] = "none"
        /\ phase[a] = "listing" => kind[a] = "configured"
        /\ phase[a] \in {"setup", "rollback", "live"} => scope[a] # "none"
        /\ phase[a] \in {"setup", "live"} /\ teardown[a] = "no" => effect[a] = "on"
        /\ teardown[a] = "done" => scope[a] = "gone" /\ effect[a] = "off"

\* Who is registered was published and is not torn down yet; only create() fails with it.
Held ==
    \A a \in Attempts : holder = a =>
        /\ scope[a] # "none" /\ teardown[a] # "done"
        /\ phase[a] \in {"live", "rollback"} \/ (phase[a] = "failed" /\ kind[a] = "configured")

\* The pool is reserved for exactly one call, on its way or in its hands.
Granted ==
    /\ \A a \in Attempts :
         /\ grant[a] = "asked" => phase[a] = "loading"
         /\ grant[a] = "delivered" => phase[a] \in {"loaded", "setup", "rollback"}
         /\ grant[a] \in {"granted", "delivered"} => pool = "reserved"
    /\ \A a, b \in Attempts :
         grant[a] \in {"granted", "delivered"} /\ grant[b] \in {"granted", "delivered"} => a = b
    /\ pool = "reserved" => \E a \in Attempts : grant[a] \in {"granted", "delivered"}

\* A disposing factory has begun the teardown of every agent that was made.
Disposing ==
    FactoryAborted => \A a \in Attempts : scope[a] # "none" => teardown[a] # "no"

\* A call that has rejected has no scope and no effect; only create() rejects with them.
Rejected ==
    \A a \in Attempts : phase[a] = "failed" /\ kind[a] # "configured" =>
        scope[a] # "open" /\ effect[a] = "off"

\* No unpublished twin of a live agent's session is kept.
Alone == \A a \in Attempts : phase[a] = "live" /\ holder = a => pool = "empty"

\* What an unload that is over has seen to.
Unloaded ==
    /\ owner = "gone" => \A a \in Attempts :
          kind[a] # "configured" /\ phase[a] \in {"setup", "live"} => teardown[a] # "no"
    /\ factory = "gone" =>
          /\ holder = Nobody
          /\ \A a \in Attempts : phase[a] \in Settled /\ scope[a] # "open"

\* The parts lean on each other: a rollback that is done has no scope (Begun) and holds
\* nothing (Held, Granted); a factory that is gone holds nobody because every agent's
\* teardown had begun (Disposing).
LifeParts == Begun /\ Held /\ Granted /\ Disposing /\ Rejected /\ Alone /\ Unloaded
LifeInv == WorkInv /\ LifeParts

\* resume() begins: the call has no agent yet, and at most a load on its owner.
LEMMA ResumeKeepsLife ==
    ASSUME LifeInv, NEW a \in Attempts, Resume(a)
    PROVE  LifeParts'
<1> USE AttemptsAssumption DEF LifeInv, LifeParts, WorkInv, TypeOK, Resume, StartLoad,
                               AskPool, Goes, IsActive, Aborted, identityVars, poolVars,
                               fiberVars
<1>1. Begun'      BY DEF Begun
<1>2. Held'       BY DEF Held
<1>3. Granted'    BY DEF Granted, Begun
<1>4. Disposing'  BY DEF Disposing, FactoryAborted
<1>5. Rejected'   BY DEF Rejected
<1>6. Alone'      BY DEF Alone
<1>7. Unloaded'   BY DEF Unloaded, Settled
<1>8. QED
  BY <1>1, <1>2, <1>3, <1>4, <1>5, <1>6, <1>7

\* A configured agent begins to wait for the identity.
LEMMA StartConfiguredKeepsLife ==
    ASSUME LifeInv, NEW a \in Attempts, StartConfigured(a)
    PROVE  LifeParts'
<1> USE DEF LifeInv, LifeParts, WorkInv, TypeOK, StartConfigured, Goes, IsActive,
            resourceVars, identityVars, poolVars, fiberVars
<1>1. Begun'      BY DEF Begun
<1>2. Held'       BY DEF Held
<1>3. Granted'    BY DEF Granted
<1>4. Disposing'  BY DEF Disposing, FactoryAborted
<1>5. Rejected'   BY DEF Rejected
<1>6. Alone'      BY DEF Alone
<1>7. Unloaded'   BY DEF Unloaded, Settled
<1>8. QED
  BY <1>1, <1>2, <1>3, <1>4, <1>5, <1>6, <1>7

\* The wait for the identity ends with a load, or with the factory's unload.
LEMMA IdentityReleasedKeepsLife ==
    ASSUME LifeInv, NEW a \in Attempts, IdentityReleased(a)
    PROVE  LifeParts'
<1> USE AttemptsAssumption DEF LifeInv, LifeParts, WorkInv, TypeOK, IdentityReleased,
                               StartLoad, AskPool, Goes, IsActive, Aborted, identityVars,
                               poolVars, fiberVars
<1>1. Begun'      BY DEF Begun
<1>2. Held'       BY DEF Held
<1>3. Granted'    BY DEF Granted, Begun
<1>4. Disposing'  BY DEF Disposing, FactoryAborted
<1>5. Rejected'   BY DEF Rejected, Begun, Granted
<1>6. Alone'      BY DEF Alone
<1>7. Unloaded'   BY DEF Unloaded, Settled
<1>8. QED
  BY <1>1, <1>2, <1>3, <1>4, <1>5, <1>6, <1>7

\* reserve() takes the ready entry, which nobody else had; the identity is free.
LEMMA ReserveKeepsLife ==
    ASSUME LifeInv, NEW a \in Attempts, Reserve(a)
    PROVE  LifeParts'
<1> USE DEF LifeInv, LifeParts, WorkInv, TypeOK, Reserve, callVars, resourceVars,
            identityVars, fiberVars
<1>1. Begun'      BY DEF Begun
<1>2. Held'       BY DEF Held
<1>3. Granted'    BY DEF Granted
<1>4. Disposing'  BY DEF Disposing, FactoryAborted
<1>5. Rejected'   BY DEF Rejected
<1>6. Alone'      BY DEF Alone
<1>7. Unloaded'   BY DEF Unloaded, Settled
<1>8. QED
  BY <1>1, <1>2, <1>3, <1>4, <1>5, <1>6, <1>7

\* prepare() begins again.
LEMMA AskAgainKeepsLife ==
    ASSUME LifeInv, NEW a \in Attempts, AskAgain(a)
    PROVE  LifeParts'
<1> USE AttemptsAssumption DEF LifeInv, LifeParts, WorkInv, TypeOK, AskAgain, AskPool,
                               callVars, resourceVars, identityVars, fiberVars
<1>1. Begun'      BY DEF Begun
<1>2. Held'       BY DEF Held
<1>3. Granted'    BY DEF Granted
<1>4. Disposing'  BY DEF Disposing, FactoryAborted
<1>5. Rejected'   BY DEF Rejected
<1>6. Alone'      BY DEF Alone
<1>7. Unloaded'   BY DEF Unloaded, Settled
<1>8. QED
  BY <1>1, <1>2, <1>3, <1>4, <1>5, <1>6, <1>7

\* A call that is refused held no reservation, and its effect leaves the owner with it.
LEMMA LoadRefusedKeepsLife ==
    ASSUME LifeInv, NEW a \in Attempts, LoadRefused(a)
    PROVE  LifeParts'
<1> USE DEF LifeInv, LifeParts, WorkInv, TypeOK, LoadRefused, Fails, Goes, IsActive,
            identityVars, fiberVars
<1>1. Begun'      BY DEF Begun
<1>2. Held'       BY DEF Held
<1>3. Granted'    BY DEF Granted
<1>4. Disposing'  BY DEF Disposing, FactoryAborted
<1>5. Rejected'   BY DEF Rejected, Begun, Granted
<1>6. Alone'      BY DEF Alone
<1>7. Unloaded'   BY DEF Unloaded, Settled
<1>8. QED
  BY <1>1, <1>2, <1>3, <1>4, <1>5, <1>6, <1>7

\* The one reservation passes into its call's hands, whose load is over.
LEMMA LoadDeliveredKeepsLife ==
    ASSUME LifeInv, NEW a \in Attempts, LoadDelivered(a)
    PROVE  LifeParts'
<1> USE DEF LifeInv, LifeParts, WorkInv, TypeOK, LoadDelivered, Goes, identityVars, fiberVars
<1>1. Begun'      BY DEF Begun
<1>2. Held'       BY DEF Held
<1>3. Granted'    BY DEF Granted
<1>4. Disposing'  BY DEF Disposing, FactoryAborted
<1>5. Rejected'   BY DEF Rejected
<1>6. Alone'      BY DEF Alone
<1>7. Unloaded'   BY DEF Unloaded, Settled
<1>8. QED
  BY <1>1, <1>2, <1>3, <1>4, <1>5, <1>6, <1>7

\* An abandoned load takes its effect with it; the reservation may still come.
LEMMA AbandonLoadKeepsLife ==
    ASSUME LifeInv, NEW a \in Attempts, AbandonLoad(a)
    PROVE  LifeParts'
<1> USE DEF LifeInv, LifeParts, WorkInv, TypeOK, AbandonLoad, Fails, Goes, IsActive,
            identityVars, fiberVars
<1>1. Begun'      BY DEF Begun
<1>2. Held'       BY DEF Held
<1>3. Granted'    BY DEF Granted
<1>4. Disposing'  BY DEF Disposing, FactoryAborted
<1>5. Rejected'   BY DEF Rejected, Begun, Granted
<1>6. Alone'      BY DEF Alone
<1>7. Unloaded'   BY DEF Unloaded, Settled
<1>8. QED
  BY <1>1, <1>2, <1>3, <1>4, <1>5, <1>6, <1>7

\* The reservation was the only one, so nobody has the entry once it is given back.
LEMMA ReleaseAbandonedKeepsLife ==
    ASSUME LifeInv, NEW a \in Attempts, ReleaseAbandoned(a)
    PROVE  LifeParts'
<1> USE DEF LifeInv, LifeParts, WorkInv, TypeOK, ReleaseAbandoned, callVars, resourceVars,
            identityVars, fiberVars
<1>1. Begun'      BY DEF Begun
<1>2. Held'       BY DEF Held
<1>3. Granted'    BY DEF Granted
<1>4. Disposing'  BY DEF Disposing, FactoryAborted
<1>5. Rejected'   BY DEF Rejected
<1>6. Alone'      BY DEF Alone, Granted
<1>7. Unloaded'   BY DEF Unloaded, Settled
<1>8. QED
  BY <1>1, <1>2, <1>3, <1>4, <1>5, <1>6, <1>7

\* create() prepares an agent with its scope and its teardown, or fails with neither.
LEMMA CreateKeepsLife ==
    ASSUME LifeInv, NEW a \in Attempts, Create(a)
    PROVE  LifeParts'
<1> USE DEF LifeInv, LifeParts, WorkInv, TypeOK, Create, Goes, Prepared, IsActive,
            identityVars, poolVars, fiberVars
<1>1. Begun'      BY DEF Begun
<1>2. Held'       BY DEF Held
<1>3. Granted'    BY DEF Granted
<1>4. Disposing'  BY DEF Disposing, FactoryAborted
<1>5. Rejected'   BY DEF Rejected, Begun, Granted
<1>6. Alone'      BY DEF Alone
<1>7. Unloaded'   BY DEF Unloaded, Settled, Begun
<1>8. QED
  BY <1>1, <1>2, <1>3, <1>4, <1>5, <1>6, <1>7

\* resumeWith() goes on, or gives the reservation back: the pool was reserved for it alone.
LEMMA ContinueKeepsLife ==
    ASSUME LifeInv, NEW a \in Attempts, Continue(a)
    PROVE  LifeParts'
<1> USE DEF LifeInv, LifeParts, WorkInv, TypeOK, Continue, Fails, Goes, Prepared, Preparable,
            OwnerOf, GivesBack, IsActive, identityVars, poolVars, fiberVars
<1>1. Begun'      BY DEF Begun
<1>2. Held'       BY DEF Held
<1>3. Granted'    BY DEF Granted
<1>4. Disposing'  BY DEF Disposing, FactoryAborted
<1>5. Rejected'   BY DEF Rejected, Begun, Granted
<1>6. Alone'      BY DEF Alone, Granted
<1>7. Unloaded'   BY DEF Unloaded, Settled
<1>8. QED
  BY <1>1, <1>2, <1>3, <1>4, <1>5, <1>6, <1>7

\* The rollback begins; the reservation stays with the call.
LEMMA SetupFailsKeepsLife ==
    ASSUME LifeInv, NEW a \in Attempts, SetupFails(a)
    PROVE  LifeParts'
<1> USE DEF LifeInv, LifeParts, WorkInv, TypeOK, SetupFails, Goes, BeginTeardown,
            identityVars, poolVars, fiberVars
<1>1. Begun'      BY DEF Begun
<1>2. Held'       BY DEF Held
<1>3. Granted'    BY DEF Granted
<1>4. Disposing'  BY DEF Disposing, FactoryAborted
<1>5. Rejected'   BY DEF Rejected
<1>6. Alone'      BY DEF Alone
<1>7. Unloaded'   BY DEF Unloaded, Settled
<1>8. QED
  BY <1>1, <1>2, <1>3, <1>4, <1>5, <1>6, <1>7

\* The call rejects once its teardown is done: it holds neither scope nor identity.
LEMMA RollbackDoneKeepsLife ==
    ASSUME LifeInv, NEW a \in Attempts, RollbackDone(a)
    PROVE  LifeParts'
<1> USE DEF LifeInv, LifeParts, WorkInv, TypeOK, RollbackDone, Fails, Goes, GivesBack,
            IsActive, resourceVars, identityVars, poolVars, fiberVars
<1>1. Begun'      BY DEF Begun
<1>2. Held'       BY DEF Held
<1>3. Granted'    BY DEF Granted
<1>4. Disposing'  BY DEF Disposing, FactoryAborted
<1>5. Rejected'   BY DEF Rejected, Begun, Granted
<1>6. Alone'      BY DEF Alone, Granted
<1>7. Unloaded'   BY DEF Unloaded, Settled
<1>8. QED
  BY <1>1, <1>2, <1>3, <1>4, <1>5, <1>6, <1>7

\* A configured agent's failure is reported; its call has nothing.
LEMMA ListedPresentKeepsLife ==
    ASSUME LifeInv, NEW a \in Attempts, ListedPresent(a)
    PROVE  LifeParts'
<1> USE DEF LifeInv, LifeParts, WorkInv, TypeOK, ListedPresent, Goes, resourceVars,
            identityVars, poolVars, fiberVars
<1>1. Begun'      BY DEF Begun
<1>2. Held'       BY DEF Held
<1>3. Granted'    BY DEF Granted
<1>4. Disposing'  BY DEF Disposing, FactoryAborted
<1>5. Rejected'   BY DEF Rejected, Begun, Granted
<1>6. Alone'      BY DEF Alone
<1>7. Unloaded'   BY DEF Unloaded, Settled
<1>8. QED
  BY <1>1, <1>2, <1>3, <1>4, <1>5, <1>6, <1>7

\* handle.dispose() begins the teardown.
LEMMA DisposeHandleKeepsLife ==
    ASSUME LifeInv, NEW a \in Attempts, DisposeHandle(a)
    PROVE  LifeParts'
<1> USE DEF LifeInv, LifeParts, WorkInv, TypeOK, DisposeHandle, BeginTeardown, callVars,
            identityVars, poolVars, fiberVars
<1>1. Begun'      BY DEF Begun
<1>2. Held'       BY DEF Held
<1>3. Granted'    BY DEF Granted
<1>4. Disposing'  BY DEF Disposing, FactoryAborted
<1>5. Rejected'   BY DEF Rejected
<1>6. Alone'      BY DEF Alone
<1>7. Unloaded'   BY DEF Unloaded, Settled
<1>8. QED
  BY <1>1, <1>2, <1>3, <1>4, <1>5, <1>6, <1>7

\* The driver has converged.
LEMMA DrainedKeepsLife ==
    ASSUME LifeInv, NEW a \in Attempts, Drained(a)
    PROVE  LifeParts'
<1> USE DEF LifeInv, LifeParts, WorkInv, TypeOK, Drained, callVars, identityVars, poolVars,
            fiberVars
<1>1. Begun'      BY DEF Begun
<1>2. Held'       BY DEF Held
<1>3. Granted'    BY DEF Granted
<1>4. Disposing'  BY DEF Disposing, FactoryAborted
<1>5. Rejected'   BY DEF Rejected
<1>6. Alone'      BY DEF Alone
<1>7. Unloaded'   BY DEF Unloaded, Settled
<1>8. QED
  BY <1>1, <1>2, <1>3, <1>4, <1>5, <1>6, <1>7

\* The scope goes, of an agent whose teardown has begun.
LEMMA ScopeUnwindsKeepsLife ==
    ASSUME LifeInv, NEW a \in Attempts, ScopeUnwinds(a)
    PROVE  LifeParts'
<1> USE DEF LifeInv, LifeParts, WorkInv, TypeOK, ScopeUnwinds, callVars, identityVars,
            poolVars, fiberVars
<1>1. Begun'      BY DEF Begun
<1>2. Held'       BY DEF Held
<1>3. Granted'    BY DEF Granted
<1>4. Disposing'  BY DEF Disposing, FactoryAborted
<1>5. Rejected'   BY DEF Rejected
<1>6. Alone'      BY DEF Alone
<1>7. Unloaded'   BY DEF Unloaded, Settled
<1>8. QED
  BY <1>1, <1>2, <1>3, <1>4, <1>5, <1>6, <1>7

\* The end of dispose(): the agent has no scope, and takes its entry and its effect away.
LEMMA LeaveKeepsLife ==
    ASSUME LifeInv, NEW a \in Attempts, Leave(a)
    PROVE  LifeParts'
<1> USE AttemptsAssumption DEF LifeInv, LifeParts, WorkInv, TypeOK, Leave, Unregisters,
                               callVars, poolVars, fiberVars
<1>1. Begun'      BY DEF Begun
<1>2. Held'       BY DEF Held
<1>3. Granted'    BY DEF Granted
<1>4. Disposing'  BY DEF Disposing, FactoryAborted
<1>5. Rejected'   BY DEF Rejected
<1>6. Alone'      BY DEF Alone
<1>7. Unloaded'   BY DEF Unloaded, Settled
<1>8. QED
  BY <1>1, <1>2, <1>3, <1>4, <1>5, <1>6, <1>7

\* Work is the business of WorkInv.
LEMMA StartWorkKeepsLife ==
    ASSUME LifeInv, NEW a \in Attempts, StartWork(a)
    PROVE  LifeParts'
<1> USE DEF LifeInv, LifeParts, WorkInv, TypeOK, StartWork, callVars, identityVars, poolVars,
            fiberVars
<1>1. Begun'      BY DEF Begun
<1>2. Held'       BY DEF Held
<1>3. Granted'    BY DEF Granted
<1>4. Disposing'  BY DEF Disposing, FactoryAborted
<1>5. Rejected'   BY DEF Rejected
<1>6. Alone'      BY DEF Alone
<1>7. Unloaded'   BY DEF Unloaded, Settled
<1>8. QED
  BY <1>1, <1>2, <1>3, <1>4, <1>5, <1>6, <1>7

\* As it begins, so it ends.
LEMMA FinishWorkKeepsLife ==
    ASSUME LifeInv, NEW a \in Attempts, FinishWork(a)
    PROVE  LifeParts'
<1> USE DEF LifeInv, LifeParts, WorkInv, TypeOK, FinishWork, callVars, identityVars,
            poolVars, fiberVars
<1>1. Begun'      BY DEF Begun
<1>2. Held'       BY DEF Held
<1>3. Granted'    BY DEF Granted
<1>4. Disposing'  BY DEF Disposing, FactoryAborted
<1>5. Rejected'   BY DEF Rejected
<1>6. Alone'      BY DEF Alone
<1>7. Unloaded'   BY DEF Unloaded, Settled
<1>8. QED
  BY <1>1, <1>2, <1>3, <1>4, <1>5, <1>6, <1>7

\* The caller's signal only changes what the call will do next.
LEMMA CallerAbortsKeepsLife ==
    ASSUME LifeInv, NEW a \in Attempts, CallerAborts(a)
    PROVE  LifeParts'
<1> USE DEF LifeInv, LifeParts, WorkInv, TypeOK, CallerAborts, resourceVars, identityVars,
            poolVars, fiberVars
<1>1. Begun'      BY DEF Begun
<1>2. Held'       BY DEF Held
<1>3. Granted'    BY DEF Granted
<1>4. Disposing'  BY DEF Disposing, FactoryAborted
<1>5. Rejected'   BY DEF Rejected
<1>6. Alone'      BY DEF Alone
<1>7. Unloaded'   BY DEF Unloaded, Settled
<1>8. QED
  BY <1>1, <1>2, <1>3, <1>4, <1>5, <1>6, <1>7

\* An unloading fiber takes a load off, or begins a teardown that it then waits for.
LEMMA OwnerCleansKeepsLife ==
    ASSUME LifeInv, NEW a \in Attempts, OwnerCleans(a)
    PROVE  LifeParts'
<1> USE DEF LifeInv, LifeParts, WorkInv, TypeOK, OwnerCleans, OwnerOf, BeginTeardown,
            identityVars, poolVars, fiberVars
<1>1. Begun'      BY DEF Begun
<1>2. Held'       BY DEF Held
<1>3. Granted'    BY DEF Granted
<1>4. Disposing'  BY DEF Disposing, FactoryAborted
<1>5. Rejected'   BY DEF Rejected
<1>6. Alone'      BY DEF Alone
<1>7. Unloaded'   BY DEF Unloaded, Settled
<1>8. QED
  BY <1>1, <1>2, <1>3, <1>4, <1>5, <1>6, <1>7

\* The read is over: the entry is there for all who asked.
LEMMA LoadReadsKeepsLife ==
    ASSUME LifeInv, LoadReads
    PROVE  LifeParts'
<1> USE DEF LifeInv, LifeParts, WorkInv, TypeOK, LoadReads, callVars, resourceVars,
            identityVars, fiberVars
<1>1. Begun'      BY DEF Begun
<1>2. Held'       BY DEF Held
<1>3. Granted'    BY DEF Granted
<1>4. Disposing'  BY DEF Disposing, FactoryAborted
<1>5. Rejected'   BY DEF Rejected
<1>6. Alone'      BY DEF Alone
<1>7. Unloaded'   BY DEF Unloaded, Settled
<1>8. QED
  BY <1>1, <1>2, <1>3, <1>4, <1>5, <1>6, <1>7

\* The read fails: all who asked were loading and had no agent.
LEMMA LoadFailsKeepsLife ==
    ASSUME LifeInv, LoadFails
    PROVE  LifeParts'
<1> USE DEF LifeInv, LifeParts, WorkInv, TypeOK, LoadFails, IsActive, identityVars, fiberVars
<1>1. Begun'      BY DEF Begun
<1>2. Held'       BY DEF Held, Granted
<1>3. Granted'    BY DEF Granted
<1>4. Disposing'  BY DEF Disposing, FactoryAborted
<1>5. Rejected'   BY DEF Rejected, Begun, Granted
<1>6. Alone'      BY DEF Alone
<1>7. Unloaded'   BY DEF Unloaded, Settled
<1>8. QED
  BY <1>1, <1>2, <1>3, <1>4, <1>5, <1>6, <1>7

\* An entry that is not reserved goes.
LEMMA EvictKeepsLife ==
    ASSUME LifeInv, Evict
    PROVE  LifeParts'
<1> USE DEF LifeInv, LifeParts, WorkInv, TypeOK, Evict, callVars, resourceVars, identityVars,
            fiberVars
<1>1. Begun'      BY DEF Begun
<1>2. Held'       BY DEF Held
<1>3. Granted'    BY DEF Granted
<1>4. Disposing'  BY DEF Disposing, FactoryAborted
<1>5. Rejected'   BY DEF Rejected
<1>6. Alone'      BY DEF Alone
<1>7. Unloaded'   BY DEF Unloaded, Settled
<1>8. QED
  BY <1>1, <1>2, <1>3, <1>4, <1>5, <1>6, <1>7

\* The owner's unload begins.
LEMMA OwnerUnloadsKeepsLife ==
    ASSUME LifeInv, OwnerUnloads
    PROVE  LifeParts'
<1> USE DEF LifeInv, LifeParts, WorkInv, TypeOK, OwnerUnloads, callVars, resourceVars,
            identityVars, poolVars
<1>1. Begun'      BY DEF Begun
<1>2. Held'       BY DEF Held
<1>3. Granted'    BY DEF Granted
<1>4. Disposing'  BY DEF Disposing, FactoryAborted
<1>5. Rejected'   BY DEF Rejected
<1>6. Alone'      BY DEF Alone
<1>7. Unloaded'   BY DEF Unloaded, Settled
<1>8. QED
  BY <1>1, <1>2, <1>3, <1>4, <1>5, <1>6, <1>7

\* No agent of an owner that is gone was left alone: its effect would be on.
LEMMA OwnerGoneKeepsLife ==
    ASSUME LifeInv, OwnerGone
    PROVE  LifeParts'
<1> USE DEF LifeInv, LifeParts, WorkInv, TypeOK, OwnerGone, callVars, resourceVars,
            identityVars, poolVars
<1>1. Begun'      BY DEF Begun
<1>2. Held'       BY DEF Held
<1>3. Granted'    BY DEF Granted
<1>4. Disposing'  BY DEF Disposing, FactoryAborted
<1>5. Rejected'   BY DEF Rejected
<1>6. Alone'      BY DEF Alone
<1>7. Unloaded'   BY DEF Unloaded, Settled, Begun
<1>8. QED
  BY <1>1, <1>2, <1>3, <1>4, <1>5, <1>6, <1>7

\* The factory's unload begins.
LEMMA FactoryUnloadsKeepsLife ==
    ASSUME LifeInv, FactoryUnloads
    PROVE  LifeParts'
<1> USE DEF LifeInv, LifeParts, WorkInv, TypeOK, FactoryUnloads, callVars, resourceVars,
            identityVars, poolVars
<1>1. Begun'      BY DEF Begun
<1>2. Held'       BY DEF Held
<1>3. Granted'    BY DEF Granted
<1>4. Disposing'  BY DEF Disposing, FactoryAborted
<1>5. Rejected'   BY DEF Rejected
<1>6. Alone'      BY DEF Alone
<1>7. Unloaded'   BY DEF Unloaded, Settled
<1>8. QED
  BY <1>1, <1>2, <1>3, <1>4, <1>5, <1>6, <1>7

\* The teardown of every agent that was made begins.
LEMMA FactoryDisposesKeepsLife ==
    ASSUME LifeInv, FactoryDisposes
    PROVE  LifeParts'
<1> USE DEF LifeInv, LifeParts, WorkInv, TypeOK, FactoryDisposes, callVars, identityVars,
            poolVars
<1>1. Begun'      BY DEF Begun
<1>2. Held'       BY DEF Held
<1>3. Granted'    BY DEF Granted
<1>4. Disposing'  BY DEF Disposing, FactoryAborted
<1>5. Rejected'   BY DEF Rejected
<1>6. Alone'      BY DEF Alone
<1>7. Unloaded'   BY DEF Unloaded, Settled
<1>8. QED
  BY <1>1, <1>2, <1>3, <1>4, <1>5, <1>6, <1>7

\* Whoever is registered has a scope, hence a teardown that is not done: there is none.
LEMMA FactoryGoneKeepsLife ==
    ASSUME LifeInv, FactoryGone
    PROVE  LifeParts'
<1> USE AttemptsAssumption DEF LifeInv, LifeParts, WorkInv, TypeOK, FactoryGone, callVars,
                               resourceVars, identityVars, poolVars
<1>1. Begun'      BY DEF Begun
<1>2. Held'       BY DEF Held
<1>3. Granted'    BY DEF Granted
<1>4. Disposing'  BY DEF Disposing, FactoryAborted
<1>5. Rejected'   BY DEF Rejected
<1>6. Alone'      BY DEF Alone
<1>7. Unloaded'   BY DEF Unloaded, Settled, Held, Disposing, FactoryAborted
<1>8. QED
  BY <1>1, <1>2, <1>3, <1>4, <1>5, <1>6, <1>7

\* What an announced publication leaves of the reservation: it is consumed, or was none, or
\* the listener that would consume it did not run.
LEMMA AnnouncesConsumes ==
    ASSUME NEW a \in Attempts, NEW s \in Stages, s # "enter", Announces(a, s)
    PROVE  /\ holder' = a
           /\ \/ grant[a] = "delivered" /\ grant' = [grant EXCEPT ![a] = "none"] /\ pool' = "empty"
              \/ (grant[a] # "delivered" \/ s = "session") /\ UNCHANGED poolVars
BY DEF Announces, Consumes

\* A publication that is refused the identity only begins its rollback.
LEMMA RefusedPublicationKeepsLife ==
    ASSUME LifeInv, NEW a \in Attempts, Publish(a, "enter")
    PROVE  LifeParts'
<1> USE AttemptsAssumption DEF LifeInv, LifeParts, WorkInv, TypeOK
<1>1. /\ phase[a] = "setup" /\ teardown[a] = "no" /\ ~FactoryAborted
      /\ phase' = [phase EXCEPT ![a] = "rollback"]
      /\ teardown' = [teardown EXCEPT ![a] = "draining"]
      /\ UNCHANGED <<kind, effect, scope, identityVars, poolVars, fiberVars>>
  BY DEF Publish, Announces, Aborted, Goes, BeginTeardown
<1> USE <1>1 DEF identityVars, poolVars, fiberVars
<1>2. Begun'      BY DEF Begun
<1>3. Held'       BY DEF Held
<1>4. Granted'    BY DEF Granted
<1>5. Disposing'  BY DEF Disposing, FactoryAborted
<1>6. Rejected'   BY DEF Rejected
<1>7. Alone'      BY DEF Alone
<1>8. Unloaded'   BY DEF Unloaded, Settled
<1>9. QED
  BY <1>2, <1>3, <1>4, <1>5, <1>6, <1>7, <1>8

\* A publication that takes the free identity: no live agent was left, and the reservation,
\* if the call had one, is consumed unless the publication is rolled back at once.
LEMMA PublishKeepsLife ==
    ASSUME LifeInv, NEW a \in Attempts, NEW s \in Stages, s # "enter", Publish(a, s)
    PROVE  LifeParts'
<1> USE AttemptsAssumption DEF LifeInv, LifeParts, WorkInv, TypeOK
<1>1. /\ phase[a] = "setup" /\ teardown[a] = "no" /\ ~FactoryAborted /\ holder = Nobody
      /\ Announces(a, s) /\ Reachable(a, s)
      /\ UNCHANGED <<kind, effect, scope, fiberVars>>
      /\ \/ /\ s = "done" /\ phase' = [phase EXCEPT ![a] = "live"]
            /\ UNCHANGED teardown
         \/ /\ s # "done" /\ phase' = [phase EXCEPT ![a] = "rollback"]
            /\ teardown' = [teardown EXCEPT ![a] = "draining"]
  BY DEF Publish, Aborted, Goes, BeginTeardown, Reachable
<1>2. /\ holder' = a
      /\ \/ grant[a] = "delivered" /\ grant' = [grant EXCEPT ![a] = "none"] /\ pool' = "empty"
         \/ (grant[a] # "delivered" \/ s = "session") /\ UNCHANGED poolVars
  BY <1>1, AnnouncesConsumes
<1> USE <1>1, <1>2 DEF poolVars, fiberVars
<1>3. Begun'      BY DEF Begun
<1>4. Held'       BY DEF Held, Begun
<1>5. Granted'    BY DEF Granted
<1>6. Disposing'  BY DEF Disposing, FactoryAborted
<1>7. Rejected'   BY DEF Rejected
<1>8. Alone'      BY DEF Alone, Reachable, AliasesStored
<1>9. Unloaded'   BY DEF Unloaded, Settled
<1>10. QED
  BY <1>3, <1>4, <1>5, <1>6, <1>7, <1>8, <1>9

\* create() on behalf of a configured agent that is not on disk.
LEMMA ListedAbsentKeepsLife ==
    ASSUME LifeInv, NEW a \in Attempts, NEW s \in Stages, ListedAbsent(a, s)
    PROVE  LifeParts'
<1> USE AttemptsAssumption DEF LifeInv, LifeParts, WorkInv, TypeOK
<1>1. phase[a] = "listing" /\ kind[a] = "configured" /\ grant[a] \in {"none", "granted"}
  BY DEF ListedAbsent, Begun, Granted
<1>2. CASE IsActive /\ IdentityFree
  <2>1. /\ ~FactoryAborted /\ holder = Nobody /\ Announces(a, s) /\ Reachable(a, s)
        /\ s # "enter"
        /\ scope' = [scope EXCEPT ![a] = "open"] /\ effect' = [effect EXCEPT ![a] = "on"]
        /\ UNCHANGED <<kind, fiberVars>>
        /\ \/ /\ s = "done" /\ phase' = [phase EXCEPT ![a] = "live"]
              /\ teardown' = [teardown EXCEPT ![a] = "no"]
           \/ /\ s # "done" /\ phase' = [phase EXCEPT ![a] = "failed"]
              /\ teardown' = [teardown EXCEPT ![a] = "draining"]
    BY <1>2 DEF ListedAbsent, Goes, Prepared, Reachable, IsActive, IdentityFree, FactoryAborted
  <2>2. holder' = a /\ UNCHANGED poolVars
    BY <1>1, <2>1, AnnouncesConsumes
  <2> USE <1>1, <2>1, <2>2 DEF poolVars, fiberVars
  <2>3. Begun'      BY DEF Begun
  <2>4. Held'       BY DEF Held
  <2>5. Granted'    BY DEF Granted
  <2>6. Disposing'  BY DEF Disposing, FactoryAborted
  <2>7. Rejected'   BY DEF Rejected
  <2>8. Alone'      BY DEF Alone, Reachable, AliasesStored
  <2>9. Unloaded'   BY DEF Unloaded, Settled
  <2>10. QED
    BY <2>3, <2>4, <2>5, <2>6, <2>7, <2>8, <2>9
<1>3. CASE ~(IsActive /\ IdentityFree)
  <2>1. /\ phase' = [phase EXCEPT ![a] = "failed"]
        /\ UNCHANGED <<kind, resourceVars, identityVars, poolVars, fiberVars>>
    BY <1>3 DEF ListedAbsent, Goes
  <2> USE <1>1, <2>1 DEF resourceVars, identityVars, poolVars, fiberVars
  <2>2. Begun'      BY DEF Begun
  <2>3. Held'       BY DEF Held
  <2>4. Granted'    BY DEF Granted
  <2>5. Disposing'  BY DEF Disposing, FactoryAborted
  <2>6. Rejected'   BY DEF Rejected
  <2>7. Alone'      BY DEF Alone
  <2>8. Unloaded'   BY DEF Unloaded, Settled
  <2>9. QED
    BY <2>2, <2>3, <2>4, <2>5, <2>6, <2>7, <2>8
<1>4. QED
  BY <1>2, <1>3

LEMMA StutteringKeepsLife == LifeInv /\ UNCHANGED vars => LifeParts'
BY DEF vars, callVars, resourceVars, identityVars, poolVars, fiberVars, LifeInv, LifeParts,
       Begun, Held, Granted, Disposing, FactoryAborted, Rejected, Alone, Unloaded, Settled

LEMMA InitLife == Init => LifeInv
<1> SUFFICES ASSUME Init PROVE LifeInv
  OBVIOUS
<1>1. WorkInv
  BY InitWork
<1>2. LifeParts
  BY AttemptsAssumption
     DEF Init, LifeParts, Begun, Held, Granted, Disposing, FactoryAborted, Rejected, Alone,
         Unloaded
<1>3. QED
  BY <1>1, <1>2 DEF LifeInv

LEMMA NextKeepsLife == LifeInv /\ [Next]_vars => LifeInv'
<1> SUFFICES ASSUME LifeInv, [Next]_vars PROVE LifeParts'
  BY NextKeepsWork DEF LifeInv
<1>1. CASE UNCHANGED vars
  BY <1>1, StutteringKeepsLife
<1>2. ASSUME NEW a \in Attempts, Advance(a) PROVE LifeParts'
  BY <1>2, IdentityReleasedKeepsLife, LoadRefusedKeepsLife, LoadDeliveredKeepsLife,
     AbandonLoadKeepsLife, ReleaseAbandonedKeepsLife, ContinueKeepsLife, RollbackDoneKeepsLife,
     ListedPresentKeepsLife, ListedAbsentKeepsLife, DrainedKeepsLife, ScopeUnwindsKeepsLife,
     LeaveKeepsLife, OwnerCleansKeepsLife DEF Advance
<1>3. ASSUME NEW a \in Attempts, Environment(a) PROVE LifeParts'
  BY <1>3, ResumeKeepsLife, StartConfiguredKeepsLife, CreateKeepsLife, ReserveKeepsLife,
     AskAgainKeepsLife, SetupFailsKeepsLife, RefusedPublicationKeepsLife, PublishKeepsLife,
     DisposeHandleKeepsLife, StartWorkKeepsLife, FinishWorkKeepsLife, CallerAbortsKeepsLife
     DEF Environment
<1>4. CASE LoadReads \/ LoadFails \/ Evict
  BY <1>4, LoadReadsKeepsLife, LoadFailsKeepsLife, EvictKeepsLife
<1>5. CASE OwnerUnloads \/ OwnerGone \/ FactoryUnloads \/ FactoryDisposes \/ FactoryGone
  BY <1>5, OwnerUnloadsKeepsLife, OwnerGoneKeepsLife, FactoryUnloadsKeepsLife,
     FactoryDisposesKeepsLife, FactoryGoneKeepsLife
<1>6. QED
  BY <1>1, <1>2, <1>3, <1>4, <1>5 DEF Next

LEMMA LifeHolds == Spec => []LifeInv
BY InitLife, NextKeepsLife, PTL DEF Spec

\* A call that rejects has left no entry in the registries, no scope, no effect on its
\* owner, no work and no reservation, whatever raced it; only create() on behalf of a
\* configured agent rejects before the teardown it began is over.
THEOREM RejectedLeavesNothing == Spec => []RejectionLeavesNothing
<1>1. LifeInv => RejectionLeavesNothing
  BY DEF LifeInv, LifeParts, WorkInv, TypeOK, WorkIsRegistered, Granted, Held, Rejected,
         RejectionLeavesNothing
<1>2. QED
  BY <1>1, LifeHolds, PTL

\* A reserved log has exactly one call that will publish it or give it back, and a live
\* agent's session has no unpublished twin, for any number of racing calls.
THEOREM OneUserAtATime == Spec => []StoredIdentityHasOneUser
<1>1. LifeInv => StoredIdentityHasOneUser
  <2> SUFFICES ASSUME LifeInv PROVE StoredIdentityHasOneUser
    OBVIOUS
  <2>1. ASSUME pool = "reserved"
        PROVE  \E a \in Attempts :
                  /\ {b \in Attempts : grant[b] \in {"granted", "delivered"}} = {a}
                  /\ grant[a] = "delivered" => phase[a] \in {"loaded", "setup", "rollback"}
    <3>1. PICK a \in Attempts : grant[a] \in {"granted", "delivered"}
      BY <2>1 DEF LifeInv, LifeParts, Granted
    <3>2. {b \in Attempts : grant[b] \in {"granted", "delivered"}} = {a}
      BY <3>1 DEF LifeInv, LifeParts, Granted
    <3>3. QED
      BY <3>2 DEF LifeInv, LifeParts, Granted
  <2>2. \A a \in Attempts : phase[a] = "live" /\ holder = a => pool = "empty"
    BY DEF LifeInv, LifeParts, Alone
  <2>3. QED
    BY <2>1, <2>2 DEF StoredIdentityHasOneUser
<1>2. QED
  BY <1>1, LifeHolds, PTL

\* An owner that is gone has begun the teardown of each of its agents; a factory that is
\* gone has left no agent, scope or work, and no call that could still publish.
THEOREM UnloadsAreComplete == Spec => []UnloadLeavesNoneBehind
<1>1. LifeInv => UnloadLeavesNoneBehind
  BY AttemptsAssumption
     DEF LifeInv, LifeParts, WorkInv, TypeOK, WorkIsRegistered, Unloaded, UnloadLeavesNoneBehind
<1>2. QED
  BY <1>1, LifeHolds, PTL
=============================================================================
