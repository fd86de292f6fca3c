----------------------------- MODULE Jobs_proofs -----------------------------
(***************************************************************************)
(* Theorems about Jobs, for any sets of jobs, owners and waits: every      *)
(* completion is told once, teardown leaves no live record behind, and it  *)
(* announces nothing.                                                      *)
(***************************************************************************)
EXTENDS Jobs, TLAPS

-----------------------------------------------------------------------------
(***************************************************************************)
(* The inductive invariant.                                                *)
(***************************************************************************)

\* A live record is in the store, and a record that was never started is nobody's.
Stored ==
    /\ \A j \in Jobs :
          /\ status[j] = "none" => owner[j] = NoOwner /\ j \notin store
          /\ Live(j) => j \in store
    /\ service = "closed" => store = {}

\* The cleanup of an owner is attached before its first job is stored, and once it drains it
\* awaits every job the owner has left; the owner does not leave before it is done.
Owned ==
    /\ \A j \in Jobs : owner[j] # NoOwner =>
          /\ cleanup[owner[j]] # "none"
          /\ j \in store => cleanup[owner[j]] \in {"attached", "draining"}
          /\ j \in store /\ cleanup[owner[j]] = "draining" => j \in awaited[owner[j]]
    /\ \A o \in Owners : scope[o] = "gone" => cleanup[o] \in {"none", "done"}

\* A live job is reported exactly when somebody asked for its end, and a teardown under way
\* has asked for the end of every live job it awaits.
Asked ==
    \A j \in Jobs :
        /\ Live(j) => (reported[j] <=> j \in asked)
        /\ status[j] = "none" => ~reported[j] /\ j \notin asked
        /\ Live(j) /\ service # "open" => j \in asked
        /\ Live(j) /\ owner[j] # NoOwner /\ cleanup[owner[j]] = "draining" => j \in asked

\* A wait that is under way when a job ends is over, or counts, before anything is announced.
Told ==
    /\ \A w \in Waits : saw[w] => Terminal(target[w])
    /\ \A w \in Waits : wait[w] = "waiting" => Live(target[w])
    /\ \A j \in notice : Terminal(j) /\ Counted(j) = {}
    /\ CompletionIsToldOnce

Inv == TypeOK /\ Stored /\ Owned /\ Asked /\ Told

-----------------------------------------------------------------------------
(***************************************************************************)
(* The actions keep the invariant.                                         *)
(***************************************************************************)

\* A job starts: its owner is served, so its cleanup is attached from now on.
LEMMA StartKeeps ==
    ASSUME Inv, NEW j \in Jobs, NEW o \in Owners \cup {NoOwner}, Start(j, o) PROVE Inv'
<1>1. TypeOK /\ Stored /\ Owned /\ Asked /\ Told BY DEF Inv
<1>2. /\ service = "open" /\ Serves(o) /\ status[j] = "none"
      /\ status' = [status EXCEPT ![j] = "running"]
      /\ owner' = [owner EXCEPT ![j] = o]
      /\ store' = store \cup {j}
      /\ producer' = [producer EXCEPT ![j] = "working"]
      /\ UNCHANGED <<reported, outcome, wait, target, saw, scope, awaited, service, notice, asked>>
  BY DEF Start, waitVars
<1>3. /\ status'[j] = "running" /\ owner'[j] = o
      /\ \A k \in Jobs \ {j} : status'[k] = status[k] /\ owner'[k] = owner[k]
  BY <1>1, <1>2 DEF TypeOK
<1>4. /\ cleanup' \in [Owners -> {"none", "attached", "draining", "done"}]
      /\ o # NoOwner => cleanup'[o] = "attached"
      /\ \A p \in Owners : \/ cleanup'[p] = cleanup[p]
                           \/ p = o /\ cleanup[p] = "none" /\ scope[p] = "live"
                                    /\ cleanup'[p] = "attached"
  <2>1. cleanup' = IF o = NoOwner THEN cleanup ELSE [cleanup EXCEPT ![o] = "attached"]
    BY DEF Start, AttachCleanup
  <2>2. o # NoOwner => cleanup[o] = "attached" \/ (scope[o] = "live" /\ cleanup[o] = "none")
    BY <1>2 DEF Serves
  <2> QED BY <1>1, <2>1, <2>2 DEF TypeOK
<1>5. \A k \in Jobs : owner[k] \in Owners \cup {NoOwner} BY <1>1 DEF TypeOK
<1>6. TypeOK'
  <2>1. status' \in [Jobs -> Statuses] BY <1>1, <1>2 DEF TypeOK, Statuses
  <2>2. owner' \in [Jobs -> Owners \cup {NoOwner}] BY <1>1, <1>2 DEF TypeOK
  <2>3. producer' \in [Jobs -> {"none", "working", "cancelled", "finished", "over"}]
    BY <1>1, <1>2 DEF TypeOK
  <2>4. store' \in SUBSET Jobs BY <1>1, <1>2 DEF TypeOK
  <2> QED BY <1>1, <1>2, <1>4, <2>1, <2>2, <2>3, <2>4 DEF TypeOK
<1>7. Stored' BY <1>1, <1>2, <1>3 DEF Stored, Live
<1>8. Owned'
  <2>1. ASSUME NEW k \in Jobs, owner'[k] # NoOwner
        PROVE  /\ cleanup'[owner'[k]] # "none"
               /\ k \in store' => cleanup'[owner'[k]] \in {"attached", "draining"}
               /\ k \in store' /\ cleanup'[owner'[k]] = "draining" => k \in awaited'[owner'[k]]
    <3>1. CASE k = j BY <1>2, <1>3, <1>4, <2>1, <3>1
    <3>2. CASE k # j
      <4>1. owner'[k] = owner[k] /\ owner[k] \in Owners /\ (k \in store' <=> k \in store)
        BY <1>2, <1>3, <1>5, <2>1, <3>2
      <4>2. cleanup'[owner[k]] = cleanup[owner[k]] BY <1>1, <1>4, <2>1, <4>1 DEF Owned
      <4> QED BY <1>1, <1>2, <2>1, <4>1, <4>2 DEF Owned
    <3> QED BY <3>1, <3>2
  <2>2. ASSUME NEW p \in Owners, scope'[p] = "gone" PROVE cleanup'[p] \in {"none", "done"}
    BY <1>1, <1>2, <1>4, <2>2 DEF Owned
  <2> QED BY <2>1, <2>2 DEF Owned
<1>9. Asked'
  <2> SUFFICES ASSUME NEW k \in Jobs
               PROVE  /\ Live(k)' => (reported[k] <=> k \in asked)
                      /\ status'[k] = "none" => ~reported[k] /\ k \notin asked
                      /\ Live(k)' /\ owner'[k] # NoOwner /\ cleanup'[owner'[k]] = "draining" => k \in asked
    BY <1>2 DEF Asked
  <2>1. CASE k = j BY <1>1, <1>2, <1>3, <1>4, <2>1 DEF Asked, Live
  <2>2. CASE k # j
    <3>1. status'[k] = status[k] /\ owner'[k] = owner[k] BY <1>3, <2>2
    <3>2. owner[k] # NoOwner => cleanup'[owner[k]] = cleanup[owner[k]]
      BY <1>1, <1>4, <1>5 DEF Owned
    <3> QED BY <1>1, <3>1, <3>2 DEF Asked, Live
  <2> QED BY <2>1, <2>2
<1>10. Told'
  <2>1. \A k \in Jobs : /\ Terminal(k)' <=> Terminal(k)
                        /\ Terminal(k) => owner'[k] = owner[k]
                        /\ Live(k) => Live(k)'
    BY <1>2, <1>3 DEF Terminal, Live, Ended
  <2>2. \A w \in Waits : target[w] \in Jobs BY <1>1 DEF TypeOK
  <2>3. notice \subseteq Jobs BY <1>1 DEF TypeOK
  <2> QED BY <1>1, <1>2, <2>1, <2>2, <2>3 DEF Told, CompletionIsToldOnce, Counted
<1> QED BY <1>6, <1>7, <1>8, <1>9, <1>10 DEF Inv

\* A start that is refused may still attach the cleanup.
LEMMA StartRefusedKeeps ==
    ASSUME Inv, NEW o \in Owners, StartRefused(o) PROVE Inv'
<1>1. TypeOK /\ Stored /\ Owned /\ Asked /\ Told BY DEF Inv
<1>2. TypeOK'
  BY <1>1 DEF StartRefused, Serves, AttachCleanup, recordVars, producerVars, waitVars,
      teardownVars, TypeOK, Statuses, Ended
<1>3. Stored'
  BY <1>1 DEF StartRefused, Serves, AttachCleanup, recordVars, producerVars, waitVars,
      teardownVars, Stored, Live
<1>4. Owned'
  BY <1>1 DEF StartRefused, Serves, AttachCleanup, recordVars, producerVars, waitVars,
      teardownVars, Owned
<1>5. Asked'
  BY <1>1 DEF StartRefused, Serves, AttachCleanup, recordVars, producerVars, waitVars,
      teardownVars, Asked, Live
<1>6. Told'
  BY <1>1 DEF StartRefused, Serves, AttachCleanup, recordVars, producerVars, waitVars,
      teardownVars, Told, CompletionIsToldOnce, Live, Terminal, Ended, Counted
<1> QED BY <1>2, <1>3, <1>4, <1>5, <1>6 DEF Inv

\* Reading an ended job reports it.
LEMMA ReadKeeps ==
    ASSUME Inv, NEW j \in Jobs, Read(j) PROVE Inv'
<1>1. TypeOK /\ Stored /\ Owned /\ Asked /\ Told BY DEF Inv
<1>2. TypeOK'
  BY <1>1 DEF Read, recordVars, producerVars, waitVars, teardownVars, TypeOK, Statuses, Ended
<1>3. Stored' BY <1>1 DEF Read, recordVars, producerVars, waitVars, teardownVars, Stored, Live
<1>4. Owned' BY <1>1 DEF Read, recordVars, producerVars, waitVars, teardownVars, Owned
<1>5. Asked'
  <2>1. Terminal(j) /\ reported' = [reported EXCEPT ![j] = TRUE]
        /\ UNCHANGED <<status, owner, cleanup, service, asked>>
    BY DEF Read, teardownVars
  <2>2. status[j] \in Ended /\ \A k \in Jobs \ {j} : reported'[k] = reported[k]
    BY <1>1, <2>1 DEF Terminal, TypeOK
  <2> QED BY <1>1, <2>1, <2>2 DEF Asked, Live, Ended
<1>6. Told'
  BY <1>1 DEF Read, recordVars, producerVars, waitVars, teardownVars, Told,
      CompletionIsToldOnce, Live, Terminal, Ended, Counted
<1> QED BY <1>2, <1>3, <1>4, <1>5, <1>6 DEF Inv

\* A kill reports the job and asks for its end.
LEMMA KillKeeps ==
    ASSUME Inv, NEW j \in Jobs, Kill(j) PROVE Inv'
<1>1. TypeOK /\ Stored /\ Owned /\ Asked /\ Told BY DEF Inv
<1>2. TypeOK'
  BY <1>1 DEF Kill, Cancelled, recordVars, producerVars, waitVars, teardownVars, TypeOK,
      Statuses, Ended
<1>3. Stored'
  BY <1>1 DEF Kill, Cancelled, recordVars, producerVars, waitVars, teardownVars, Stored, Live
<1>4. Owned'
  BY <1>1 DEF Kill, Cancelled, recordVars, producerVars, waitVars, teardownVars, Owned
<1>5. Asked'
  <2>1. /\ Live(j) /\ status' = [status EXCEPT ![j] = "stopping"]
        /\ reported' = [reported EXCEPT ![j] = TRUE] /\ asked' = asked \cup {j}
        /\ UNCHANGED <<owner, cleanup, service>>
    BY DEF Kill, teardownVars
  <2>2. /\ status'[j] = "stopping" /\ reported'[j]
        /\ \A k \in Jobs \ {j} : status'[k] = status[k] /\ reported'[k] = reported[k]
    BY <1>1, <2>1 DEF TypeOK
  <2> QED BY <1>1, <2>1, <2>2 DEF Asked, Live
<1>6. Told'
  BY <1>1 DEF Kill, Cancelled, recordVars, producerVars, waitVars, teardownVars, Told,
      CompletionIsToldOnce, Live, Terminal, Ended, Counted
<1> QED BY <1>2, <1>3, <1>4, <1>5, <1>6 DEF Inv

\* A wait for a live job counts.
LEMMA BeginWaitKeeps ==
    ASSUME Inv, NEW w \in Waits, BeginWait(w) PROVE Inv'
<1>1. TypeOK /\ Stored /\ Owned /\ Asked /\ Told BY DEF Inv
<1>2. TypeOK'
  BY <1>1 DEF BeginWait, recordVars, producerVars, waitVars, teardownVars, TypeOK, Statuses,
      Ended
<1>3. Stored'
  BY <1>1 DEF BeginWait, recordVars, producerVars, waitVars, teardownVars, Stored, Live
<1>4. Owned' BY <1>1 DEF BeginWait, recordVars, producerVars, waitVars, teardownVars, Owned
<1>5. Asked'
  BY <1>1 DEF BeginWait, recordVars, producerVars, waitVars, teardownVars, Asked, Live
<1>6. Told'
  BY <1>1 DEF BeginWait, recordVars, producerVars, waitVars, teardownVars, Told,
      CompletionIsToldOnce, Live, Terminal, Ended, Counted
<1> QED BY <1>2, <1>3, <1>4, <1>5, <1>6 DEF Inv

\* A wait past its deadline counts until it continues.
LEMMA TimeOutKeeps ==
    ASSUME Inv, NEW w \in Waits, TimeOut(w) PROVE Inv'
<1>1. TypeOK /\ Stored /\ Owned /\ Asked /\ Told BY DEF Inv
<1>2. TypeOK'
  BY <1>1 DEF TimeOut, recordVars, producerVars, waitVars, teardownVars, TypeOK, Statuses, Ended
<1>3. Stored'
  BY <1>1 DEF TimeOut, recordVars, producerVars, waitVars, teardownVars, Stored, Live
<1>4. Owned' BY <1>1 DEF TimeOut, recordVars, producerVars, waitVars, teardownVars, Owned
<1>5. Asked' BY <1>1 DEF TimeOut, recordVars, producerVars, waitVars, teardownVars, Asked, Live
<1>6. Told'
  BY <1>1 DEF TimeOut, recordVars, producerVars, waitVars, teardownVars, Told,
      CompletionIsToldOnce, Live, Terminal, Ended, Counted
<1> QED BY <1>2, <1>3, <1>4, <1>5, <1>6 DEF Inv

\* An aborted wait counts no more.
LEMMA AbortWaitKeeps ==
    ASSUME Inv, NEW w \in Waits, AbortWait(w) PROVE Inv'
<1>1. TypeOK /\ Stored /\ Owned /\ Asked /\ Told BY DEF Inv
<1>2. TypeOK'
  BY <1>1 DEF AbortWait, recordVars, producerVars, waitVars, teardownVars, TypeOK, Statuses,
      Ended
<1>3. Stored'
  BY <1>1 DEF AbortWait, recordVars, producerVars, waitVars, teardownVars, Stored, Live
<1>4. Owned' BY <1>1 DEF AbortWait, recordVars, producerVars, waitVars, teardownVars, Owned
<1>5. Asked'
  BY <1>1 DEF AbortWait, recordVars, producerVars, waitVars, teardownVars, Asked, Live
<1>6. Told'
  BY <1>1 DEF AbortWait, recordVars, producerVars, waitVars, teardownVars, Told,
      CompletionIsToldOnce, Live, Terminal, Ended, Counted
<1> QED BY <1>2, <1>3, <1>4, <1>5, <1>6 DEF Inv

\* A wait returns what it finds: no announced job, for that would have counted it.
LEMMA EndWaitKeeps ==
    ASSUME Inv, NEW w \in Waits, EndWait(w) PROVE Inv'
<1>1. TypeOK /\ Stored /\ Owned /\ Asked /\ Told BY DEF Inv
<1> DEFINE t == target[w]
<1>2. /\ wait[w] \in {"timedOut", "released"} /\ t \in Jobs
      /\ wait' = [wait EXCEPT ![w] = "returned"]
      /\ saw' = [saw EXCEPT ![w] = Terminal(t)]
      /\ reported' = [reported EXCEPT ![t] = @ \/ Terminal(t)]
      /\ UNCHANGED <<status, owner, store, producer, outcome, target, scope, cleanup, awaited,
                     service, notice, asked>>
  BY <1>1 DEF EndWait, TypeOK, producerVars, teardownVars
<1>3. /\ wait'[w] = "returned" /\ saw'[w] = Terminal(t)
      /\ \A v \in Waits \ {w} : wait'[v] = wait[v] /\ saw'[v] = saw[v]
  BY <1>1, <1>2 DEF TypeOK
<1>4. /\ reported'[t] = (reported[t] \/ Terminal(t))
      /\ \A k \in Jobs \ {t} : reported'[k] = reported[k]
  BY <1>1, <1>2 DEF TypeOK
<1>5. TypeOK'
  <2>1. wait' \in [Waits -> {"off", "waiting", "timedOut", "released", "returned", "rejected"}]
    BY <1>1, <1>2 DEF TypeOK
  <2>2. Terminal(t) \in BOOLEAN BY DEF Terminal
  <2>3. saw' \in [Waits -> BOOLEAN] BY <1>1, <1>2, <2>2 DEF TypeOK
  <2>4. (reported[t] \/ Terminal(t)) \in BOOLEAN OBVIOUS
  <2>5. reported' \in [Jobs -> BOOLEAN] BY <1>1, <1>2, <2>4 DEF TypeOK
  <2> QED BY <1>1, <1>2, <2>1, <2>3, <2>5 DEF TypeOK
<1>6. Stored' BY <1>1, <1>2 DEF Stored, Live
<1>7. Owned' BY <1>1, <1>2 DEF Owned
<1>8. Asked'
  <2>1. \A k \in Jobs : Live(k) \/ status[k] = "none" => (reported'[k] <=> reported[k])
    BY <1>1, <1>4 DEF Live, Terminal, Ended
  <2> QED BY <1>1, <1>2, <2>1 DEF Asked, Live
<1>9. Told'
  <2>1. \A k \in Jobs : Terminal(k)' = Terminal(k) /\ Live(k)' = Live(k)
    BY <1>2 DEF Terminal, Live
  <2>2. \A v \in Waits : target'[v] = target[v] /\ target[v] \in Jobs BY <1>1, <1>2 DEF TypeOK
  <2>3. notice' = notice /\ notice \subseteq Jobs BY <1>1, <1>2 DEF TypeOK
  <2>4. \A k \in notice : Counted(k)' = {} BY <1>1, <1>2, <1>3, <2>2 DEF Told, Counted
  <2>5. w \notin {} /\ \A k \in notice : t # k
    BY <1>1, <1>2 DEF Told, Counted
  <2>6. CompletionIsToldOnce'
    <3>1. ASSUME NEW k \in Jobs, Terminal(k), owner[k] # NoOwner, k \notin notice \cup asked
          PROVE  \E v \in Waits : target[v] = k /\ (wait'[v] \in {"timedOut", "released"} \/ saw'[v])
      <4>1. PICK v \in Waits : target[v] = k /\ (wait[v] \in {"timedOut", "released"} \/ saw[v])
        BY <1>1, <3>1 DEF Told, CompletionIsToldOnce
      <4>2. CASE v = w BY <1>3, <3>1, <4>1, <4>2
      <4>3. CASE v # w BY <1>3, <4>1, <4>3
      <4> QED BY <4>2, <4>3
    <3>2. ASSUME NEW k \in notice
          PROVE  k \notin asked /\ \A v \in Waits : ~(target[v] = k /\ saw'[v])
      BY <1>1, <1>3, <2>5, <3>2 DEF Told, CompletionIsToldOnce
    <3> QED BY <1>2, <2>1, <3>1, <3>2 DEF CompletionIsToldOnce
  <2>7. \A v \in Waits : saw'[v] => Terminal(target[v]) BY <1>1, <1>3 DEF Told
  <2>8. \A v \in Waits : wait'[v] = "waiting" => Live(target[v]) BY <1>1, <1>3 DEF Told
  <2>9. \A k \in notice : Terminal(k) BY <1>1 DEF Told
  <2> QED BY <2>1, <2>2, <2>3, <2>4, <2>6, <2>7, <2>8, <2>9 DEF Told
<1> QED BY <1>5, <1>6, <1>7, <1>8, <1>9 DEF Inv

\* A producer's promise resolves.
LEMMA FinishKeeps ==
    ASSUME Inv, NEW j \in Jobs, NEW how \in Ended, Finish(j, how) PROVE Inv'
<1>1. TypeOK /\ Stored /\ Owned /\ Asked /\ Told BY DEF Inv
<1>2. TypeOK'
  BY <1>1 DEF Finish, recordVars, producerVars, waitVars, teardownVars, TypeOK, Statuses, Ended
<1>3. Stored' BY <1>1 DEF Finish, recordVars, producerVars, waitVars, teardownVars, Stored, Live
<1>4. Owned' BY <1>1 DEF Finish, recordVars, producerVars, waitVars, teardownVars, Owned
<1>5. Asked' BY <1>1 DEF Finish, recordVars, producerVars, waitVars, teardownVars, Asked, Live
<1>6. Told'
  BY <1>1 DEF Finish, recordVars, producerVars, waitVars, teardownVars, Told,
      CompletionIsToldOnce, Live, Terminal, Ended, Counted
<1> QED BY <1>2, <1>3, <1>4, <1>5, <1>6 DEF Inv

\* A job ends: it is announced unless it was asked for or a wait that counts will tell.
LEMMA SettleKeeps ==
    ASSUME Inv, NEW j \in Jobs, Settle(j) PROVE Inv'
<1>1. TypeOK /\ Stored /\ Owned /\ Asked /\ Told BY DEF Inv
<1>2. /\ producer' = [producer EXCEPT ![j] = "over"]
      /\ UNCHANGED <<owner, store, outcome, target, saw, scope, cleanup, awaited, service, asked>>
  BY DEF Settle, teardownVars
<1>3. producer' \in [Jobs -> {"none", "working", "cancelled", "finished", "over"}]
  BY <1>1, <1>2 DEF TypeOK
<1>4. CASE Terminal(j)
  <2>1. UNCHANGED <<status, reported, wait, notice>> BY <1>4 DEF Settle
  <2>2. TypeOK' BY <1>1, <1>2, <1>3, <2>1 DEF TypeOK
  <2>3. Stored' BY <1>1, <1>2, <2>1 DEF Stored, Live
  <2>4. Owned' BY <1>1, <1>2, <2>1 DEF Owned
  <2>5. Asked' BY <1>1, <1>2, <2>1 DEF Asked, Live
  <2>6. Told' BY <1>1, <1>2, <2>1 DEF Told, CompletionIsToldOnce, Counted, Live, Terminal
  <2> QED BY <2>2, <2>3, <2>4, <2>5, <2>6 DEF Inv
<1>5. CASE ~Terminal(j)
  <2>1. /\ status' = [status EXCEPT ![j] = outcome[j]]
        /\ reported' = [reported EXCEPT ![j] = @ \/ Counted(j) # {}]
        /\ wait' = [w \in Waits |-> IF target[w] = j /\ wait[w] = "waiting" THEN "released"
                                    ELSE wait[w]]
        /\ notice' = IF service = "open" /\ ~reported'[j] /\ owner[j] # NoOwner
                     THEN notice \cup {j} ELSE notice
    BY <1>5 DEF Settle, ReleaseWaits
  <2>2. /\ status'[j] \in Ended /\ reported'[j] = (reported[j] \/ Counted(j) # {})
        /\ \A k \in Jobs \ {j} : status'[k] = status[k] /\ reported'[k] = reported[k]
    BY <1>1, <2>1 DEF TypeOK
  <2>3. \A w \in Waits :
          /\ target[w] = j /\ wait[w] = "waiting" => wait'[w] = "released"
          /\ ~(target[w] = j /\ wait[w] = "waiting") => wait'[w] = wait[w]
    BY <2>1
  <2>4. TypeOK'
    <3>1. status' \in [Jobs -> Statuses]
      <4>1. outcome[j] \in Statuses BY <1>1 DEF TypeOK, Statuses
      <4> QED BY <1>1, <2>1, <4>1 DEF TypeOK
    <3>2. (reported[j] \/ Counted(j) # {}) \in BOOLEAN OBVIOUS
    <3>3. reported' \in [Jobs -> BOOLEAN] BY <1>1, <2>1, <3>2 DEF TypeOK
    <3>4. wait' \in [Waits -> {"off", "waiting", "timedOut", "released", "returned", "rejected"}]
      BY <1>1, <2>1 DEF TypeOK
    <3>5. notice' \in SUBSET Jobs BY <1>1, <2>1 DEF TypeOK
    <3> QED BY <1>1, <1>2, <1>3, <3>1, <3>3, <3>4, <3>5 DEF TypeOK
  <2>5. Stored' BY <1>1, <1>2, <2>2 DEF Stored, Live, Ended
  <2>6. Owned' BY <1>1, <1>2 DEF Owned
  <2>7. Asked'
    <3>1. ~Live(j)' /\ status'[j] # "none" BY <2>2 DEF Live, Ended
    <3>2. \A k \in Jobs \ {j} : Live(k)' = Live(k) BY <2>2 DEF Live
    <3> QED BY <1>1, <1>2, <2>2, <3>1, <3>2 DEF Asked
  <2>8. Told'
    <3>1. Terminal(j)' /\ \A k \in Jobs \ {j} : Terminal(k)' = Terminal(k) /\ Live(k)' = Live(k)
      BY <2>2 DEF Terminal, Live
    <3>2. \A w \in Waits : target[w] \in Jobs BY <1>1 DEF TypeOK
    <3>3. notice \subseteq Jobs BY <1>1 DEF TypeOK
    <3>4. \A w \in Waits : saw[w] => Terminal(target[w])' BY <1>1, <1>2, <3>1, <3>2 DEF Told
    <3>5. \A w \in Waits : wait'[w] = "waiting" => Live(target[w])'
      BY <1>1, <1>2, <2>3, <3>1, <3>2 DEF Told
    <3>6. \A k \in notice : k # j /\ Terminal(k)' BY <1>1, <1>5, <3>1, <3>3 DEF Told
    <3>7. \A k \in Jobs : Counted(k) = {} => Counted(k)' = {}
      BY <1>2, <2>3 DEF Counted
    <3>8. \A k \in notice' \ notice :
             k = j /\ ~reported[j] /\ Counted(j) = {} /\ Live(j) /\ j \notin asked
      <4> SUFFICES ASSUME NEW k \in notice' \ notice
                   PROVE  k = j /\ ~reported[j] /\ Counted(j) = {} /\ Live(j) /\ j \notin asked
        OBVIOUS
      <4>1. k = j /\ ~reported'[j] /\ owner[j] # NoOwner BY <2>1
      <4>2. ~reported[j] /\ Counted(j) = {} BY <2>2, <4>1
      <4>3. Live(j) BY <1>1, <1>5, <4>1 DEF Stored, Live, Terminal, TypeOK, Statuses
      <4> QED BY <1>1, <4>1, <4>2, <4>3 DEF Asked
    <3>9. CompletionIsToldOnce'
      <4>1. ASSUME NEW k \in Jobs, Terminal(k)', owner[k] # NoOwner, k \notin notice' \cup asked
            PROVE  \E v \in Waits : target[v] = k /\ (wait'[v] \in {"timedOut", "released"} \/ saw[v])
        <5>1. CASE k = j
          <6>1. Live(j)
            BY <1>1, <1>5, <4>1, <5>1 DEF Stored, Live, Terminal, TypeOK, Statuses
          <6>2. service = "open" /\ ~reported[j] BY <1>1, <4>1, <5>1, <6>1 DEF Asked
          <6>3. reported'[j] BY <2>1, <4>1, <5>1, <6>2
          <6>4. PICK v \in Counted(j) : TRUE BY <2>2, <6>2, <6>3
          <6>5. v \in Waits /\ target[v] = j /\ wait[v] \in {"waiting", "timedOut", "released"}
            BY <6>4 DEF Counted
          <6> QED BY <2>3, <5>1, <6>5
        <5>2. CASE k # j
          <6>1. PICK v \in Waits : target[v] = k /\ (wait[v] \in {"timedOut", "released"} \/ saw[v])
            BY <1>1, <2>1, <3>1, <4>1, <5>2 DEF Told, CompletionIsToldOnce
          <6> QED BY <2>3, <5>2, <6>1
        <5> QED BY <5>1, <5>2
      <4>2. ASSUME NEW k \in notice'
            PROVE  k \notin asked /\ \A v \in Waits : ~(target[v] = k /\ saw[v])
        <5>1. CASE k \in notice BY <1>1, <5>1 DEF Told, CompletionIsToldOnce
        <5>2. CASE k \notin notice
          <6>1. k = j /\ j \notin asked BY <3>8, <4>2, <5>2
          <6> QED BY <1>1, <1>5, <6>1 DEF Told
        <5> QED BY <5>1, <5>2
      <4> QED BY <1>2, <4>1, <4>2 DEF CompletionIsToldOnce
    <3>10. \A k \in notice' : Terminal(k)' /\ Counted(k)' = {}
      <4> SUFFICES ASSUME NEW k \in notice' PROVE Terminal(k)' /\ Counted(k)' = {} OBVIOUS
      <4>1. CASE k \in notice BY <1>1, <3>3, <3>6, <3>7, <4>1 DEF Told
      <4>2. CASE k \notin notice BY <3>1, <3>7, <3>8, <4>2
      <4> QED BY <4>1, <4>2
    <3> QED BY <1>2, <3>4, <3>5, <3>9, <3>10 DEF Told
  <2> QED BY <2>4, <2>5, <2>6, <2>7, <2>8 DEF Inv
<1> QED BY <1>4, <1>5

\* An owner begins to go.
LEMMA DisposeOwnerKeeps ==
    ASSUME Inv, NEW o \in Owners, DisposeOwner(o) PROVE Inv'
<1>1. TypeOK /\ Stored /\ Owned /\ Asked /\ Told BY DEF Inv
<1>2. TypeOK'
  BY <1>1 DEF DisposeOwner, recordVars, producerVars, waitVars, teardownVars, TypeOK,
      Statuses, Ended
<1>3. Stored'
  BY <1>1 DEF DisposeOwner, recordVars, producerVars, waitVars, teardownVars, Stored, Live
<1>4. Owned' BY <1>1 DEF DisposeOwner, recordVars, producerVars, waitVars, teardownVars, Owned
<1>5. Asked'
  BY <1>1 DEF DisposeOwner, recordVars, producerVars, waitVars, teardownVars, Asked, Live
<1>6. Told'
  BY <1>1 DEF DisposeOwner, recordVars, producerVars, waitVars, teardownVars, Told,
      CompletionIsToldOnce, Live, Terminal, Ended, Counted
<1> QED BY <1>2, <1>3, <1>4, <1>5, <1>6 DEF Inv

\* What cancelling the live jobs of S does to each record and to each wait.
LEMMA CancelFields ==
    ASSUME TypeOK, NEW S \in SUBSET Jobs, CancelForTeardown(S),
           UNCHANGED <<owner, outcome, target, saw, notice>>
    PROVE  /\ status' \in [Jobs -> Statuses] /\ reported' \in [Jobs -> BOOLEAN]
           /\ asked' \in SUBSET Jobs
           /\ producer' \in [Jobs -> {"none", "working", "cancelled", "finished", "over"}]
           /\ wait' \in [Waits -> {"off", "waiting", "timedOut", "released", "returned", "rejected"}]
           /\ \A j \in Jobs :
                IF j \in S /\ Live(j)
                THEN status'[j] \in {"failed", "stopping"} /\ reported'[j] /\ j \in asked'
                ELSE /\ status'[j] = status[j] /\ reported'[j] = reported[j]
                     /\ j \in asked' <=> j \in asked
           /\ \A w \in Waits :
                \/ wait'[w] = wait[w] /\ (wait[w] = "waiting" => status'[target[w]] = status[target[w]]
                                                             \/ status'[target[w]] = "stopping")
                \/ wait[w] = "waiting" /\ wait'[w] = "released"
<1> DEFINE live == {j \in S : Live(j)}
<1>1. PICK throwing \in SUBSET live :
        /\ status' = [j \in Jobs |-> IF j \in throwing THEN "failed"
                                     ELSE IF j \in live THEN "stopping" ELSE status[j]]
        /\ reported' = [j \in Jobs |-> j \in live \/ reported[j]]
        /\ Cancelled(live \ throwing)
        /\ ReleaseWaits(throwing)
        /\ asked' = asked \cup live
  BY DEF CancelForTeardown
<1>2. status' \in [Jobs -> Statuses] BY <1>1 DEF TypeOK, Statuses, Ended
<1>3. reported' \in [Jobs -> BOOLEAN]
  <2>1. \A j \in Jobs : (j \in live \/ reported[j]) \in BOOLEAN OBVIOUS
  <2> QED BY <1>1, <2>1
<1>4. asked' \in SUBSET Jobs BY <1>1 DEF TypeOK
<1>5. producer' \in [Jobs -> {"none", "working", "cancelled", "finished", "over"}]
  BY <1>1 DEF TypeOK, Cancelled
<1>6. wait' \in [Waits -> {"off", "waiting", "timedOut", "released", "returned", "rejected"}]
  BY <1>1 DEF TypeOK, ReleaseWaits
<1>7. ASSUME NEW j \in Jobs
      PROVE  IF j \in S /\ Live(j)
             THEN status'[j] \in {"failed", "stopping"} /\ reported'[j] /\ j \in asked'
             ELSE /\ status'[j] = status[j] /\ reported'[j] = reported[j]
                  /\ j \in asked' <=> j \in asked
  <2>1. reported[j] \in BOOLEAN BY DEF TypeOK
  <2>2. CASE j \in live BY <1>1, <2>2
  <2>3. CASE j \notin live BY <1>1, <2>1, <2>3
  <2> QED BY <2>2, <2>3
<1>8. ASSUME NEW w \in Waits
      PROVE  \/ wait'[w] = wait[w] /\ (wait[w] = "waiting" => status'[target[w]] = status[target[w]]
                                                          \/ status'[target[w]] = "stopping")
             \/ wait[w] = "waiting" /\ wait'[w] = "released"
  <2>1. target[w] \in Jobs BY DEF TypeOK
  <2>2. wait'[w] = IF target[w] \in throwing /\ wait[w] = "waiting" THEN "released" ELSE wait[w]
    BY <1>1 DEF ReleaseWaits
  <2> QED BY <1>1, <2>1, <2>2
<1> QED BY <1>2, <1>3, <1>4, <1>5, <1>6, <1>7, <1>8

\* So it keeps what is known of records and waits; a job nobody cancelled keeps its end.
LEMMA CancelKeepsTold ==
    ASSUME TypeOK, Told, NEW S \in SUBSET Jobs, CancelForTeardown(S),
           UNCHANGED <<owner, outcome, target, saw, notice>>
    PROVE  Told'
<1> DEFINE hit(j) == j \in S /\ Live(j)
<1>1. /\ \A j \in Jobs : hit(j) => status'[j] \in {"failed", "stopping"} /\ j \in asked'
      /\ \A j \in Jobs : ~hit(j) => status'[j] = status[j] /\ (j \in asked' <=> j \in asked)
      /\ \A w \in Waits :
            \/ wait'[w] = wait[w] /\ (wait[w] = "waiting" => status'[target[w]] = status[target[w]]
                                                         \/ status'[target[w]] = "stopping")
            \/ wait[w] = "waiting" /\ wait'[w] = "released"
  BY CancelFields
<1>2. \A j \in Jobs : hit(j) => ~Terminal(j) BY DEF Live, Terminal, Ended
<1> HIDE DEF hit
<1>3. \A w \in Waits : target[w] \in Jobs BY DEF TypeOK
<1>4. notice \subseteq Jobs BY DEF TypeOK
<1>5. \A j \in Jobs : ~hit(j) => Terminal(j)' = Terminal(j) BY <1>1 DEF Terminal
<1>6. \A w \in Waits : saw[w] => Terminal(target[w])' BY <1>2, <1>3, <1>5 DEF Told
<1>7. \A w \in Waits : wait'[w] = "waiting" => Live(target[w])'
  BY <1>1 DEF Told, Live
<1>8. \A j \in Jobs : Counted(j) = {} => Counted(j)' = {} BY <1>1 DEF Counted
<1>9. \A j \in notice : Terminal(j)' /\ Counted(j)' = {}
  BY <1>2, <1>4, <1>5, <1>8 DEF Told
<1>10. ASSUME NEW j \in Jobs, Terminal(j)', owner[j] # NoOwner, j \notin notice \cup asked'
       PROVE  \E w \in Waits : target[w] = j /\ (wait'[w] \in {"timedOut", "released"} \/ saw[w])
  <2>1. ~hit(j) /\ Terminal(j) /\ j \notin notice \cup asked BY <1>1, <1>5, <1>10
  <2>2. PICK w \in Waits : target[w] = j /\ (wait[w] \in {"timedOut", "released"} \/ saw[w])
    BY <1>10, <2>1 DEF Told, CompletionIsToldOnce
  <2> QED BY <1>1, <2>2
<1>11. ASSUME NEW j \in notice
       PROVE  j \notin asked' /\ \A w \in Waits : ~(target[w] = j /\ saw[w])
  BY <1>1, <1>2, <1>4 DEF Told, CompletionIsToldOnce
<1>12. CompletionIsToldOnce' BY <1>10, <1>11 DEF CompletionIsToldOnce
<1> QED BY <1>6, <1>7, <1>9, <1>12 DEF Told

\* Its cleanup asks for the end of every job it awaits.
LEMMA DrainOwnerKeeps ==
    ASSUME Inv, NEW o \in Owners, DrainOwner(o) PROVE Inv'
<1>1. TypeOK /\ Stored /\ Owned /\ Asked /\ Told BY DEF Inv
<1> DEFINE S == {j \in store : owner[j] = o}
<1>2. /\ cleanup[o] = "attached" /\ scope[o] = "disposing"
      /\ cleanup' = [cleanup EXCEPT ![o] = "draining"]
      /\ awaited' = [awaited EXCEPT ![o] = S]
      /\ UNCHANGED <<owner, store, outcome, target, saw, scope, service, notice>>
  BY DEF DrainOwner
<1>3. /\ cleanup'[o] = "draining" /\ awaited'[o] = S
      /\ \A p \in Owners \ {o} : cleanup'[p] = cleanup[p] /\ awaited'[p] = awaited[p]
  BY <1>1, <1>2 DEF TypeOK
<1>4. CancelForTeardown(S) /\ S \in SUBSET Jobs BY <1>1, <1>3 DEF DrainOwner, TypeOK
<1> HIDE DEF S
<1>5. /\ status' \in [Jobs -> Statuses] /\ reported' \in [Jobs -> BOOLEAN]
      /\ asked' \in SUBSET Jobs
      /\ producer' \in [Jobs -> {"none", "working", "cancelled", "finished", "over"}]
      /\ wait' \in [Waits -> {"off", "waiting", "timedOut", "released", "returned", "rejected"}]
      /\ \A j \in Jobs :
           IF j \in S /\ Live(j)
           THEN status'[j] \in {"failed", "stopping"} /\ reported'[j] /\ j \in asked'
           ELSE /\ status'[j] = status[j] /\ reported'[j] = reported[j]
                /\ j \in asked' <=> j \in asked
  BY <1>1, <1>2, <1>4, CancelFields
<1>6. \A j \in Jobs : owner[j] \in Owners \cup {NoOwner} BY <1>1 DEF TypeOK
<1>7. \A j \in Jobs : (j \in S <=> j \in store /\ owner[j] = o) BY DEF S
<1>8. TypeOK'
  <2>1. cleanup' \in [Owners -> {"none", "attached", "draining", "done"}]
    BY <1>1, <1>2 DEF TypeOK
  <2>2. awaited' \in [Owners -> SUBSET Jobs] BY <1>1, <1>2, <1>4 DEF TypeOK
  <2> QED BY <1>1, <1>2, <1>5, <2>1, <2>2 DEF TypeOK
<1>9. Stored' BY <1>1, <1>2, <1>5 DEF Stored, Live
<1>10. Owned'
  <2>1. ASSUME NEW j \in Jobs, owner[j] # NoOwner
        PROVE  /\ cleanup'[owner[j]] # "none"
               /\ j \in store => cleanup'[owner[j]] \in {"attached", "draining"}
               /\ j \in store /\ cleanup'[owner[j]] = "draining" => j \in awaited'[owner[j]]
    <3>1. CASE owner[j] = o BY <1>3, <1>7, <3>1
    <3>2. CASE owner[j] # o
      <4>1. owner[j] \in Owners \ {o} BY <1>6, <2>1, <3>2
      <4> QED BY <1>1, <1>3, <2>1, <4>1 DEF Owned
    <3> QED BY <3>1, <3>2
  <2>2. \A p \in Owners : scope[p] = "gone" => cleanup'[p] \in {"none", "done"}
    BY <1>1, <1>2, <1>3 DEF Owned
  <2> QED BY <1>2, <2>1, <2>2 DEF Owned
<1>11. Asked'
  <2> SUFFICES ASSUME NEW j \in Jobs
               PROVE  /\ Live(j)' => (reported'[j] <=> j \in asked')
                      /\ status'[j] = "none" => ~reported'[j] /\ j \notin asked'
                      /\ Live(j)' /\ service # "open" => j \in asked'
                      /\ Live(j)' /\ owner[j] # NoOwner /\ cleanup'[owner[j]] = "draining"
                           => j \in asked'
    BY <1>2 DEF Asked
  <2>1. CASE j \in S /\ Live(j) BY <1>5, <2>1
  <2>2. CASE ~(j \in S /\ Live(j))
    <3>1. Live(j)' = Live(j) BY <1>5, <2>2 DEF Live
    <3>2. Live(j) => owner[j] # o BY <1>1, <1>7, <2>2 DEF Stored
    <3>3. Live(j) /\ owner[j] # NoOwner => cleanup'[owner[j]] = cleanup[owner[j]]
      BY <1>3, <1>6, <3>2
    <3> QED BY <1>1, <1>5, <2>2, <3>1, <3>3 DEF Asked
  <2> QED BY <2>1, <2>2
<1>12. Told' BY <1>1, <1>2, <1>4, CancelKeepsTold
<1> QED BY <1>8, <1>9, <1>10, <1>11, <1>12 DEF Inv

\* Its jobs have ended and leave the store.
LEMMA OwnerDrainedKeeps ==
    ASSUME Inv, NEW o \in Owners, OwnerDrained(o) PROVE Inv'
<1>1. TypeOK /\ Stored /\ Owned /\ Asked /\ Told BY DEF Inv
<1>2. TypeOK'
  BY <1>1 DEF OwnerDrained, recordVars, producerVars, waitVars, teardownVars, TypeOK,
      Statuses, Ended
<1>3. Stored'
  <2>1. /\ \A k \in awaited[o] : Terminal(k)
        /\ store' = store \ awaited[o]
        /\ UNCHANGED <<status, owner, service>>
    BY DEF OwnerDrained
  <2>2. \A k \in Jobs : Live(k)' => Live(k) /\ k \notin awaited[o]
    BY <2>1 DEF Live, Terminal, Ended
  <2>3. \A k \in Jobs : Live(k)' => k \in store' BY <1>1, <2>1, <2>2 DEF Stored
  <2>4. \A k \in Jobs : status[k] = "none" => owner[k] = NoOwner /\ k \notin store'
    BY <1>1, <2>1 DEF Stored
  <2>5. service = "closed" => store' = {} BY <1>1, <2>1 DEF Stored
  <2> QED BY <2>1, <2>3, <2>4, <2>5 DEF Stored
<1>4. Owned' BY <1>1 DEF OwnerDrained, recordVars, producerVars, waitVars, teardownVars, Owned
<1>5. Asked'
  BY <1>1 DEF OwnerDrained, recordVars, producerVars, waitVars, teardownVars, Asked, Live
<1>6. Told'
  BY <1>1 DEF OwnerDrained, recordVars, producerVars, waitVars, teardownVars, Told,
      CompletionIsToldOnce, Live, Terminal, Ended, Counted
<1> QED BY <1>2, <1>3, <1>4, <1>5, <1>6 DEF Inv

\* It is gone.
LEMMA OwnerGoneKeeps ==
    ASSUME Inv, NEW o \in Owners, OwnerGone(o) PROVE Inv'
<1>1. TypeOK /\ Stored /\ Owned /\ Asked /\ Told BY DEF Inv
<1>2. TypeOK'
  BY <1>1 DEF OwnerGone, recordVars, producerVars, waitVars, teardownVars, TypeOK, Statuses,
      Ended
<1>3. Stored'
  BY <1>1 DEF OwnerGone, recordVars, producerVars, waitVars, teardownVars, Stored, Live
<1>4. Owned' BY <1>1 DEF OwnerGone, recordVars, producerVars, waitVars, teardownVars, Owned
<1>5. Asked'
  BY <1>1 DEF OwnerGone, recordVars, producerVars, waitVars, teardownVars, Asked, Live
<1>6. Told'
  BY <1>1 DEF OwnerGone, recordVars, producerVars, waitVars, teardownVars, Told,
      CompletionIsToldOnce, Live, Terminal, Ended, Counted
<1> QED BY <1>2, <1>3, <1>4, <1>5, <1>6 DEF Inv

\* The service asks for the end of every job.
LEMMA DrainServiceKeeps ==
    ASSUME Inv, DrainService PROVE Inv'
<1>1. TypeOK /\ Stored /\ Owned /\ Asked /\ Told BY DEF Inv
<1>2. /\ service' = "draining" /\ CancelForTeardown(store) /\ store \in SUBSET Jobs
      /\ UNCHANGED <<owner, store, outcome, target, saw, scope, cleanup, awaited, notice>>
  BY <1>1 DEF DrainService, TypeOK
<1>3. /\ status' \in [Jobs -> Statuses] /\ reported' \in [Jobs -> BOOLEAN]
      /\ asked' \in SUBSET Jobs
      /\ producer' \in [Jobs -> {"none", "working", "cancelled", "finished", "over"}]
      /\ wait' \in [Waits -> {"off", "waiting", "timedOut", "released", "returned", "rejected"}]
      /\ \A j \in Jobs :
           IF j \in store /\ Live(j)
           THEN status'[j] \in {"failed", "stopping"} /\ reported'[j] /\ j \in asked'
           ELSE /\ status'[j] = status[j] /\ reported'[j] = reported[j]
                /\ j \in asked' <=> j \in asked
  BY <1>1, <1>2, CancelFields
<1>4. TypeOK' BY <1>1, <1>2, <1>3 DEF TypeOK
<1>5. Stored' BY <1>1, <1>2, <1>3 DEF Stored, Live
<1>6. Owned' BY <1>1, <1>2 DEF Owned
<1>7. Asked'
  <2> SUFFICES ASSUME NEW j \in Jobs
               PROVE  /\ Live(j)' => reported'[j] /\ j \in asked'
                      /\ status'[j] = "none" => ~reported'[j] /\ j \notin asked'
    BY DEF Asked
  <2>1. CASE Live(j) BY <1>1, <1>3, <2>1 DEF Stored
  <2>2. CASE ~Live(j)
    <3>1. Live(j)' = Live(j) BY <1>3, <2>2 DEF Live
    <3> QED BY <1>1, <1>3, <2>2, <3>1 DEF Asked
  <2> QED BY <2>1, <2>2
<1>8. Told' BY <1>1, <1>2, CancelKeepsTold
<1> QED BY <1>4, <1>5, <1>6, <1>7, <1>8 DEF Inv

\* The service has closed.
LEMMA ServiceDrainedKeeps ==
    ASSUME Inv, ServiceDrained PROVE Inv'
<1>1. TypeOK /\ Stored /\ Owned /\ Asked /\ Told BY DEF Inv
<1>2. TypeOK'
  BY <1>1 DEF ServiceDrained, recordVars, producerVars, waitVars, teardownVars, TypeOK,
      Statuses, Ended
<1>3. Stored'
  <2>1. /\ \A k \in store : Terminal(k)
        /\ store' = {}
        /\ UNCHANGED <<status, owner>>
    BY DEF ServiceDrained
  <2>2. \A k \in Jobs : ~Live(k) BY <1>1, <2>1 DEF Stored, Live, Terminal, Ended
  <2>3. \A k \in Jobs : ~Live(k)' BY <2>1, <2>2 DEF Live
  <2>4. \A k \in Jobs : status[k] = "none" => owner[k] = NoOwner BY <1>1 DEF Stored
  <2> QED BY <2>1, <2>3, <2>4 DEF Stored
<1>4. Owned'
  <2>1. /\ store' = {}
        /\ cleanup' = [p \in Owners |-> IF cleanup[p] = "attached" THEN "done" ELSE cleanup[p]]
        /\ UNCHANGED <<owner, scope, awaited>>
    BY DEF ServiceDrained
  <2>2. \A k \in Jobs : owner[k] # NoOwner => owner[k] \in Owners BY <1>1 DEF TypeOK
  <2> QED BY <1>1, <2>1, <2>2 DEF Owned
<1>5. Asked'
  BY <1>1 DEF ServiceDrained, recordVars, producerVars, waitVars, teardownVars, Asked, Live
<1>6. Told'
  BY <1>1 DEF ServiceDrained, recordVars, producerVars, waitVars, teardownVars, Told,
      CompletionIsToldOnce, Live, Terminal, Ended, Counted
<1> QED BY <1>2, <1>3, <1>4, <1>5, <1>6 DEF Inv

LEMMA StutterKeeps == Inv /\ UNCHANGED vars => Inv'
<1> SUFFICES ASSUME Inv, UNCHANGED vars PROVE Inv' OBVIOUS
<1>1. UNCHANGED <<status, owner, reported, store, producer, outcome, wait, target, saw, scope,
                  cleanup, awaited, service, notice, asked>>
  BY DEF vars, recordVars, producerVars, waitVars, teardownVars
<1>2. TypeOK /\ Stored /\ Owned /\ Asked /\ Told BY DEF Inv
<1>3. TypeOK' BY <1>1, <1>2 DEF TypeOK
<1>4. Stored' BY <1>1, <1>2 DEF Stored, Live
<1>5. Owned' BY <1>1, <1>2 DEF Owned
<1>6. Asked' BY <1>1, <1>2 DEF Asked, Live
<1>7. Told' BY <1>1, <1>2 DEF Told, CompletionIsToldOnce, Counted, Live, Terminal
<1> QED BY <1>3, <1>4, <1>5, <1>6, <1>7 DEF Inv

LEMMA InitInv == Init => Inv
<1> SUFFICES ASSUME Init PROVE Inv OBVIOUS
<1>1. TypeOK
  <2>1. /\ status \in [Jobs -> Statuses] /\ outcome \in [Jobs -> Ended]
        /\ owner \in [Jobs -> Owners \cup {NoOwner}]
        /\ reported \in [Jobs -> BOOLEAN]
    BY DEF Init, Statuses, Ended
  <2>2. /\ producer \in [Jobs -> {"none", "working", "cancelled", "finished", "over"}]
        /\ store \in SUBSET Jobs /\ notice \in SUBSET Jobs /\ asked \in SUBSET Jobs
    BY DEF Init
  <2>3. /\ wait \in [Waits -> {"off", "waiting", "timedOut", "released", "returned", "rejected"}]
        /\ target \in [Waits -> Jobs] /\ saw \in [Waits -> BOOLEAN]
    BY DEF Init
  <2>4. /\ scope \in [Owners -> {"live", "disposing", "gone"}]
        /\ cleanup \in [Owners -> {"none", "attached", "draining", "done"}]
        /\ awaited \in [Owners -> SUBSET Jobs] /\ service \in {"open", "draining", "closed"}
    BY DEF Init
  <2> QED BY <2>1, <2>2, <2>3, <2>4 DEF TypeOK
<1>2. Stored BY DEF Init, Stored, Live
<1>3. Owned BY DEF Init, Owned
<1>4. Asked BY DEF Init, Asked, Live
<1>5. Told
  <2>1. \A w \in Waits : ~saw[w] /\ wait[w] = "off" BY DEF Init
  <2>2. \A j \in Jobs : ~Terminal(j) BY DEF Init, Terminal, Ended
  <2>3. notice = {} BY DEF Init
  <2> QED BY <2>1, <2>2, <2>3 DEF Told, CompletionIsToldOnce
<1> QED BY <1>1, <1>2, <1>3, <1>4, <1>5 DEF Inv

LEMMA StepInv == Inv /\ [Next]_vars => Inv'
<1> SUFFICES ASSUME Inv, [Next]_vars PROVE Inv' OBVIOUS
<1>1. CASE Callers
  BY <1>1, StartKeeps, StartRefusedKeeps, DisposeOwnerKeeps, ReadKeeps, KillKeeps, BeginWaitKeeps,
     AbortWaitKeeps, FinishKeeps, DrainServiceKeeps DEF Callers
<1>2. CASE Continuations
  BY <1>2, SettleKeeps, TimeOutKeeps, EndWaitKeeps, DrainOwnerKeeps, OwnerDrainedKeeps,
     OwnerGoneKeeps, ServiceDrainedKeeps DEF Continuations
<1>3. CASE UNCHANGED vars BY <1>3, StutterKeeps
<1> QED BY <1>1, <1>2, <1>3 DEF Next

LEMMA Invariance == Spec => []Inv
<1> QED BY InitInv, StepInv, PTL DEF Spec

-----------------------------------------------------------------------------
(***************************************************************************)
(* What the registry guarantees.                                           *)
(***************************************************************************)

\* Every variable of the registry keeps its type (LocalJobRegistry).
THEOREM TypeCorrect == Spec => []TypeOK
<1>1. Inv => TypeOK BY DEF Inv
<1> QED BY <1>1, Invariance, PTL

\* The completion of an owned job is announced, asked for or returned by a wait, and never
\* both announced and known otherwise.
THEOREM CompletionsAreToldOnce == Spec => []CompletionIsToldOnce
<1>1. Inv => CompletionIsToldOnce BY DEF Inv, Told
<1> QED BY <1>1, Invariance, PTL

\* Neither an owner that is gone nor a service that has closed leaves a live record.
THEOREM NothingIsLeftBehind == Spec => []TeardownLeavesNothing
<1>1. Inv => TeardownLeavesNothing
  <2> SUFFICES ASSUME Inv PROVE TeardownLeavesNothing OBVIOUS
  <2>1. TypeOK /\ Stored /\ Owned BY DEF Inv
  <2>2. ASSUME NEW o \in Owners, scope[o] = "gone", NEW j \in Jobs, owner[j] = o
        PROVE  Terminal(j) /\ j \notin store
    <3>1. owner[j] # NoOwner BY <2>2, JobsAssumption
    <3>2. j \notin store BY <2>1, <2>2, <3>1 DEF Owned
    <3>3. status[j] # "none" /\ ~Live(j) BY <2>1, <3>1, <3>2 DEF Stored
    <3> QED BY <2>1, <3>2, <3>3 DEF TypeOK, Live, Terminal, Statuses
  <2>3. service = "closed" => \A j \in Jobs : ~Live(j) BY <2>1 DEF Stored
  <2> QED BY <2>2, <2>3 DEF TeardownLeavesNothing
<1> QED BY <1>1, Invariance, PTL

\* Only the end of a job whose owner and service stay is announced.
LEMMA QuietStep == Inv /\ [Next]_vars =>
                     [\A j \in notice' \ notice :
                         service = "open" /\ cleanup[owner[j]] = "attached"]_vars
<1> SUFFICES ASSUME Inv, Next, NEW j \in notice' \ notice
             PROVE  service = "open" /\ cleanup[owner[j]] = "attached"
  OBVIOUS
<1>1. TypeOK /\ Stored /\ Owned /\ Asked BY DEF Inv
<1>2. PICK k \in Jobs : Settle(k)
  <2>1. \/ notice' = notice
        \/ \E k \in Jobs : Settle(k)
    BY DEF Next, Callers, Continuations, Start, StartRefused, Read, Kill, BeginWait, TimeOut,
           AbortWait, EndWait, Finish, DisposeOwner, DrainOwner, OwnerDrained, OwnerGone,
           DrainService, ServiceDrained
  <2> QED BY <2>1
<1>3. j = k /\ service = "open" /\ ~reported'[k] /\ owner[k] # NoOwner /\ ~Terminal(k)
      /\ reported' = [reported EXCEPT ![k] = @ \/ Counted(k) # {}]
  BY <1>2 DEF Settle
<1>4. ~reported[k] BY <1>1, <1>3 DEF TypeOK
<1>5. Live(k) BY <1>1, <1>3 DEF Stored, Live, Terminal, TypeOK, Statuses
<1>6. k \in store /\ k \notin asked BY <1>1, <1>4, <1>5 DEF Stored, Asked
<1>7. cleanup[owner[k]] # "draining" BY <1>1, <1>3, <1>5, <1>6 DEF Asked
<1> QED BY <1>1, <1>3, <1>6, <1>7 DEF Owned

\* No completion is announced to an owner whose jobs are drained, nor by a closing service.
THEOREM QuietTeardown == Spec => TeardownIsQuiet
<1> QED BY Invariance, QuietStep, PTL DEF Spec, TeardownIsQuiet
===============================================================================
