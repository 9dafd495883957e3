----------------------------- MODULE CronProofs -----------------------------
(***************************************************************************)
(* Proofs about the scheduled jobs, for every value of the constants: what *)
(* runs has been saved, how often a one-shot job runs, that an intent has  *)
(* one job, that the store has at rest what the engine has, and the types. *)
(* CronInv, the inductive invariant, says of each job what the engine, its *)
(* run and its add know of it, and what the store has; CronStep has one    *)
(* lemma for each action.                                                  *)
(***************************************************************************)
EXTENDS CronJobs, FiniteSetTheorems, TLAPS

-----------------------------------------------------------------------------
(* The inductive invariant, job by job.                                    *)

\* The state the argument is about has its types.
JobsTyped == DOMAIN jobs \subseteq Id /\ jobs \in [DOMAIN jobs -> Job]
StoreTyped == DOMAIN store \subseteq Id /\ store \in [DOMAIN store -> Job]

RestTyped ==
    /\ request \in [Caller -> Request] /\ run \in [Id -> Run]
    /\ faults \in Nat /\ crashes \in Nat
    /\ executed \in [Id -> Nat] /\ resumed \in [Id -> Nat]
    /\ kept \subseteq Id /\ orphaned \subseteq Id
    /\ contended \subseteq Key /\ unsaved \in BOOLEAN

\* The steps of a run before the engine has taken its end, and of an add that
\* has made its job and has not returned.
UnderWay == {"gate", "work", "notify", "finish"}
Adding == {"flag", "save", "undo", "start"}

\* A job is running when a run of its own is under way; it is not due then.
RunHasJob(j) ==
    /\ run[j].own /\ run[j].at \in UnderWay =>
          j \in DOMAIN jobs /\ jobs[j].status = "running" /\ ~jobs[j].due
    /\ j \in DOMAIN jobs /\ jobs[j].status = "running" =>
          run[j].own /\ run[j].at \in UnderWay

\* A gate is open when the job has been saved, or held by the add that made the
\* job and has not returned; once past its save, the add has saved the job.
GateIsTheirs(j) ==
    j \in DOMAIN jobs =>
        /\ jobs[j].gate = "open" => j \in kept
        /\ jobs[j].gate # "open" =>
              /\ request[jobs[j].gate].at \in Adding
              /\ request[jobs[j].gate].id = j
              /\ request[jobs[j].gate].at = "start" => j \in kept

\* So a run past its gate is of a job that has been saved.
RunIsKept(j) == run[j].own /\ run[j].at \in UnderWay \ {"gate"} => j \in kept

\* How often a one-shot job may still be executed after a run that fails, going
\* by its retries; and now, going by what is scheduled and under way.
Later(n) == IF n + 1 < RetryLimit THEN RetryLimit - (n + 1) ELSE 0

MayRun(job, r) ==
    IF job.due THEN IF r.at \in {"none", "save"} THEN Later(job.retries) + 1 ELSE RetryLimit
    ELSE IF r.own /\ r.at = "gate" THEN Later(job.retries) + 1
    ELSE IF r.at \notin {"none", "save"} THEN Later(job.retries) ELSE 0

\* The same for a job as the store has it.
MayRunAgain(s) == IF s.due \/ s.status = "running" THEN Later(s.retries) + 1 ELSE 0

\* Each resume, restart and lost save adds to what a job may be executed.
Allowance(n, lost) == RetryLimit * (1 + n) + lost

RunsAreCounted(j) ==
    j \in DOMAIN jobs /\ jobs[j].schedule = "once" =>
        executed[j] + MayRun(jobs[j], run[j]) <= Allowance(resumed[j], crashes + faults)

JobInv(j) ==
    RunHasJob(j) /\ GateIsTheirs(j) /\ RunIsKept(j) /\ RunsAreCounted(j)

\* A job that has been saved is in the store with its schedule.
ScheduleIsKept(j) ==
    j \in DOMAIN jobs /\ j \in kept => j \in DOMAIN store /\ store[j].schedule = jobs[j].schedule

\* What a restart makes of one job.
Restored(s) ==
    LET due == s.due \/ s.status = "running"
        status == IF s.status = "running" THEN "idle" ELSE s.status
    IN  [s EXCEPT !.gate = "open", !.status = status,
                  !.due = due /\ ~(status = "paused" /\ s.kind = "one_shot")]

\* The add that made a job, or took its identity, is still to save it.
ToBeSaved(j) ==
    \E c \in Caller : request[c].at \in {"flag", "save", "undo"} /\ request[c].id = j

\* The last save failed, one is still to come, or a job was taken back without one.
Pending(j) == unsaved \/ j \in orphaned \/ \E c \in Caller : request[c].at = "store"

\* Or else a restart makes the same of what the store has and of what the engine
\* has, but for jobs that a save of their own is still to come for.
StoreAgrees(j) ==
    ~Pending(j) =>
        /\ j \notin DOMAIN jobs /\ run[j].at \notin {"record", "save"} => j \notin DOMAIN store
        /\ j \in DOMAIN jobs /\ run[j].at = "none" /\ ~ToBeSaved(j) =>
              j \in DOMAIN store /\ Restored(store[j]) = Restored(jobs[j])

\* A run whose record is not saved yet is lost with a restart.
Unrecorded(r) == IF r.at \in {"work", "notify", "finish", "record", "save"} THEN 1 ELSE 0

StoredRunsAreCounted(j) ==
    j \in DOMAIN store /\ store[j].schedule = "once" =>
        executed[j] + MayRunAgain(store[j])
            <= Allowance(resumed[j], crashes + faults) + Unrecorded(run[j])

StoredInv(j) == ScheduleIsKept(j) /\ StoreAgrees(j) /\ StoredRunsAreCounted(j)

\* At most one job of an intent.
OneOf(js, k) == \A i, j \in FindByIntent(js, k) : i = j

\* Of an intent nobody contended for there is one job, in the engine and in the
\* store; one request, and no job as long as that has not made it.
OneRequest(k) ==
    \A c, d \in Caller :
        (Adds(c) /\ Adds(d) /\ request[c].key = k /\ request[d].key = k) => c = d

NoneYet(k) ==
    \A c \in Caller : (request[c].at \in {"add", "fill", "commit"} /\ request[c].key = k) =>
        FindByIntent(jobs, k) = {}

IntentIsOne(k) == OneOf(jobs, k) /\ OneOf(store, k) /\ OneRequest(k) /\ NoneYet(k)
IntentsAreOne == \A k \in Key \ contended : IntentIsOne(k)

EngineInv == JobsTyped /\ RestTyped /\ \A j \in Id : JobInv(j)
StoreInv == StoreTyped /\ \A j \in Id : StoredInv(j)
CronInv == EngineInv /\ StoreInv /\ IntentsAreOne

-----------------------------------------------------------------------------
(* Lemmas about the operators.                                             *)

\* What the constants and the initial records of requests and runs are.
LEMMA CronConstants ==
    ASSUME CronAssumption
    PROVE  /\ RetryLimit \in Nat /\ RetryLimit >= 1
           /\ NoKey \notin Key /\ "open" \notin Caller
           /\ ToolId \in [Key -> Id]
           /\ IdleRequest \in Request /\ IdleRequest.at = "idle"
           /\ NoRun \in Run
<1>1. ToolId \in [Key -> Id]
    BY DEF CronAssumption, ToolId
<1>2. PICK k \in Key : TRUE
    BY DEF CronAssumption
<1>3. ToolId[k] \in Id
    BY <1>1, <1>2
<1>4. (CHOOSE j \in Id : TRUE) \in Id /\ (CHOOSE l \in Key : TRUE) \in Key
    BY <1>2, <1>3
<1>5. IdleRequest \in Request /\ IdleRequest.at = "idle"
    BY <1>4 DEF IdleRequest, Request, Schedule, Kind
<1>6. NoRun \in Run
    BY DEF NoRun, Run, RunError
<1> QED BY <1>1, <1>5, <1>6 DEF CronAssumption

\* What is left to a job goes down by one with a run that fails.
LEMMA LaterCounts ==
    ASSUME CronAssumption
    PROVE  /\ \A n \in Nat : Later(n) \in Nat /\ Later(n) + 1 <= RetryLimit
           /\ \A n \in Nat : n + 1 < RetryLimit => Later(n + 1) + 1 = Later(n)
           /\ Later(0) + 1 = RetryLimit
<1>1. RetryLimit \in Nat /\ RetryLimit >= 1
    BY CronConstants
<1> QED BY <1>1 DEF Later

\* Every resume allows as many runs as a new job has; what is lost, one each.
LEMMA Allowances ==
    ASSUME CronAssumption
    PROVE  \A n, l \in Nat :
             /\ Allowance(n, l) \in Nat /\ RetryLimit <= Allowance(n, l)
             /\ Allowance(n, l + 1) = Allowance(n, l) + 1
             /\ Allowance(n + 1, l) = Allowance(n, l) + RetryLimit
<1> SUFFICES ASSUME NEW n \in Nat, NEW l \in Nat
             PROVE  /\ Allowance(n, l) \in Nat /\ RetryLimit <= Allowance(n, l)
                    /\ Allowance(n, l + 1) = Allowance(n, l) + 1
                    /\ Allowance(n + 1, l) = Allowance(n, l) + RetryLimit
    OBVIOUS
<1>1. RetryLimit \in Nat
    BY CronConstants
<1> DEFINE p == RetryLimit * n
<1>2. RetryLimit * (1 + n) = RetryLimit + p
      /\ RetryLimit * (1 + (n + 1)) = RetryLimit + RetryLimit + p
    BY <1>1
<1>3. p \in Nat
    BY <1>1
<1> HIDE DEF p
<1> QED BY <1>1, <1>2, <1>3 DEF Allowance

\* What may still be executed is a number, and no more than the limit.
LEMMA MayRunNumbers ==
    ASSUME CronAssumption, NEW job \in Job, NEW r \in Run
    PROVE  /\ MayRun(job, r) \in Nat /\ MayRun(job, r) <= RetryLimit
           /\ Later(job.retries) \in Nat /\ Later(job.retries) + 1 <= RetryLimit
           /\ MayRunAgain(job) \in Nat /\ MayRunAgain(job) <= RetryLimit
<1>1. job.retries \in Nat
    BY DEF Job
<1>2. Later(job.retries) \in Nat /\ Later(job.retries) + 1 <= RetryLimit
    BY <1>1, LaterCounts
<1>3. RetryLimit \in Nat
    BY CronConstants
<1> QED BY <1>2, <1>3 DEF MayRun, MayRunAgain

\* A save succeeds or fails.
LEMMA SaveOutcome ==
    ASSUME NEW js, \E ok \in BOOLEAN : Saves(ok, js)
    PROVE  \/ store' = js /\ kept' = kept \cup DOMAIN js /\ unsaved' = FALSE
              /\ orphaned' = {} /\ faults' = faults
           \/ faults' = faults + 1 /\ unsaved' = TRUE /\ store' = store /\ kept' = kept
              /\ orphaned' = orphaned
BY DEF Saves

\* Quiescing changes nothing but whether a paused one-shot job is due.
LEMMA QuiescedJobs ==
    ASSUME NEW D, NEW js \in [D -> Job]
    PROVE  /\ Quiesce(js) \in [D -> Job]
           /\ \A j \in D :
                /\ Quiesce(js)[j].status = js[j].status /\ Quiesce(js)[j].kind = js[j].kind
                /\ Quiesce(js)[j].schedule = js[j].schedule /\ Quiesce(js)[j].key = js[j].key
                /\ Quiesce(js)[j].archived = js[j].archived
                /\ Quiesce(js)[j].retries = js[j].retries /\ Quiesce(js)[j].gate = js[j].gate
                /\ Quiesce(js)[j].due = (js[j].due /\ ~(js[j].status = "paused"
                                                        /\ js[j].kind = "one_shot"))
<1>1. DOMAIN js = D /\ DOMAIN Quiesce(js) = D
    BY DEF Quiesce
<1>2. ASSUME NEW j \in D
      PROVE  /\ Quiesce(js)[j] \in Job
             /\ Quiesce(js)[j].status = js[j].status /\ Quiesce(js)[j].kind = js[j].kind
             /\ Quiesce(js)[j].schedule = js[j].schedule /\ Quiesce(js)[j].key = js[j].key
                /\ Quiesce(js)[j].archived = js[j].archived
             /\ Quiesce(js)[j].retries = js[j].retries /\ Quiesce(js)[j].gate = js[j].gate
             /\ Quiesce(js)[j].due = (js[j].due /\ ~(js[j].status = "paused"
                                                     /\ js[j].kind = "one_shot"))
    <2>1. js[j] \in Job
        BY <1>2
    <2>2. CASE js[j].status = "paused" /\ js[j].kind = "one_shot"
        <3>1. Quiesce(js)[j] = [js[j] EXCEPT !.due = FALSE]
            BY <1>1, <1>2, <2>2 DEF Quiesce
        <3> QED BY <2>1, <2>2, <3>1 DEF Job
    <2>3. CASE ~(js[j].status = "paused" /\ js[j].kind = "one_shot")
        <3>1. Quiesce(js)[j] = js[j]
            BY <1>1, <1>2, <2>3 DEF Quiesce
        <3>2. js[j].due \in BOOLEAN
            BY <2>1 DEF Job
        <3> QED BY <2>1, <2>3, <3>1, <3>2
    <2> QED BY <2>2, <2>3
<1>3. Quiesce(js) \in [D -> Job]
    BY <1>1, <1>2 DEF Quiesce
<1> QED BY <1>2, <1>3

\* A restart makes of every job what it makes of one.
LEMMA RestoredOne ==
    ASSUME NEW s \in Job
    PROVE  /\ Restored(s) \in Job /\ Restored(s).status # "running"
           /\ Restored(s).gate = "open"
           /\ Restored(s).schedule = s.schedule
           /\ Restored(s).kind = s.kind /\ Restored(s).key = s.key
           /\ Restored(s).archived = s.archived /\ Restored(s).retries = s.retries
           /\ Restored(s).status = "paused" /\ Restored(s).kind = "one_shot" => ~Restored(s).due
           /\ Restored(s).due => s.due \/ s.status = "running"
           /\ Restored(Restored(s)) = Restored(s)
           /\ Restored(s) = [Restored(s) EXCEPT !.gate = "open"]
<1> DEFINE status == IF s.status = "running" THEN "idle" ELSE s.status
           due == (s.due \/ s.status = "running") /\ ~(status = "paused" /\ s.kind = "one_shot")
           r == [s EXCEPT !.gate = "open", !.status = status, !.due = due]
<1>1. Restored(s) = r
    BY DEF Restored
<1>2. status \in {"idle", "paused", "failed", "done"} /\ due \in BOOLEAN
    BY DEF Job
<1> HIDE DEF status, due
<1>3. /\ r \in Job /\ r.status = status /\ r.due = due /\ r.gate = "open" /\ r.kind = s.kind
      /\ r.schedule = s.schedule
      /\ r.key = s.key /\ r.archived = s.archived /\ r.retries = s.retries
    BY <1>2 DEF Job
<1> HIDE DEF r
<1>4. status = "paused" /\ s.kind = "one_shot" => ~due
    BY DEF due
<1>5. due => s.due \/ s.status = "running"
    BY DEF due
<1>6. r = [r EXCEPT !.gate = "open"]
      /\ r = [r EXCEPT !.gate = "open", !.status = r.status, !.due = r.due]
    BY <1>3 DEF Job
<1>7. Restored(r) = r
    <2>1. (r.due /\ ~(r.status = "paused" /\ r.kind = "one_shot")) = r.due
        BY <1>2, <1>3, <1>4
    <2>2. Restored(r) = [r EXCEPT !.gate = "open", !.status = r.status,
                                  !.due = r.due
                                          /\ ~(r.status = "paused" /\ r.kind = "one_shot")]
        BY <1>2, <1>3 DEF Restored
    <2> QED BY <1>6, <2>1, <2>2
<1> QED BY <1>1, <1>2, <1>3, <1>4, <1>5, <1>6, <1>7

-----------------------------------------------------------------------------
(* What a save does to the store.                                          *)

Stored == store = jobs

\* A save that succeeds makes the store the engine's jobs.
LEMMA SavedIsStored == CronAssumption /\ EngineInv /\ Stored => StoreInv
<1> SUFFICES ASSUME CronAssumption, EngineInv, store = jobs PROVE StoreInv
    BY DEF Stored
<1>1. StoreTyped
    BY DEF EngineInv, JobsTyped, StoreTyped
<1>2. ASSUME NEW j \in Id PROVE StoredInv(j)
    <2>1. RunHasJob(j) /\ RunsAreCounted(j)
        BY DEF EngineInv, JobInv
    <2>2. /\ executed[j] \in Nat /\ RetryLimit \in Nat /\ run[j] \in Run
          /\ Allowance(resumed[j], crashes + faults) \in Nat
        <3>1. resumed[j] \in Nat /\ crashes + faults \in Nat
            BY DEF EngineInv, RestTyped
        <3>2. Allowance(resumed[j], crashes + faults) \in Nat
            BY <3>1, Allowances
        <3> QED BY <3>2, CronConstants DEF EngineInv, RestTyped
    <2>3. run[j].at \in {"none", "gate", "work", "notify", "finish", "record", "save"}
        BY <2>2 DEF Run
    <2>4. ScheduleIsKept(j)
        BY DEF ScheduleIsKept
    <2> SUFFICES ASSUME j \in DOMAIN jobs PROVE StoreAgrees(j) /\ StoredRunsAreCounted(j)
        BY <2>4 DEF StoredInv, StoreAgrees, StoredRunsAreCounted
    <2>5. jobs[j] \in Job
        BY DEF EngineInv, JobsTyped
    <2>7. StoreAgrees(j)
        BY DEF StoreAgrees
    <2>8. StoredRunsAreCounted(j)
        <3> SUFFICES ASSUME jobs[j].schedule = "once"
                     PROVE  executed[j] + MayRunAgain(jobs[j])
                              <= Allowance(resumed[j], crashes + faults) + Unrecorded(run[j])
            BY DEF StoredRunsAreCounted
        <3>1. executed[j] + MayRun(jobs[j], run[j]) <= Allowance(resumed[j], crashes + faults)
            BY <2>1 DEF RunsAreCounted
        <3> DEFINE l == Later(jobs[j].retries)
                   n == MayRun(jobs[j], run[j])
        <3>2. l \in Nat /\ l + 1 <= RetryLimit /\ n \in Nat
            BY <2>2, <2>5, MayRunNumbers
        <3>3. MayRunAgain(jobs[j]) = IF jobs[j].due \/ jobs[j].status = "running" THEN l + 1 ELSE 0
            BY DEF MayRunAgain
        <3>4. Unrecorded(run[j]) \in {0, 1}
            BY DEF Unrecorded
        <3>5. jobs[j].due => l + 1 <= n
            BY <2>2, <3>2 DEF MayRun
        <3>6. jobs[j].status = "running" => l + 1 <= n + Unrecorded(run[j])
            <4> SUFFICES ASSUME jobs[j].status = "running"
                         PROVE  l + 1 <= n + Unrecorded(run[j])
                OBVIOUS
            <4>1. ~jobs[j].due /\ run[j].own /\ run[j].at \in UnderWay
                BY <2>1 DEF RunHasJob
            <4>2. CASE run[j].at = "gate"
                BY <3>2, <3>4, <4>1, <4>2 DEF MayRun
            <4>3. CASE run[j].at # "gate"
                <5>1. n = l /\ Unrecorded(run[j]) = 1
                    BY <4>1, <4>3 DEF MayRun, UnderWay, Unrecorded
                <5> QED BY <3>2, <5>1
            <4> QED BY <4>2, <4>3
        <3> HIDE DEF l, n
        <3> DEFINE a == Allowance(resumed[j], crashes + faults)
                   m == MayRunAgain(jobs[j])
        <3>7. executed[j] + n <= a
            BY <3>1 DEF n
        <3>8. m <= n + Unrecorded(run[j]) /\ m \in Nat
            BY <3>2, <3>3, <3>4, <3>5, <3>6
        <3>9. a \in Nat
            BY <2>2
        <3> HIDE DEF a, m
        <3>10. executed[j] + m <= a + Unrecorded(run[j])
            BY <2>2, <3>2, <3>4, <3>7, <3>8, <3>9
        <3> QED BY <3>10 DEF a, m
    <2> QED BY <2>7, <2>8
<1> QED BY <1>1, <1>2 DEF StoreInv

\* The same of the state after a step.
LEMMA SavedIsStoredNext ==
    ASSUME CronAssumption, EngineInv', store' = jobs' PROVE StoreInv'
<1>1. Stored'
    BY DEF Stored
<1> QED BY <1>1, SavedIsStored, PTL

\* A save that fails leaves the store behind by one run; one that is still to come
\* leaves it behind, and loses nothing yet.
LEMMA LostIsAllowed ==
    ASSUME CronAssumption, EngineInv, StoreInv, RestTyped',
           store' = store, kept' = kept, unsaved' \/ \E c \in Caller : request'[c].at = "store",
           \/ faults' = faults + 1
           \/ faults' = faults /\ \A j \in Id : Unrecorded(run'[j]) >= Unrecorded(run[j]),
           crashes' = crashes, executed' = executed,
           \A j \in Id : resumed'[j] \in {resumed[j], resumed[j] + 1},
           \A j \in DOMAIN jobs' : j \in DOMAIN jobs /\ jobs'[j].schedule = jobs[j].schedule
    PROVE  StoreInv'
<1>1. StoreTyped'
    BY DEF StoreInv, StoreTyped
<1>2. ASSUME NEW j \in Id PROVE StoredInv(j)'
    <2>1. ScheduleIsKept(j) /\ StoredRunsAreCounted(j)
        BY DEF StoreInv, StoredInv
    <2>2. ScheduleIsKept(j)'
        BY <2>1 DEF ScheduleIsKept
    <2>3. StoreAgrees(j)'
        BY DEF StoreAgrees, Pending
    <2>4. StoredRunsAreCounted(j)'
        <3> SUFFICES ASSUME j \in DOMAIN store, store[j].schedule = "once"
                     PROVE  executed[j] + MayRunAgain(store[j])
                              <= Allowance(resumed'[j], crashes + faults') + Unrecorded(run'[j])
            BY DEF StoredRunsAreCounted, MayRunAgain, Later, Allowance, Unrecorded
        <3> DEFINE l == crashes + faults
                   a == Allowance(resumed[j], l)
                   b == Allowance(resumed'[j], l)
                   c == Allowance(resumed'[j], l + 1)
                   m == MayRunAgain(store[j])
                   u == Unrecorded(run[j])
                   v == Unrecorded(run'[j])
        <3>1. executed[j] + m <= a + u
            BY <2>1 DEF StoredRunsAreCounted
        <3>2. /\ crashes \in Nat /\ faults \in Nat /\ resumed[j] \in Nat /\ executed[j] \in Nat
              /\ run[j] \in Run
            BY DEF EngineInv, RestTyped
        <3>l. /\ l \in Nat
              /\ faults' = faults => crashes + faults' = l
              /\ faults' = faults + 1 => crashes + faults' = l + 1
            BY <3>2
        <3>3. a \in Nat /\ b \in Nat /\ a <= b /\ c = b + 1
            <4> HIDE DEF l
            <4>1. a \in Nat /\ RetryLimit \in Nat
                BY <3>2, <3>l, Allowances, CronConstants
            <4>2. Allowance(resumed[j] + 1, l) = a + RetryLimit
                BY <3>2, <3>l, Allowances
            <4>3. resumed'[j] \in Nat
                BY <3>2
            <4>4. b \in Nat /\ c = b + 1
                BY <3>l, <4>3, Allowances
            <4>5. CASE resumed'[j] = resumed[j]
                <5>1. a = b
                    BY <4>5
                <5> HIDE DEF a, b, c
                <5> QED BY <4>1, <4>4, <5>1
            <4>6. CASE resumed'[j] = resumed[j] + 1
                <5>1. b = a + RetryLimit
                    BY <4>2, <4>6
                <5> HIDE DEF a, b, c
                <5> QED BY <4>1, <4>4, <5>1
            <4> QED BY <4>5, <4>6
        <3>4. m \in Nat
            <4>1. store[j] \in Job
                BY DEF StoreInv, StoreTyped
            <4> QED BY <3>2, <4>1, MayRunNumbers
        <3>5. u \in {0, 1} /\ v \in {0, 1}
            BY DEF Unrecorded
        <3>6. CASE faults' = faults + 1
            <4>1. Allowance(resumed'[j], crashes + faults') = c
                BY <3>l, <3>6
            <4> HIDE DEF a, b, c, m, u, v
            <4>2. executed[j] + m <= c + v
                BY <3>1, <3>2, <3>3, <3>4, <3>5
            <4> QED BY <4>1, <4>2 DEF m, v
        <3>7. CASE faults' = faults /\ v >= u
            <4>1. Allowance(resumed'[j], crashes + faults') = b
                BY <3>l, <3>7
            <4> HIDE DEF a, b, c, m, u, v
            <4>2. executed[j] + m <= b + v
                BY <3>1, <3>2, <3>3, <3>4, <3>5, <3>7
            <4> QED BY <4>1, <4>2 DEF m, v
        <3> QED BY <3>6, <3>7
    <2> QED BY <2>2, <2>3, <2>4 DEF StoredInv
<1> QED BY <1>1, <1>2 DEF StoreInv

-----------------------------------------------------------------------------
(* A step leaves alone every job that it is not about.                     *)

Untouched(j) ==
    /\ (j \in DOMAIN jobs') = (j \in DOMAIN jobs)
    /\ j \in DOMAIN jobs =>
          /\ jobs'[j].status = jobs[j].status /\ jobs'[j].schedule = jobs[j].schedule
          /\ jobs'[j].due = jobs[j].due /\ jobs'[j].retries = jobs[j].retries
          /\ jobs'[j].gate = jobs[j].gate
    /\ run'[j] = run[j] /\ executed'[j] = executed[j] /\ resumed'[j] = resumed[j]

\* A request that makes another job goes on, or any request that has not made one.
OthersAdd(j) ==
    \A d \in Caller : request'[d] = request[d] \/ request[d].at \notin Adding \/ request[d].id # j

\* A step that does not add to what a job may still run keeps its count.
LEMMA CountKept ==
    ASSUME CronAssumption, EngineInv, NEW j \in Id, RestTyped', j \in DOMAIN jobs,
           j \in DOMAIN jobs' => /\ jobs'[j] \in Job /\ jobs'[j].schedule = jobs[j].schedule
                                 /\ jobs[j].schedule = "once" =>
                                       MayRun(jobs'[j], run'[j]) <= MayRun(jobs[j], run[j]),
           executed'[j] = executed[j], resumed'[j] = resumed[j],
           crashes' = crashes, faults' \in {faults, faults + 1}
    PROVE  RunsAreCounted(j)'
<1> DEFINE n == MayRun(jobs[j], run[j])
           m == MayRun(jobs'[j], run'[j])
           l == crashes + faults
<1> SUFFICES ASSUME j \in DOMAIN jobs', jobs[j].schedule = "once"
             PROVE  executed[j] + m <= Allowance(resumed[j], crashes + faults')
    BY DEF RunsAreCounted, MayRun, Later, Allowance
<1>1. executed[j] + n <= Allowance(resumed[j], l)
    BY DEF EngineInv, JobInv, RunsAreCounted
<1>2. /\ executed[j] \in Nat /\ resumed[j] \in Nat /\ crashes \in Nat /\ faults \in Nat
      /\ jobs[j] \in Job /\ run[j] \in Run
    BY DEF EngineInv, JobsTyped, RestTyped
<1>3. jobs'[j] \in Job /\ run'[j] \in Run
    BY DEF RestTyped
<1>4. m <= n
    OBVIOUS
<1>5. n \in Nat /\ m \in Nat
    BY <1>2, <1>3, MayRunNumbers
<1>6. l \in Nat
    BY <1>2
<1>7. crashes + faults' = l \/ crashes + faults' = l + 1
    <2>1. CASE faults' = faults
        BY <2>1
    <2>2. CASE faults' = faults + 1
        BY <1>2, <2>2
    <2> QED BY <2>1, <2>2
<1> HIDE DEF n, m, l
<1>8. Allowance(resumed[j], l) \in Nat
      /\ Allowance(resumed[j], l + 1) = Allowance(resumed[j], l) + 1
    BY <1>2, <1>6, Allowances
<1>9. executed[j] + m <= Allowance(resumed[j], l)
    BY <1>1, <1>2, <1>4, <1>5, <1>8
<1>10. executed[j] + m <= Allowance(resumed[j], l + 1)
    BY <1>2, <1>5, <1>8, <1>9
<1> QED BY <1>7, <1>9, <1>10

\* A job that a step leaves alone keeps its invariants.
LEMMA UntouchedKeeps ==
    ASSUME CronAssumption, EngineInv, JobsTyped', RestTyped', NEW j \in Id,
           Untouched(j), OthersAdd(j),
           j \in kept => j \in kept', crashes' = crashes, faults' \in {faults, faults + 1}
    PROVE  JobInv(j)'
<1>1. JobInv(j)
    BY DEF EngineInv
<1>2. RunHasJob(j)'
    BY <1>1 DEF JobInv, RunHasJob, Untouched
<1>3. GateIsTheirs(j)'
    <2> SUFFICES ASSUME j \in DOMAIN jobs
                 PROVE  /\ jobs[j].gate = "open" => j \in kept'
                        /\ jobs[j].gate # "open" =>
                              /\ request'[jobs[j].gate].at \in Adding
                              /\ request'[jobs[j].gate].id = j
                              /\ request'[jobs[j].gate].at = "start" => j \in kept'
        BY DEF GateIsTheirs, Untouched
    <2>1. jobs[j].gate \in Caller \cup {"open"}
        BY DEF EngineInv, JobsTyped, Job
    <2>2. GateIsTheirs(j)
        BY <1>1 DEF JobInv
    <2>3. CASE jobs[j].gate = "open"
        BY <2>2, <2>3 DEF GateIsTheirs
    <2>4. CASE jobs[j].gate # "open"
        <3>1. request'[jobs[j].gate] = request[jobs[j].gate]
            BY <2>1, <2>2, <2>4 DEF GateIsTheirs, OthersAdd
        <3> QED BY <2>2, <2>4, <3>1 DEF GateIsTheirs
    <2> QED BY <2>3, <2>4
<1>4. RunIsKept(j)'
    BY <1>1 DEF JobInv, RunIsKept, Untouched
<1>6. RunsAreCounted(j)'
    <2>1. CASE j \in DOMAIN jobs
        <3>1. MayRun(jobs'[j], run'[j]) = MayRun(jobs[j], run[j])
            BY <2>1 DEF Untouched, MayRun
        <3>2. MayRun(jobs[j], run[j]) \in Nat
            BY <2>1, MayRunNumbers DEF EngineInv, JobsTyped, RestTyped
        <3>3. MayRun(jobs'[j], run'[j]) <= MayRun(jobs[j], run[j])
            BY <3>1, <3>2
        <3>4. j \in DOMAIN jobs' => jobs'[j] \in Job
            BY DEF JobsTyped
        <3> QED BY <2>1, <3>3, <3>4, CountKept DEF Untouched
    <2>2. CASE j \notin DOMAIN jobs
        BY <2>2 DEF Untouched, RunsAreCounted
    <2> QED BY <2>1, <2>2
<1> QED BY <1>2, <1>3, <1>4, <1>6 DEF JobInv

\* What was pending still is, if no caller has saved.
LEMMA StaysPending ==
    ASSUME unsaved' = unsaved, orphaned \subseteq orphaned',
           \A c \in Caller : request[c].at = "store" => request'[c].at = "store"
    PROVE  \A j \in Id : Pending(j) => Pending(j)'
BY DEF Pending

\* The store agrees about such a job as it did.
LEMMA UntouchedStays ==
    ASSUME StoreInv, NEW j \in Id, Untouched(j), OthersAdd(j) \/ ToBeSaved(j)',
           j \in DOMAIN jobs => jobs'[j] = jobs[j],
           store' = store, Pending(j) => Pending(j)', j \in kept' => j \in kept,
           crashes' = crashes, faults' = faults
    PROVE  StoredInv(j)'
<1>1. StoredInv(j)
    BY DEF StoreInv
<1>2. ScheduleIsKept(j)'
    BY <1>1 DEF StoredInv, ScheduleIsKept, Untouched
<1>3. StoreAgrees(j)'
    <2>1. ToBeSaved(j) => ToBeSaved(j)'
        BY DEF ToBeSaved, OthersAdd, Adding
    <2>2. StoreAgrees(j)
        BY <1>1 DEF StoredInv
    <2>3. /\ store'[j] = store[j] /\ run'[j] = run[j]
          /\ j \in DOMAIN jobs <=> j \in DOMAIN jobs'
        BY DEF Untouched
    <2> QED BY <2>1, <2>2, <2>3 DEF StoreAgrees
<1>4. StoredRunsAreCounted(j)'
    BY <1>1
       DEF StoredInv, StoredRunsAreCounted, Untouched, MayRunAgain, Later, Allowance, Unrecorded
<1> QED BY <1>2, <1>3, <1>4 DEF StoredInv

\* Jobs are the same when all that is known of them is.
LEMMA SameJob ==
    ASSUME NEW a \in Job, NEW b \in Job,
           a.status = b.status, a.schedule = b.schedule, a.kind = b.kind, a.due = b.due,
           a.key = b.key, a.archived = b.archived, a.retries = b.retries, a.class = b.class,
           a.once = b.once, a.gate = b.gate
    PROVE  a = b
BY DEF Job

\* Opening its gate does not change what a restart makes of a job.
LEMMA OpenedOne ==
    ASSUME NEW s \in Job
    PROVE  Restored([s EXCEPT !.gate = "open"]) = Restored(s)
<1> DEFINE t == [s EXCEPT !.gate = "open"]
<1>1. /\ t \in Job /\ t.status = s.status /\ t.due = s.due /\ t.kind = s.kind
      /\ t.schedule = s.schedule /\ t.key = s.key /\ t.archived = s.archived
      /\ t.retries = s.retries /\ t.class = s.class /\ t.once = s.once
    BY DEF Job
<1> HIDE DEF t
<1> DEFINE status == IF s.status = "running" THEN "idle" ELSE s.status
           due == (s.due \/ s.status = "running") /\ ~(status = "paused" /\ s.kind = "one_shot")
           a == [t EXCEPT !.gate = "open", !.status = status, !.due = due]
           b == [s EXCEPT !.gate = "open", !.status = status, !.due = due]
<1>2. Restored(t) = a /\ Restored(s) = b
    BY <1>1 DEF Restored
<1>3. status \in {"idle", "paused", "failed", "done"} /\ due \in BOOLEAN
    BY DEF Job
<1> HIDE DEF status, due
<1>4. /\ a \in Job /\ a.status = status /\ a.due = due /\ a.kind = s.kind /\ a.gate = "open"
      /\ a.schedule = s.schedule /\ a.key = s.key /\ a.archived = s.archived
      /\ a.retries = s.retries /\ a.class = s.class /\ a.once = s.once
    BY <1>1, <1>3 DEF Job
<1>5. /\ b \in Job /\ b.status = status /\ b.due = due /\ b.kind = s.kind /\ b.gate = "open"
      /\ b.schedule = s.schedule /\ b.key = s.key /\ b.archived = s.archived
      /\ b.retries = s.retries /\ b.class = s.class /\ b.once = s.once
    BY <1>3 DEF Job
<1> HIDE DEF a, b
<1>6. a = b
    BY <1>4, <1>5, SameJob
<1> QED BY <1>2, <1>6 DEF t

\* Quiescing makes the same of a job that does not run and has no gate.
LEMMA QuiescedOne ==
    ASSUME NEW js, NEW j \in DOMAIN js, js[j] \in Job, js[j].status # "running",
           js[j].gate = "open"
    PROVE  Quiesce(js)[j] = Restored(js[j])
<1> DEFINE s == js[j]
           paused == s.status = "paused" /\ s.kind = "one_shot"
           due == (s.due \/ s.status = "running") /\ ~paused
           a == [s EXCEPT !.gate = "open", !.status = s.status, !.due = due]
<1>1. Restored(s) = a
    BY DEF Restored
<1>2. Quiesce(js)[j] = IF paused THEN [s EXCEPT !.due = FALSE] ELSE s
    BY DEF Quiesce
<1>3. s \in Job /\ s.due \in BOOLEAN /\ s.gate = "open" /\ s.status # "running"
    BY DEF Job
<1>4. due = (s.due /\ ~paused)
    BY <1>3
<1>5. CASE paused
    <2> DEFINE b == [s EXCEPT !.due = FALSE]
    <2>1. due = FALSE
        BY <1>5
    <2> HIDE DEF due, paused, s
    <2>2. a = b
        BY <1>3, <2>1 DEF Job
    <2> QED BY <1>1, <1>2, <1>5, <2>2 DEF s
<1>6. CASE ~paused
    <2>1. due = s.due
        BY <1>3, <1>4, <1>6
    <2> HIDE DEF due, paused, s
    <2>2. a = s
        BY <1>3, <2>1 DEF Job
    <2> QED BY <1>1, <1>2, <1>6, <2>2 DEF s
<1> QED BY <1>5, <1>6

\* A restart makes of all jobs what it makes of each.
LEMMA RestoredAll ==
    ASSUME NEW D, NEW js \in [D -> Job]
    PROVE  /\ RestoredJobs(js) \in [D -> Job]
           /\ \A j \in D : RestoredJobs(js)[j] = Restored(js[j])
<1> DEFINE r == [j \in DOMAIN js |->
                    [js[j] EXCEPT !.gate = "open",
                                  !.due = @ \/ js[j].status = "running",
                                  !.status = IF @ = "running" THEN "idle" ELSE @]]
<1>1. RestoredJobs(js) = Quiesce(r) /\ DOMAIN js = D
    BY DEF RestoredJobs
<1>2. ASSUME NEW j \in D PROVE RestoredJobs(js)[j] = Restored(js[j])
    <2> DEFINE s == js[j]
               due == s.due \/ s.status = "running"
               status == IF s.status = "running" THEN "idle" ELSE s.status
               q == [s EXCEPT !.gate = "open", !.due = due, !.status = status]
    <2>1. s \in Job /\ due \in BOOLEAN /\ status \in {"idle", "paused", "failed", "done"}
        BY <1>2 DEF Job
    <2>2. r[j] = q
        BY <1>1, <1>2
    <2>3. /\ q \in Job /\ q.gate = "open" /\ q.due = due /\ q.status = status
          /\ q.schedule = s.schedule /\ q.kind = s.kind /\ q.key = s.key /\ q.archived = s.archived
          /\ q.retries = s.retries /\ q.class = s.class /\ q.once = s.once
        <3> HIDE DEF s, due, status
        <3> QED BY <2>1 DEF Job
    <2>4. Quiesce(r)[j] = IF q.status = "paused" /\ q.kind = "one_shot"
                          THEN [q EXCEPT !.due = FALSE] ELSE q
        BY <1>1, <1>2, <2>2 DEF Quiesce
    <2> DEFINE d == due /\ ~(status = "paused" /\ s.kind = "one_shot")
    <2>5. Restored(s) = [s EXCEPT !.gate = "open", !.status = status, !.due = d]
        BY DEF Restored
    <2>6. d \in BOOLEAN
        OBVIOUS
    <2> HIDE DEF r, q, due, status, d, s
    <2>7. /\ Restored(s) \in Job /\ Restored(s).gate = "open" /\ Restored(s).due = d
          /\ Restored(s).status = status /\ Restored(s).schedule = s.schedule
          /\ Restored(s).kind = s.kind /\ Restored(s).key = s.key
          /\ Restored(s).archived = s.archived /\ Restored(s).retries = s.retries
          /\ Restored(s).class = s.class /\ Restored(s).once = s.once
        BY <2>1, <2>5, <2>6 DEF Job
    <2>8. CASE status = "paused" /\ s.kind = "one_shot"
        <3> DEFINE p == [q EXCEPT !.due = FALSE]
        <3>1. Quiesce(r)[j] = p
            BY <2>3, <2>4, <2>8
        <3>2. /\ p \in Job /\ p.gate = "open" /\ p.due = FALSE /\ p.status = status
              /\ p.schedule = s.schedule /\ p.kind = s.kind /\ p.key = s.key
              /\ p.archived = s.archived /\ p.retries = s.retries
              /\ p.class = s.class /\ p.once = s.once
            BY <2>3 DEF Job
        <3> HIDE DEF p
        <3>3. d = FALSE
            BY <2>8 DEF d
        <3>4. p = Restored(s)
            BY <2>7, <3>2, <3>3, SameJob
        <3> QED BY <1>1, <3>1, <3>4 DEF s
    <2>9. CASE ~(status = "paused" /\ s.kind = "one_shot")
        <3>1. Quiesce(r)[j] = q
            BY <2>3, <2>4, <2>9
        <3>2. d = due
            BY <2>1, <2>9 DEF d
        <3>3. q = Restored(s)
            BY <2>3, <2>7, <3>2, SameJob
        <3> QED BY <1>1, <3>1, <3>3 DEF s
    <2> QED BY <2>8, <2>9
<1>3. DOMAIN RestoredJobs(js) = D
    BY <1>1 DEF Quiesce
<1>4. \A j \in D : RestoredJobs(js)[j] \in Job
    BY <1>2, RestoredOne
<1>5. RestoredJobs(js) = [j \in D |-> RestoredJobs(js)[j]]
    BY <1>1, <1>3 DEF Quiesce
<1> QED BY <1>2, <1>3, <1>4, <1>5

-----------------------------------------------------------------------------
(* The steps of a request.                                                 *)

\* No step but a lookup and an insertion can break what holds of intents.
LEMMA IntentsStay ==
    ASSUME IntentsAreOne, contended' = contended,
           \A c \in Caller :
              \/ request'[c].at \in {"idle", "store"}
              \/ /\ Adds(c) /\ request'[c].key = request[c].key
                 /\ request'[c].at \in {"add", "fill", "commit"} =>
                       request[c].at \in {"add", "fill", "commit"},
           \A j \in DOMAIN jobs' : jobs'[j].key \in Key =>
              /\ j \in DOMAIN jobs /\ jobs'[j].key = jobs[j].key
              /\ jobs[j].archived => jobs'[j].archived,
           store' \in {store, jobs'}
    PROVE  IntentsAreOne'
<1> SUFFICES ASSUME NEW k \in Key \ contended PROVE IntentIsOne(k)'
    BY DEF IntentsAreOne
<1>1. IntentIsOne(k)
    BY DEF IntentsAreOne
<1>2. FindByIntent(jobs', k) \subseteq FindByIntent(jobs, k)
    BY DEF FindByIntent
<1>3. OneOf(jobs', k)
    BY <1>1, <1>2 DEF IntentIsOne, OneOf
<1>4. OneOf(store', k)
    BY <1>1, <1>3 DEF IntentIsOne
<1>5. OneRequest(k)'
    BY <1>1 DEF IntentIsOne, OneRequest, Adds
<1>6. NoneYet(k)'
    <2>1. ASSUME NEW c \in Caller, request'[c].at \in {"add", "fill", "commit"}, request'[c].key = k
          PROVE  FindByIntent(jobs', k) = {}
        <3>1. FindByIntent(jobs, k) = {}
            BY <1>1, <2>1 DEF IntentIsOne, NoneYet
        <3> QED BY <1>2, <3>1
    <2> QED BY <2>1 DEF NoneYet, FindByIntent
<1> QED BY <1>3, <1>4, <1>5, <1>6 DEF IntentIsOne, OneOf, FindByIntent

\* A request that has not made a job, or comes to make none, changes nothing else.
LEMMA RequestMoves ==
    ASSUME CronAssumption, EngineInv, StoreInv, NEW c \in Caller, NEW q \in Request,
           request[c].at \notin Adding \cup {"store"}, request' = [request EXCEPT ![c] = q],
           contended' \subseteq Key,
           UNCHANGED <<jobs, store, run, faults, crashes, executed, resumed, kept, orphaned,
                       unsaved>>
    PROVE  EngineInv' /\ StoreInv'
<1>1. RestTyped'
    BY DEF EngineInv, RestTyped
<1>2. JobsTyped' /\ StoreTyped'
    BY DEF EngineInv, StoreInv, JobsTyped, StoreTyped
<1>3. \A d \in Caller \ {c} : request'[d] = request[d]
    BY DEF EngineInv, RestTyped
<1>4. ASSUME NEW j \in Id PROVE JobInv(j)' /\ StoredInv(j)'
    <2>1. Untouched(j)
        BY DEF Untouched
    <2>2. OthersAdd(j)
        BY <1>3 DEF OthersAdd
    <2>3. Pending(j) => Pending(j)'
        BY <1>3, StaysPending
    <2> QED BY <1>1, <1>2, <2>1, <2>2, <2>3, UntouchedKeeps, UntouchedStays
<1> QED BY <1>1, <1>2, <1>4 DEF EngineInv, StoreInv

\* The lookup finds no job of the intent, or no request is made.
LEMMA AskKeeps ==
    ASSUME CronAssumption, CronInv, NEW c \in Caller, NEW q \in Request, Ask(c, q)
    PROVE  CronInv'
<1> DEFINE key == q.key
<1>2. EngineInv' /\ StoreInv'
    <2>1. contended' \subseteq Key
        <3>1. q.key \in Key /\ contended \subseteq Key
            BY DEF Request, CronInv, EngineInv, RestTyped
        <3> QED BY <3>1 DEF Ask
    <2>2. request[c].at \notin Adding \cup {"store"}
        BY DEF Ask, Busy, Adding
    <2>3. request' = [request EXCEPT ![c] = q]
        BY DEF Ask
    <2>4. UNCHANGED <<jobs, store, run, faults, crashes, executed, resumed, kept, orphaned,
                      unsaved>>
        BY DEF Ask
    <2>5. EngineInv /\ StoreInv
        BY DEF CronInv
    <2> QED BY <2>1, <2>2, <2>3, <2>4, <2>5, RequestMoves
<1>3. request'[c] = q
      /\ \A d \in Caller \ {c} : request'[d] = request[d]
    BY DEF Ask, CronInv, EngineInv, RestTyped
<1>4. IntentsAreOne'
    <2> SUFFICES ASSUME NEW k \in Key \ contended' PROVE IntentIsOne(k)'
        BY DEF IntentsAreOne
    <2>1. k \in Key \ contended /\ (k = key => ~Contends(c, key))
        BY DEF Ask
    <2>2. IntentIsOne(k)
        BY <2>1 DEF CronInv, IntentsAreOne
    <2>3. k = key => \A d \in Caller \ {c} : ~(Adds(d) /\ request[d].key = k)
        BY <2>1 DEF Contends
    <2>4. OneRequest(k)'
        BY <1>3, <2>2, <2>3 DEF IntentIsOne, OneRequest, Adds
    <2>5. NoneYet(k)'
        <3>1. k = key => FindByIntent(jobs, k) = {}
            BY DEF Ask
        <3>2. jobs' = jobs
            BY DEF Ask
        <3>3. \A d \in Caller :
                 (request'[d].at \in {"add", "fill", "commit"} /\ request'[d].key = k) =>
                 FindByIntent(jobs, k) = {}
            BY <1>3, <2>2, <3>1 DEF IntentIsOne, NoneYet
        <3> QED BY <3>2, <3>3 DEF NoneYet, FindByIntent
    <2> QED BY <2>2, <2>4, <2>5 DEF IntentIsOne, OneOf, FindByIntent, Ask
<1> QED BY <1>2, <1>4 DEF CronInv

\* A request that ends without a job leaves the jobs alone.
LEMMA GivesUpKeeps ==
    ASSUME CronAssumption, CronInv, NEW c \in Caller,
           request[c].at \notin Adding \cup {"store"}, Return(c),
           UNCHANGED <<jobs, store, run, faults, crashes, executed, resumed, kept, orphaned,
                       unsaved, contended>>
    PROVE  CronInv'
<1>1. IdleRequest \in Request /\ IdleRequest.at = "idle"
    BY CronConstants
<1>2. EngineInv' /\ StoreInv'
    BY <1>1, RequestMoves DEF CronInv, EngineInv, RestTyped, Return
<1>3. request'[c].at = "idle" /\ \A d \in Caller \ {c} : request'[d] = request[d]
    BY <1>1 DEF Return, CronInv, EngineInv, RestTyped
<1>4. IntentsAreOne'
    BY <1>3, IntentsStay DEF CronInv, Adds
<1> QED BY <1>2, <1>4 DEF CronInv

\* Taking a job from the engine's.
LEMMA JobTaken ==
    ASSUME NEW f, NEW j
    PROVE  /\ DOMAIN Without(f, j) = DOMAIN f \ {j}
           /\ \A i \in DOMAIN f \ {j} : Without(f, j)[i] = f[i]
           /\ f \in [DOMAIN f -> Job] => Without(f, j) \in [DOMAIN Without(f, j) -> Job]
BY DEF Without, Restrict

\* A job made anew is idle, due and has not been retried.
LEMMA NewJobs ==
    ASSUME CronAssumption, NEW k \in Key \cup {NoKey}, NEW schedule \in Schedule,
           NEW kind \in Kind, NEW gate \in Caller \cup {"open"}
    PROVE  LET job == NewJob(k, schedule, kind, gate) IN
           /\ job \in Job /\ job.status = "idle" /\ job.due /\ job.key = k 
           /\ job.schedule = schedule /\ job.retries = 0 /\ job.gate = gate
BY DEF NewJob, Job, ErrorClass

\* A job made anew has all its runs before it.
LEMMA NewJobInv ==
    ASSUME CronAssumption, EngineInv, NEW j \in Id, j \notin DOMAIN jobs,
           RestTyped', j \in DOMAIN jobs', jobs'[j] \in Job, jobs'[j].status = "idle",
           jobs'[j].due, run' = run, executed'[j] = 0, resumed'[j] = 0, GateIsTheirs(j)'
    PROVE  JobInv(j)'
<1>1. RunHasJob(j)
    BY DEF EngineInv, JobInv
<1>2. ~(run[j].own /\ run[j].at \in UnderWay)
    BY <1>1 DEF RunHasJob
<1>3. RunHasJob(j)'
    BY <1>2 DEF RunHasJob
<1>4. RunIsKept(j)'
    BY <1>2 DEF RunIsKept, UnderWay
<1>6. RunsAreCounted(j)'
    <2> DEFINE n == MayRun(jobs'[j], run'[j])
               a == Allowance(resumed'[j], crashes' + faults')
    <2>1. crashes' + faults' \in Nat
        BY DEF RestTyped
    <2>2. run'[j] \in Run
        BY DEF RestTyped
    <2>3. n \in Nat /\ n <= RetryLimit
        BY <2>2, MayRunNumbers
    <2>4. RetryLimit \in Nat
        BY CronConstants
    <2>5. a \in Nat /\ RetryLimit <= a
        BY <2>1, Allowances
    <2>6. executed'[j] + n <= a
        <3> HIDE DEF n, a
        <3> QED BY <2>3, <2>4, <2>5
    <2> QED BY <2>6 DEF RunsAreCounted, MayRun, Allowance, Later
<1> QED BY <1>3, <1>4, <1>6 DEF JobInv

\* The engine takes the job, gated by its add.
LEMMA AddInsertKeeps ==
    ASSUME CronAssumption, CronInv, NEW c \in Caller, AddInsert(c)
    PROVE  CronInv'
<1>0. PICK r \in Request : r = request[c]
    BY DEF CronInv, EngineInv, RestTyped
<1> DEFINE j == r.id
           at == IF r.once THEN "flag" ELSE "save"
<1>1. /\ j \in Id /\ r.key \in Key /\ r.schedule \in Schedule /\ r.kind \in Kind
      /\ r.at = "add" /\ request[c] = r
    BY <1>0 DEF AddInsert, Request
<1>2. CASE j \in DOMAIN jobs
    <2>1. request[c].at \notin Adding \cup {"store"}
        BY <1>1 DEF Adding
    <2> QED BY <1>1, <1>2, <2>1, GivesUpKeeps DEF AddInsert
<1>3. CASE j \notin DOMAIN jobs
    <2>1. /\ jobs' = With(jobs, j, NewJob(r.key, r.schedule, r.kind, c))
          /\ request' = [request EXCEPT ![c].at = at]
          /\ executed' = [executed EXCEPT ![j] = 0] /\ resumed' = [resumed EXCEPT ![j] = 0]
          /\ kept' = kept \ {j}
          /\ UNCHANGED <<store, run, faults, crashes, orphaned, contended, unsaved>>
        BY <1>1, <1>3 DEF AddInsert, Renew, Goto
    <2>2. RestTyped'
        <3>1. [r EXCEPT !.at = at] \in Request
            BY <1>1 DEF Request
        <3>2. request' = [request EXCEPT ![c] = [r EXCEPT !.at = at]]
            BY <1>1, <2>1 DEF CronInv, EngineInv, RestTyped
        <3> HIDE DEF j
        <3>3. request' \in [Caller -> Request]
            BY <3>1, <3>2 DEF CronInv, EngineInv, RestTyped
        <3>4. executed' \in [Id -> Nat] /\ resumed' \in [Id -> Nat] /\ kept' \subseteq Id
            BY <2>1 DEF CronInv, EngineInv, RestTyped
        <3> QED BY <2>1, <3>3, <3>4 DEF CronInv, EngineInv, RestTyped
    <2>3. /\ request'[c].at = at /\ request'[c].id = j /\ request'[c].key = r.key
          /\ \A d \in Caller \ {c} : request'[d] = request[d]
        BY <1>1, <2>1 DEF CronInv, EngineInv, RestTyped, Request
    <2>4. /\ jobs'[j] \in Job /\ jobs'[j].status = "idle" /\ jobs'[j].due /\ jobs'[j].gate = c
          /\ jobs'[j].key = r.key /\ jobs'[j].schedule = r.schedule
        <3> DEFINE v == NewJob(r.key, r.schedule, r.kind, c)
        <3>1. /\ v \in Job /\ v.status = "idle" /\ v.due /\ v.gate = c /\ v.key = r.key
              /\ v.schedule = r.schedule
            BY <1>1, NewJobs
        <3>2. jobs' = With(jobs, j, v)
            BY <2>1
        <3> HIDE DEF v
        <3>3. jobs'[j] = v
            BY <3>2 DEF With
        <3> QED BY <3>1, <3>3
    <2> HIDE DEF j
    <2>5. /\ DOMAIN jobs' = DOMAIN jobs \cup {j} /\ JobsTyped'
          /\ \A i \in DOMAIN jobs : jobs'[i] = jobs[i]
        <3> DEFINE v == NewJob(r.key, r.schedule, r.kind, c)
        <3>1. jobs' = With(jobs, j, v)
            BY <2>1
        <3> HIDE DEF v
        <3>2. DOMAIN jobs' = DOMAIN jobs \cup {j} /\ \A i \in DOMAIN jobs : jobs'[i] = jobs[i]
            BY <1>3, <3>1 DEF With
        <3>3. jobs' = [i \in DOMAIN jobs' |-> jobs'[i]]
            BY <3>1 DEF With
        <3>4. \A i \in DOMAIN jobs' : jobs'[i] \in Job
            BY <2>4, <3>2 DEF CronInv, EngineInv, JobsTyped
        <3> QED BY <1>1, <3>2, <3>3, <3>4 DEF CronInv, EngineInv, JobsTyped
    <2>6. \A i \in Id \ {j} : executed'[i] = executed[i] /\ resumed'[i] = resumed[i]
        BY <2>1 DEF CronInv, EngineInv, RestTyped
    <2>7. executed'[j] = 0 /\ resumed'[j] = 0
        BY <1>1, <2>1 DEF CronInv, EngineInv, RestTyped
    <2> HIDE DEF at
    <2>8. at \in {"flag", "save"}
        BY DEF at
    <2>9. ASSUME NEW i \in Id, i # j PROVE Untouched(i) /\ OthersAdd(i)
        <3>1. Untouched(i)
            BY <2>1, <2>5, <2>6, <2>9 DEF Untouched
        <3>2. OthersAdd(i)
            BY <1>1, <2>3 DEF OthersAdd, Adding, j
        <3> QED BY <3>1, <3>2
    <2>10. JobInv(j)'
        <3>1. GateIsTheirs(j)'
            <4>1. c # "open"
                BY CronConstants
            <4> QED BY <2>3, <2>4, <2>8, <4>1 DEF GateIsTheirs, Adding
        <3> QED BY <1>1, <1>3, <2>1, <2>2, <2>4, <2>5, <2>7, <3>1, NewJobInv DEF CronInv
    <2>11. \A i \in Id : JobInv(i)'
        <3>1. ASSUME NEW i \in Id, i # j PROVE JobInv(i)'
            BY <2>1, <2>2, <2>5, <2>9, <3>1, UntouchedKeeps DEF CronInv
        <3> QED BY <2>10, <3>1
    <2>12. StoredInv(j)'
        <3>1. StoredInv(j)
            BY <1>1 DEF CronInv, StoreInv
        <3>2. ScheduleIsKept(j)'
            BY <2>1 DEF ScheduleIsKept
        <3>3. StoreAgrees(j)'
            BY <2>3, <2>5, <2>8 DEF StoreAgrees, ToBeSaved
        <3>4. StoredRunsAreCounted(j)'
            <4> SUFFICES ASSUME j \in DOMAIN store
                         PROVE  executed'[j] + MayRunAgain(store[j])
                                  <= Allowance(resumed'[j], crashes + faults) + Unrecorded(run[j])
                BY <2>1 DEF StoredRunsAreCounted, MayRunAgain, Later, Allowance, Unrecorded
            <4>1. /\ store[j] \in Job /\ run[j] \in Run /\ resumed'[j] \in Nat
                  /\ crashes + faults \in Nat
                BY <1>1, <2>2 DEF CronInv, StoreInv, StoreTyped, EngineInv, RestTyped
            <4> DEFINE m == MayRunAgain(store[j])
                       a == Allowance(resumed'[j], crashes + faults)
                       u == Unrecorded(run[j])
            <4>2. m \in Nat /\ m <= RetryLimit /\ RetryLimit \in Nat
                BY <4>1, MayRunNumbers, CronConstants
            <4>3. a \in Nat /\ RetryLimit <= a /\ u \in {0, 1}
                BY <4>1, Allowances DEF Unrecorded
            <4> HIDE DEF m, a, u
            <4>4. 0 + m <= a + u
                BY <4>2, <4>3
            <4> QED BY <2>7, <4>4 DEF m, a, u
        <3> QED BY <3>2, <3>3, <3>4 DEF StoredInv
    <2>13. StoreInv'
        <3>1. ASSUME NEW i \in Id, i # j PROVE StoredInv(i)'
            <4>1. i \in DOMAIN jobs => jobs'[i] = jobs[i]
                BY <2>5
            <4>2. Untouched(i) /\ OthersAdd(i) /\ (i \in kept' => i \in kept)
                BY <2>1, <2>9, <3>1
            <4>3. Pending(i) => Pending(i)'
                BY <1>1, <2>1, <2>3, StaysPending
            <4> QED BY <2>1, <4>1, <4>2, <4>3, UntouchedStays DEF CronInv
        <3>2. StoreTyped'
            BY <2>1 DEF CronInv, StoreInv, StoreTyped
        <3> QED BY <2>12, <3>1, <3>2 DEF StoreInv
    <2>14. IntentsAreOne'
        <3> SUFFICES ASSUME NEW k \in Key \ contended PROVE IntentIsOne(k)'
            BY <2>1 DEF IntentsAreOne
        <3>1. IntentIsOne(k)
            BY DEF CronInv, IntentsAreOne
        <3>2. FindByIntent(jobs', k) \subseteq FindByIntent(jobs, k) \cup {j}
            BY <2>5 DEF FindByIntent
        <3>3. r.key # k => FindByIntent(jobs', k) \subseteq FindByIntent(jobs, k)
            BY <2>4, <2>5 DEF FindByIntent
        <3>4. r.key = k => FindByIntent(jobs, k) = {}
            BY <1>1, <3>1 DEF IntentIsOne, NoneYet
        <3>5. OneOf(jobs', k)
            BY <3>1, <3>2, <3>3, <3>4 DEF IntentIsOne, OneOf
        <3>6. OneRequest(k)'
            BY <1>1, <2>3, <3>1 DEF IntentIsOne, OneRequest, Adds
        <3>7. NoneYet(k)'
            <4>1. ASSUME NEW d \in Caller, request'[d].at \in {"add", "fill", "commit"},
                         request'[d].key = k
                  PROVE  FindByIntent(jobs', k) = {}
                <5>1. d # c /\ request'[d] = request[d]
                    BY <2>3, <2>8, <4>1
                <5>2. FindByIntent(jobs, k) = {}
                    BY <3>1, <4>1, <5>1 DEF IntentIsOne, NoneYet
                <5>3. r.key # k
                    BY <1>1, <3>1, <4>1, <5>1 DEF IntentIsOne, OneRequest, Adds
                <5> QED BY <3>3, <5>2, <5>3
            <4> QED BY <4>1 DEF NoneYet, FindByIntent
        <3> QED BY <2>1, <3>1, <3>5, <3>6, <3>7 DEF IntentIsOne, OneOf, FindByIntent
    <2> QED BY <2>2, <2>5, <2>11, <2>13, <2>14 DEF CronInv, EngineInv
<1> QED BY <1>2, <1>3

\* Going on and returning change the request of the caller and of nobody else.
LEMMA GoesOn ==
    ASSUME EngineInv, NEW c \in Caller,
           NEW at \in {"idle", "add", "flag", "save", "undo", "start", "fill", "commit"},
           Goto(c, at)
    PROVE  /\ request' \in [Caller -> Request]
           /\ request'[c].at = at /\ request'[c].id = request[c].id
           /\ request'[c].key = request[c].key
           /\ \A d \in Caller \ {c} : request'[d] = request[d]
<1> DEFINE q == [request[c] EXCEPT !.at = at]
<1>1. q \in Request /\ q.at = at /\ q.id = request[c].id /\ q.key = request[c].key
    BY DEF EngineInv, RestTyped, Request
<1>2. request' = [request EXCEPT ![c] = q]
    BY DEF Goto, EngineInv, RestTyped
<1> HIDE DEF q
<1> QED BY <1>1, <1>2 DEF EngineInv, RestTyped

\* A request that returns is idle; the others stand where they stood.
LEMMA Returns ==
    ASSUME CronAssumption, EngineInv, NEW c \in Caller, Return(c)
    PROVE  /\ request' \in [Caller -> Request] /\ request'[c].at = "idle"
           /\ \A d \in Caller \ {c} : request'[d] = request[d]
<1>1. IdleRequest \in Request /\ IdleRequest.at = "idle"
    BY CronConstants
<1> QED BY <1>1 DEF Return, EngineInv, RestTyped

\* The tool's job is saved with its first step.
LEMMA ToolInsertKeeps ==
    ASSUME CronAssumption, CronInv, NEW c \in Caller, ToolInsert(c)
    PROVE  CronInv'
<1>0. PICK r \in Request : r = request[c]
    BY DEF CronInv, EngineInv, RestTyped
<1> DEFINE j == r.id
<1>1. j \in Id /\ r.schedule \in Schedule /\ r.at = "fill" /\ request[c] = r
    BY <1>0 DEF ToolInsert, Request
<1>2. CASE j \in DOMAIN jobs
    <2>1. request[c].at \notin Adding \cup {"store"}
        BY <1>1 DEF Adding
    <2> QED BY <1>1, <1>2, <2>1, GivesUpKeeps DEF ToolInsert
<1>3. CASE j \notin DOMAIN jobs
    <2> DEFINE v == NewJob(NoKey, r.schedule, KindOf(r.schedule), "open")
    <2>1. /\ jobs' = With(jobs, j, v) /\ Goto(c, "commit")
          /\ executed' = [executed EXCEPT ![j] = 0] /\ resumed' = [resumed EXCEPT ![j] = 0]
          /\ store' = jobs' /\ kept' = kept \cup DOMAIN jobs' /\ unsaved' = FALSE
          /\ orphaned' = {}
          /\ UNCHANGED <<run, faults, crashes, contended>>
        BY <1>1, <1>3 DEF ToolInsert, Renew, Saves
    <2>2. /\ v \in Job /\ v.status = "idle" /\ v.due /\ v.gate = "open" /\ v.key = NoKey
        <3>1. KindOf(r.schedule) \in Kind
            BY DEF KindOf, Kind
        <3> QED BY <1>1, <3>1, NewJobs
    <2> HIDE DEF v, j
    <2>3. DOMAIN jobs' = DOMAIN jobs \cup {j} /\ \A i \in DOMAIN jobs : jobs'[i] = jobs[i]
        BY <1>3, <2>1 DEF With
    <2>4. jobs'[j] = v
        BY <2>1 DEF With
    <2>5. JobsTyped'
        <3>1. jobs' = [i \in DOMAIN jobs' |-> jobs'[i]]
            BY <2>1 DEF With
        <3>2. \A i \in DOMAIN jobs' : jobs'[i] \in Job
            BY <2>2, <2>3, <2>4 DEF CronInv, EngineInv, JobsTyped
        <3> QED BY <1>1, <2>3, <3>1, <3>2 DEF CronInv, EngineInv, JobsTyped
    <2>6. /\ request' \in [Caller -> Request] /\ request'[c].at = "commit"
          /\ request'[c].key = r.key /\ \A d \in Caller \ {c} : request'[d] = request[d]
        BY <1>1, <2>1, GoesOn DEF CronInv
    <2>7. RestTyped'
        <3>1. executed' \in [Id -> Nat] /\ resumed' \in [Id -> Nat] /\ kept' \subseteq Id
            BY <2>1, <2>5 DEF CronInv, EngineInv, RestTyped, JobsTyped
        <3> QED BY <2>1, <2>6, <3>1 DEF CronInv, EngineInv, RestTyped
    <2>8. executed'[j] = 0 /\ resumed'[j] = 0
        BY <1>1, <2>1 DEF CronInv, EngineInv, RestTyped
    <2>9. JobInv(j)'
        <3>1. GateIsTheirs(j)'
            BY <2>1, <2>2, <2>3, <2>4 DEF GateIsTheirs
        <3> QED BY <1>1, <1>3, <2>1, <2>2, <2>3, <2>4, <2>7, <2>8, <3>1, NewJobInv DEF CronInv
    <2>10. ASSUME NEW i \in Id, i # j PROVE JobInv(i)'
        <3>1. Untouched(i)
            BY <2>1, <2>3, <2>10 DEF Untouched, CronInv, EngineInv, RestTyped
        <3>2. OthersAdd(i)
            BY <1>1, <2>6 DEF OthersAdd, Adding
        <3> QED BY <2>1, <2>5, <2>7, <3>1, <3>2, UntouchedKeeps DEF CronInv
    <2>11. EngineInv'
        BY <2>5, <2>7, <2>9, <2>10 DEF EngineInv
    <2>12. StoreInv'
        BY <2>1, <2>11, SavedIsStoredNext
    <2>13. IntentsAreOne'
        <3>1. \A i \in DOMAIN jobs' :
                  jobs'[i].key \in Key => i \in DOMAIN jobs /\ jobs'[i] = jobs[i]
            BY <2>2, <2>3, <2>4, CronConstants
        <3>2. \A d \in Caller :
                 \/ request'[d].at \in {"idle", "store"}
                 \/ /\ Adds(d) /\ request'[d].key = request[d].key
                    /\ request'[d].at \in {"add", "fill", "commit"} =>
                          request[d].at \in {"add", "fill", "commit"}
            BY <1>1, <2>6 DEF Adds
        <3> QED BY <2>1, <3>1, <3>2, IntentsStay DEF CronInv
    <2> QED BY <2>11, <2>12, <2>13 DEF CronInv
<1> QED BY <1>2, <1>3

\* Changing a job changes that job.
LEMMA JobChanges ==
    ASSUME JobsTyped, NEW j \in DOMAIN jobs, NEW v \in Job, jobs' = [jobs EXCEPT ![j] = v]
    PROVE  /\ JobsTyped' /\ DOMAIN jobs' = DOMAIN jobs /\ jobs'[j] = v
           /\ \A i \in DOMAIN jobs \ {j} : jobs'[i] = jobs[i]
BY DEF JobsTyped

\* A job that is gone leaves nothing behind but a run that is not its own.
LEMMA GoneJobInv ==
    ASSUME NEW j \in Id, j \notin DOMAIN jobs', ~run'[j].own PROVE JobInv(j)'
BY DEF JobInv, RunHasJob, GateIsTheirs, RunIsKept, RunsAreCounted

\* An add whose step has failed takes the job of its identity away.
LEMMA UndoFacts ==
    ASSUME CronAssumption, CronInv, NEW c \in Caller, AddUndo(c), NEW j \in Id, j = request[c].id
    PROVE  /\ JobsTyped' /\ run' \in [Id -> Run] /\ request' \in [Caller -> Request]
           /\ request'[c].at = "idle" /\ \A d \in Caller \ {c} : request'[d] = request[d]
           /\ DOMAIN jobs' = DOMAIN jobs \ {j} /\ \A i \in DOMAIN jobs' : jobs'[i] = jobs[i]
           /\ ~run'[j].own /\ run'[j].at \in {run[j].at, "finish"}
           /\ Unrecorded(run'[j]) >= Unrecorded(run[j])
           /\ run'[j].at \in {"record", "save"} => run[j].at = run'[j].at
           /\ run[j].at \in {"record", "save"} => run[j].at = run'[j].at
           /\ \A i \in Id \ {j} : run'[i] = run[i]
<1>1. jobs' = Without(jobs, j)
    BY DEF AddUndo
<1>2. DOMAIN jobs' = DOMAIN jobs \ {j} /\ \A i \in DOMAIN jobs' : jobs'[i] = jobs[i]
    BY <1>1 DEF Without, Restrict
<1>3. JobsTyped'
    BY <1>1, <1>2, JobTaken DEF JobsTyped, CronInv, EngineInv
<1> DEFINE theirs == run[j].own /\ j \in DOMAIN jobs /\ jobs[j].gate # c
           q == IF run[j].at = "gate" /\ ~theirs
                THEN [at |-> "finish", err |-> "plain", own |-> FALSE]
                ELSE [run[j] EXCEPT !.own = FALSE]
<1>4. run[j] \in Run /\ run \in [Id -> Run]
    BY DEF CronInv, EngineInv, RestTyped
<1>5. run' = [run EXCEPT ![j] = q]
    BY <1>4 DEF AddUndo
<1> HIDE DEF theirs
<1>6. q \in Run /\ ~q.own /\ (q.at = run[j].at \/ (run[j].at = "gate" /\ q.at = "finish"))
    BY <1>4 DEF Run, RunError
<1> HIDE DEF q
<1>7. run' \in [Id -> Run] /\ run'[j] = q /\ \A i \in Id \ {j} : run'[i] = run[i]
    BY <1>4, <1>5, <1>6
<1>8. Unrecorded(q) >= Unrecorded(run[j])
    BY <1>6 DEF Unrecorded
<1> QED BY <1>2, <1>3, <1>6, <1>7, <1>8, Returns DEF AddUndo, CronInv

\* The job that was taken away is gone from the engine; that another save has
\* stored it is noted, until the next one.
LEMMA AddUndoKeeps ==
    ASSUME CronAssumption, CronInv, NEW c \in Caller, AddUndo(c)
    PROVE  CronInv'
<1>0. PICK j \in Id : j = request[c].id
    BY DEF CronInv, EngineInv, RestTyped, Request
<1>1. /\ request[c].at = "undo"
      /\ UNCHANGED <<store, faults, crashes, executed, resumed, kept, contended, unsaved>>
      /\ orphaned' = IF j \in DOMAIN jobs /\ j \in DOMAIN store
                     THEN orphaned \cup {j} ELSE orphaned
    BY <1>0 DEF AddUndo
<1>2. /\ JobsTyped' /\ run' \in [Id -> Run] /\ request' \in [Caller -> Request]
      /\ request'[c].at = "idle" /\ \A d \in Caller \ {c} : request'[d] = request[d]
      /\ DOMAIN jobs' = DOMAIN jobs \ {j} /\ \A i \in DOMAIN jobs' : jobs'[i] = jobs[i]
      /\ ~run'[j].own /\ Unrecorded(run'[j]) >= Unrecorded(run[j])
      /\ run[j].at \in {"record", "save"} => run[j].at = run'[j].at
      /\ \A i \in Id \ {j} : run'[i] = run[i]
    BY <1>0, UndoFacts, ZenonT(40)
<1>3. RestTyped'
    BY <1>1, <1>2 DEF CronInv, EngineInv, RestTyped
<1>4. ASSUME NEW i \in Id, i # j PROVE Untouched(i) /\ OthersAdd(i)
    <2>1. Untouched(i)
        BY <1>1, <1>2, <1>4 DEF Untouched
    <2>2. OthersAdd(i)
        BY <1>0, <1>2, <1>4 DEF OthersAdd
    <2> QED BY <2>1, <2>2
<1>5. EngineInv'
    <2>1. JobInv(j)'
        BY <1>2, GoneJobInv
    <2>2. ASSUME NEW i \in Id, i # j PROVE JobInv(i)'
        BY <1>1, <1>2, <1>3, <1>4, <2>2, UntouchedKeeps DEF CronInv
    <2> QED BY <1>2, <1>3, <2>1, <2>2 DEF EngineInv
<1>6. \A i \in Id : Pending(i) => Pending(i)'
    <2>1. orphaned \subseteq orphaned'
        BY <1>1
    <2>2. \A d \in Caller : request[d].at = "store" => request'[d].at = "store"
        BY <1>1, <1>2
    <2> QED BY <1>1, <2>1, <2>2, StaysPending
<1>7. StoredInv(j)'
    <2>1. StoredInv(j)
        BY DEF CronInv, StoreInv
    <2>2. ScheduleIsKept(j)'
        BY <1>2 DEF ScheduleIsKept
    <2>3. StoreAgrees(j)'
        <3> SUFFICES ASSUME ~Pending(j)', run'[j].at \notin {"record", "save"}
                     PROVE  j \notin DOMAIN store
            BY <1>1, <1>2 DEF StoreAgrees
        <3>1. ~(j \in DOMAIN jobs /\ j \in DOMAIN store)
            BY <1>1 DEF Pending
        <3>2. ~Pending(j) /\ run[j].at \notin {"record", "save"}
            BY <1>2, <1>6
        <3> QED BY <2>1, <3>1, <3>2 DEF StoredInv, StoreAgrees
    <2>4. StoredRunsAreCounted(j)'
        <3> SUFFICES ASSUME j \in DOMAIN store, store[j].schedule = "once"
                     PROVE  executed[j] + MayRunAgain(store[j])
                              <= Allowance(resumed[j], crashes + faults) + Unrecorded(run'[j])
            BY <1>1 DEF StoredRunsAreCounted, MayRunAgain, Later, Allowance, Unrecorded
        <3> DEFINE a == Allowance(resumed[j], crashes + faults)
                   m == MayRunAgain(store[j])
                   u == Unrecorded(run[j])
                   v == Unrecorded(run'[j])
        <3>1. executed[j] + m <= a + u
            BY <2>1 DEF StoredInv, StoredRunsAreCounted
        <3>2. /\ crashes + faults \in Nat /\ resumed[j] \in Nat /\ executed[j] \in Nat
              /\ store[j] \in Job /\ run[j] \in Run
            BY DEF CronInv, StoreInv, StoreTyped, EngineInv, RestTyped
        <3>3. a \in Nat /\ m \in Nat
            BY <3>2, Allowances, MayRunNumbers
        <3>4. u \in {0, 1} /\ v \in {0, 1} /\ v >= u
            BY <1>2 DEF Unrecorded
        <3> HIDE DEF a, m, u, v
        <3>5. executed[j] + m <= a + v
            BY <3>1, <3>2, <3>3, <3>4
        <3> QED BY <3>5 DEF a, m, v
    <2> QED BY <2>2, <2>3, <2>4 DEF StoredInv
<1>8. StoreInv'
    <2>1. ASSUME NEW i \in Id, i # j PROVE StoredInv(i)'
        <3>1. (i \in DOMAIN jobs => jobs'[i] = jobs[i]) /\ (i \in kept' => i \in kept)
            BY <1>1, <1>2, <2>1
        <3> QED BY <1>1, <1>4, <1>6, <2>1, <3>1, UntouchedStays DEF CronInv
    <2> QED BY <1>1, <1>7, <2>1 DEF CronInv, StoreInv, StoreTyped
<1>9. IntentsAreOne'
    <2>1. \A d \in Caller : \/ request'[d].at \in {"idle", "store"}
                            \/ Adds(d) /\ request'[d] = request[d]
        BY <1>2 DEF Adds
    <2>2. \A i \in DOMAIN jobs' : /\ i \in DOMAIN jobs /\ jobs'[i].key = jobs[i].key
                                  /\ jobs[i].archived => jobs'[i].archived
        BY <1>2
    <2> QED BY <1>1, <2>1, <2>2, IntentsStay DEF CronInv
<1> QED BY <1>5, <1>8, <1>9 DEF CronInv

\* An add goes on: what the engine has and the intents stay.
LEMMA AddGoesOn ==
    ASSUME CronAssumption, CronInv, NEW c \in Caller, request[c].at \in {"flag", "save"},
           NEW at \in {"save", "undo", "start"}, Goto(c, at), RestTyped', JobsTyped',
           \A i \in Id : Untouched(i),
           \A i \in DOMAIN jobs : jobs'[i].key = jobs[i].key
                                 /\ jobs'[i].archived = jobs[i].archived,
           at = "start" => DOMAIN jobs \subseteq kept', kept \subseteq kept',
           crashes' = crashes, faults' \in {faults, faults + 1}, contended' = contended,
           store' \in {store, jobs'}
    PROVE  EngineInv' /\ IntentsAreOne'
<1>0. PICK j \in Id : j = request[c].id
    BY DEF CronInv, EngineInv, RestTyped, Request
<1>1. /\ request'[c].at = at /\ request'[c].id = j /\ request'[c].key = request[c].key
      /\ \A d \in Caller \ {c} : request'[d] = request[d]
    BY <1>0, GoesOn DEF CronInv
<1>2. JobInv(j)'
    <2>1. JobInv(j)
        BY DEF CronInv, EngineInv
    <2>2. GateIsTheirs(j)'
        <3> SUFFICES ASSUME j \in DOMAIN jobs
                     PROVE  /\ jobs[j].gate = "open" => j \in kept'
                            /\ jobs[j].gate # "open" =>
                                  /\ request'[jobs[j].gate].at \in Adding
                                  /\ request'[jobs[j].gate].id = j
                                  /\ request'[jobs[j].gate].at = "start" => j \in kept'
            BY DEF GateIsTheirs, Untouched
        <3>1. jobs[j].gate \in Caller \cup {"open"}
            BY DEF CronInv, EngineInv, JobsTyped, Job
        <3>2. GateIsTheirs(j)
            BY <2>1 DEF JobInv
        <3>3. CASE jobs[j].gate = c
            BY <1>1, <3>2, <3>3 DEF GateIsTheirs, Adding
        <3>4. CASE jobs[j].gate # c
            BY <1>1, <3>1, <3>2, <3>4 DEF GateIsTheirs
        <3> QED BY <3>3, <3>4
    <2>3. RunHasJob(j)' /\ RunIsKept(j)'
        BY <2>1 DEF JobInv, Untouched, RunHasJob, RunIsKept
    <2>4. RunsAreCounted(j)'
        <3>1. CASE j \in DOMAIN jobs
            <4>1. MayRun(jobs'[j], run'[j]) = MayRun(jobs[j], run[j])
                BY <3>1 DEF Untouched, MayRun
            <4>2. MayRun(jobs[j], run[j]) \in Nat
                BY <3>1, MayRunNumbers DEF CronInv, EngineInv, JobsTyped, RestTyped
            <4>3. MayRun(jobs'[j], run'[j]) <= MayRun(jobs[j], run[j])
                BY <4>1, <4>2
            <4>4. j \in DOMAIN jobs' => jobs'[j] \in Job
                BY DEF JobsTyped
            <4> QED BY <3>1, <4>3, <4>4, CountKept DEF Untouched, CronInv
        <3>2. CASE j \notin DOMAIN jobs
            BY <3>2 DEF Untouched, RunsAreCounted
        <3> QED BY <3>1, <3>2
    <2> QED BY <2>2, <2>3, <2>4 DEF JobInv
<1>3. ASSUME NEW i \in Id, i # j PROVE JobInv(i)'
    <2>1. OthersAdd(i)
        BY <1>0, <1>1, <1>3 DEF OthersAdd
    <2> QED BY <2>1, UntouchedKeeps DEF CronInv
<1>4. IntentsAreOne'
    <2>1. \A d \in Caller :
             \/ request'[d].at \in {"idle", "store"}
             \/ /\ Adds(d) /\ request'[d].key = request[d].key
                /\ request'[d].at \in {"add", "fill", "commit"} =>
                      request[d].at \in {"add", "fill", "commit"}
        BY <1>1 DEF Adds
    <2>2. \A i \in DOMAIN jobs' : /\ i \in DOMAIN jobs /\ jobs'[i].key = jobs[i].key
                                  /\ jobs[i].archived => jobs'[i].archived
        <3> TAKE i \in DOMAIN jobs'
        <3>1. i \in Id
            BY DEF JobsTyped
        <3>2. i \in DOMAIN jobs
            BY <3>1 DEF Untouched
        <3> QED BY <3>2
    <2> QED BY <2>1, <2>2, IntentsStay DEF CronInv
<1> QED BY <1>2, <1>3, <1>4 DEF EngineInv

\* The flag is set, or the job is gone.
LEMMA AddFlagKeeps ==
    ASSUME CronAssumption, CronInv, NEW c \in Caller, AddFlag(c)
    PROVE  CronInv'
<1>0. PICK j \in Id : j = request[c].id
    BY DEF CronInv, EngineInv, RestTyped, Request
<1>1. /\ request[c].at = "flag"
      /\ UNCHANGED <<store, run, faults, crashes, executed, resumed, kept, orphaned, contended,
                     unsaved>>
    BY DEF AddFlag
<1>2. PICK at \in {"save", "undo"} : Goto(c, at)
    BY DEF AddFlag
<1>3. /\ request' \in [Caller -> Request] /\ request'[c].at = at
      /\ request'[c].id = j /\ \A d \in Caller \ {c} : request'[d] = request[d]
    BY <1>0, <1>2, GoesOn DEF CronInv
<1>4. RestTyped'
    BY <1>1, <1>3 DEF CronInv, EngineInv, RestTyped
<1>5. /\ JobsTyped' /\ DOMAIN jobs' = DOMAIN jobs
      /\ \A i \in DOMAIN jobs \ {j} : jobs'[i] = jobs[i]
      /\ j \in DOMAIN jobs =>
            /\ jobs'[j].status = jobs[j].status /\ jobs'[j].schedule = jobs[j].schedule
            /\ jobs'[j].due = jobs[j].due /\ jobs'[j].retries = jobs[j].retries
            /\ jobs'[j].gate = jobs[j].gate /\ jobs'[j].key = jobs[j].key
            /\ jobs'[j].archived = jobs[j].archived
    <2>1. CASE j \in DOMAIN jobs
        <3> DEFINE v == [jobs[j] EXCEPT !.once = TRUE]
        <3>1. jobs[j] \in Job
            BY <2>1 DEF CronInv, EngineInv, JobsTyped
        <3>2. /\ v \in Job /\ v.status = jobs[j].status /\ v.schedule = jobs[j].schedule
              /\ v.due = jobs[j].due /\ v.retries = jobs[j].retries /\ v.gate = jobs[j].gate
              /\ v.key = jobs[j].key /\ v.archived = jobs[j].archived
            BY <3>1 DEF Job
        <3>3. jobs' = [jobs EXCEPT ![j] = v]
            BY <1>0, <2>1 DEF AddFlag
        <3> HIDE DEF v
        <3>4. /\ JobsTyped' /\ DOMAIN jobs' = DOMAIN jobs /\ jobs'[j] = v
              /\ \A i \in DOMAIN jobs \ {j} : jobs'[i] = jobs[i]
            BY <2>1, <3>2, <3>3, JobChanges DEF CronInv, EngineInv
        <3> QED BY <3>2, <3>4
    <2>2. CASE j \notin DOMAIN jobs
        <3>1. jobs' = jobs
            BY <1>0, <2>2 DEF AddFlag
        <3> QED BY <2>2, <3>1 DEF CronInv, EngineInv, JobsTyped
    <2> QED BY <2>1, <2>2
<1>6. ASSUME NEW i \in Id PROVE Untouched(i)
    BY <1>1, <1>5 DEF Untouched
<1>7. EngineInv' /\ IntentsAreOne'
    <2>1. \A i \in DOMAIN jobs : jobs'[i].key = jobs[i].key
                                 /\ jobs'[i].archived = jobs[i].archived
        BY <1>5
    <2> QED BY <1>1, <1>2, <1>4, <1>5, <1>6, <2>1, AddGoesOn
<1>8. ASSUME NEW i \in Id PROVE StoredInv(i)'
    <2>1. Pending(i) => Pending(i)'
        BY <1>1, <1>3, StaysPending
    <2>2. CASE i = j
        <3>1. StoredInv(j)
            BY DEF CronInv, StoreInv
        <3>2. StoreAgrees(j)'
            <4>1. ToBeSaved(j)'
                BY <1>3 DEF ToBeSaved
            <4> QED BY <1>1, <1>5, <2>1, <2>2, <3>1, <4>1 DEF StoredInv, StoreAgrees
        <3>3. ScheduleIsKept(j)' /\ StoredRunsAreCounted(j)'
            BY <1>1, <1>6, <3>1 DEF StoredInv, Untouched, ScheduleIsKept, StoredRunsAreCounted,
                                    MayRunAgain, Later, Allowance, Unrecorded
        <3> QED BY <2>2, <3>2, <3>3 DEF StoredInv
    <2>3. CASE i # j
        <3>1. (i \in DOMAIN jobs => jobs'[i] = jobs[i]) /\ (i \in kept' => i \in kept)
            BY <1>1, <1>5, <2>3
        <3>2. OthersAdd(i)
            BY <1>0, <1>3, <2>3 DEF OthersAdd
        <3> QED BY <1>1, <1>6, <2>1, <3>1, <3>2, UntouchedStays DEF CronInv
    <2> QED BY <2>2, <2>3
<1>9. StoreInv'
    BY <1>1, <1>8 DEF CronInv, StoreInv, StoreTyped
<1> QED BY <1>7, <1>9 DEF CronInv

\* A step that saves the engine's jobs as they are keeps what holds of the store.
LEMMA SaveKeeps ==
    ASSUME CronAssumption, CronInv, EngineInv', \E ok \in BOOLEAN : Saves(ok, jobs), jobs' = jobs,
           crashes' = crashes, executed' = executed, resumed' = resumed
    PROVE  StoreInv'
<1>1. CASE store' = jobs
    BY <1>1, SavedIsStoredNext
<1>2. CASE faults' = faults + 1 /\ unsaved' = TRUE /\ store' = store /\ kept' = kept
    BY <1>2, LostIsAllowed DEF CronInv, EngineInv
<1> QED BY <1>1, <1>2, SaveOutcome

\* What any save leaves: jobs that have been kept stay so.
LEMMA SaveFacts ==
    ASSUME CronInv, NEW ok \in BOOLEAN, Saves(ok, jobs)
    PROVE  /\ faults' \in {faults, faults + 1} /\ faults' \in Nat
           /\ kept \subseteq kept' /\ kept' \subseteq Id /\ unsaved' \in BOOLEAN
           /\ orphaned' \subseteq Id /\ store' \in {store, jobs}
           /\ ok => DOMAIN jobs \subseteq kept'
<1>1. faults \in Nat /\ kept \subseteq Id /\ orphaned \subseteq Id /\ DOMAIN jobs \subseteq Id
    BY DEF CronInv, EngineInv, RestTyped, JobsTyped
<1>2. CASE ok
    BY <1>1, <1>2 DEF Saves
<1>3. CASE ~ok
    BY <1>1, <1>3 DEF Saves
<1> QED BY <1>2, <1>3

\* The job is saved, or is to be taken back.
LEMMA AddSaveKeeps ==
    ASSUME CronAssumption, CronInv, NEW c \in Caller, AddSave(c)
    PROVE  CronInv'
<1>1. PICK ok \in BOOLEAN : Saves(ok, jobs) /\ Goto(c, IF ok THEN "start" ELSE "undo")
    BY DEF AddSave
<1>2. request[c].at = "save" /\ UNCHANGED <<jobs, run, crashes, executed, resumed, contended>>
    BY DEF AddSave
<1> DEFINE at == IF ok THEN "start" ELSE "undo"
<1>3. at \in {"start", "undo"} /\ Goto(c, at) /\ (at = "start" => ok)
    BY <1>1
<1> HIDE DEF at
<1>4. request' \in [Caller -> Request]
    BY <1>3, GoesOn DEF CronInv
<1>5. /\ faults' \in {faults, faults + 1} /\ faults' \in Nat
      /\ kept \subseteq kept' /\ kept' \subseteq Id /\ unsaved' \in BOOLEAN
      /\ orphaned' \subseteq Id /\ store' \in {store, jobs}
      /\ ok => DOMAIN jobs \subseteq kept'
    BY <1>1, SaveFacts
<1>6. RestTyped' /\ JobsTyped'
    BY <1>2, <1>4, <1>5 DEF CronInv, EngineInv, RestTyped, JobsTyped
<1>7. \A i \in Id : Untouched(i)
    BY <1>2 DEF Untouched
<1>8. EngineInv' /\ IntentsAreOne'
    BY <1>2, <1>3, <1>5, <1>6, <1>7, AddGoesOn
<1>9. StoreInv'
    BY <1>1, <1>2, <1>8, SaveKeeps
<1> QED BY <1>8, <1>9 DEF CronInv

\* Returning opens the gate of the job that the add has made and saved.
LEMMA AddStartKeeps ==
    ASSUME CronAssumption, CronInv, NEW c \in Caller, AddStart(c)
    PROVE  CronInv'
<1>0. PICK j \in Id : j = request[c].id
    BY DEF CronInv, EngineInv, RestTyped, Request
<1>1. /\ request[c].at = "start" /\ Return(c)
      /\ UNCHANGED <<store, run, faults, crashes, executed, resumed, kept, orphaned, contended,
                     unsaved>>
    BY DEF AddStart
<1>2. /\ request' \in [Caller -> Request] /\ request'[c].at = "idle"
      /\ \A d \in Caller \ {c} : request'[d] = request[d]
    BY <1>1, Returns DEF CronInv
<1>3. RestTyped'
    BY <1>1, <1>2 DEF CronInv, EngineInv, RestTyped
<1>4. /\ JobsTyped' /\ DOMAIN jobs' = DOMAIN jobs
      /\ \A i \in DOMAIN jobs \ {j} : jobs'[i] = jobs[i]
      /\ j \in DOMAIN jobs =>
            jobs'[j] = IF jobs[j].gate = c THEN [jobs[j] EXCEPT !.gate = "open"] ELSE jobs[j]
    <2>1. CASE j \in DOMAIN jobs /\ jobs[j].gate = c
        <3> DEFINE v == [jobs[j] EXCEPT !.gate = "open"]
        <3>1. v \in Job
            BY <2>1 DEF CronInv, EngineInv, JobsTyped, Job
        <3>2. jobs' = [jobs EXCEPT ![j] = v]
            BY <1>0, <2>1 DEF AddStart
        <3> HIDE DEF v
        <3>3. /\ JobsTyped' /\ DOMAIN jobs' = DOMAIN jobs /\ jobs'[j] = v
              /\ \A i \in DOMAIN jobs \ {j} : jobs'[i] = jobs[i]
            BY <2>1, <3>1, <3>2, JobChanges DEF CronInv, EngineInv
        <3> QED BY <2>1, <3>3 DEF v
    <2>2. CASE ~(j \in DOMAIN jobs /\ jobs[j].gate = c)
        <3>1. jobs' = jobs
            BY <1>0, <2>2 DEF AddStart
        <3> QED BY <2>2, <3>1 DEF CronInv, EngineInv, JobsTyped
    <2> QED BY <2>1, <2>2
<1>5. j \in DOMAIN jobs =>
         /\ jobs'[j].status = jobs[j].status /\ jobs'[j].schedule = jobs[j].schedule
         /\ jobs'[j].kind = jobs[j].kind /\ jobs'[j].due = jobs[j].due
         /\ jobs'[j].retries = jobs[j].retries /\ jobs'[j].key = jobs[j].key
         /\ jobs'[j].archived = jobs[j].archived
         /\ jobs'[j].gate = IF jobs[j].gate = c THEN "open" ELSE jobs[j].gate
    BY <1>4 DEF CronInv, EngineInv, JobsTyped, Job
<1>6. ASSUME NEW i \in Id, i # j PROVE Untouched(i) /\ OthersAdd(i)
    BY <1>0, <1>1, <1>2, <1>4, <1>6 DEF Untouched, OthersAdd
<1>7. JobInv(j)'
    <2>1. JobInv(j)
        BY DEF CronInv, EngineInv
    <2>2. GateIsTheirs(j)'
        <3>1. j \in DOMAIN jobs => jobs[j].gate \in Caller \cup {"open"}
            BY DEF CronInv, EngineInv, JobsTyped, Job
        <3>2. c # "open"
            BY CronConstants
        <3> QED BY <1>1, <1>2, <1>4, <1>5, <2>1, <3>1, <3>2 DEF JobInv, GateIsTheirs
    <2>3. RunHasJob(j)' /\ RunIsKept(j)' /\ RunsAreCounted(j)'
        BY <1>1, <1>4, <1>5, <2>1 DEF JobInv, RunHasJob, RunIsKept,
                                      RunsAreCounted, MayRun, Later, Allowance
    <2> QED BY <2>2, <2>3 DEF JobInv
<1>8. EngineInv'
    <2>1. ASSUME NEW i \in Id, i # j PROVE JobInv(i)'
        BY <1>1, <1>3, <1>4, <1>6, <2>1, UntouchedKeeps DEF CronInv
    <2> QED BY <1>3, <1>4, <1>7, <2>1 DEF EngineInv
<1>9. StoredInv(j)'
    <2>1. StoredInv(j)
        BY DEF CronInv, StoreInv
    <2>2. StoreAgrees(j)'
        <3>1. ToBeSaved(j) => ToBeSaved(j)'
            BY <1>1, <1>2 DEF ToBeSaved
        <3>2. j \in DOMAIN jobs => Restored(jobs'[j]) = Restored(jobs[j])
            <4>1. CASE jobs'[j] = jobs[j]
                BY <4>1
            <4>2. CASE j \in DOMAIN jobs /\ jobs'[j] = [jobs[j] EXCEPT !.gate = "open"]
                <5>1. jobs[j] \in Job
                    BY <4>2 DEF CronInv, EngineInv, JobsTyped
                <5> QED BY <4>2, <5>1, OpenedOne
            <4> QED BY <1>4, <4>1, <4>2
        <3>3. Pending(j) => Pending(j)'
            BY <1>1, <1>2, StaysPending
        <3> QED BY <1>1, <1>4, <2>1, <3>1, <3>2, <3>3 DEF StoredInv, StoreAgrees, Restored
    <2>3. ScheduleIsKept(j)' /\ StoredRunsAreCounted(j)'
        BY <1>1, <1>4, <1>5, <2>1 DEF StoredInv, ScheduleIsKept, StoredRunsAreCounted,
                                      MayRunAgain, Later, Allowance, Unrecorded
    <2> QED BY <2>2, <2>3 DEF StoredInv
<1>10. StoreInv'
    <2>1. ASSUME NEW i \in Id, i # j PROVE StoredInv(i)'
        <3>1. (i \in DOMAIN jobs => jobs'[i] = jobs[i]) /\ (i \in kept' => i \in kept)
            BY <1>1, <1>4, <2>1
        <3>2. Pending(i) => Pending(i)'
            BY <1>1, <1>2, StaysPending
        <3> QED BY <1>1, <1>6, <2>1, <3>1, <3>2, UntouchedStays DEF CronInv
    <2> QED BY <1>1, <1>9, <2>1 DEF CronInv, StoreInv, StoreTyped
<1>11. IntentsAreOne'
    <2>1. \A i \in DOMAIN jobs' : /\ i \in DOMAIN jobs /\ jobs'[i].key = jobs[i].key
                                  /\ jobs[i].archived => jobs'[i].archived
        BY <1>4, <1>5
    <2>2. \A d \in Caller : \/ request'[d].at \in {"idle", "store"}
                            \/ Adds(d) /\ request'[d] = request[d]
        BY <1>2 DEF Adds
    <2> QED BY <1>1, <2>1, <2>2, IntentsStay DEF CronInv
<1> QED BY <1>8, <1>10, <1>11 DEF CronInv

\* A request whose change is still to be saved.
LEMMA IsToSave ==
    ASSUME CronAssumption, EngineInv, NEW c \in Caller,
           request' = [request EXCEPT ![c] = [IdleRequest EXCEPT !.at = "store"]]
    PROVE  /\ request' \in [Caller -> Request] /\ request'[c].at = "store"
           /\ \A d \in Caller \ {c} : request'[d] = request[d]
<1> DEFINE q == [IdleRequest EXCEPT !.at = "store"]
<1>1. IdleRequest \in Request
    BY CronConstants
<1>2. q \in Request /\ q.at = "store"
    BY <1>1 DEF Request
<1>3. request' = [request EXCEPT ![c] = q]
    OBVIOUS
<1> HIDE DEF q
<1> QED BY <1>2, <1>3 DEF EngineInv, RestTyped

\* The key is filled in while its request still holds the intent.
LEMMA ToolFillKeeps ==
    ASSUME CronAssumption, CronInv, NEW c \in Caller, ToolFill(c)
    PROVE  CronInv'
<1>0. PICK r \in Request : r = request[c]
    BY DEF CronInv, EngineInv, RestTyped
<1> DEFINE j == r.id
           v == IF jobs[j].key # NoKey THEN jobs[j]
                ELSE [jobs[j] EXCEPT !.key = r.key, !.kind = r.kind]
<1>1. /\ j \in DOMAIN jobs /\ r.key \in Key /\ r.kind \in Kind /\ request[c].at = "commit"
      /\ request' = [request EXCEPT ![c] = [IdleRequest EXCEPT !.at = "store"]]
      /\ UNCHANGED <<store, run, faults, crashes, executed, resumed, kept, orphaned, contended,
                     unsaved>>
    BY <1>0 DEF ToolFill, Request
<1>2. jobs' = [jobs EXCEPT ![j] = v]
    BY <1>0, <1>1 DEF ToolFill, CronInv, EngineInv, JobsTyped
<1>3. /\ v \in Job /\ v.status = jobs[j].status /\ v.schedule = jobs[j].schedule
      /\ v.due = jobs[j].due /\ v.retries = jobs[j].retries /\ v.gate = jobs[j].gate
      /\ v.archived = jobs[j].archived /\ v.key \in {jobs[j].key, r.key}
    <2>1. jobs[j] \in Job
        BY <1>1 DEF CronInv, EngineInv, JobsTyped
    <2>2. CASE jobs[j].key # NoKey
        BY <2>1, <2>2
    <2>3. CASE jobs[j].key = NoKey
        BY <1>1, <2>1, <2>3 DEF Job
    <2> QED BY <2>2, <2>3
<1> HIDE DEF v, j
<1>4. /\ JobsTyped' /\ DOMAIN jobs' = DOMAIN jobs /\ jobs'[j] = v
      /\ \A i \in DOMAIN jobs \ {j} : jobs'[i] = jobs[i]
    BY <1>1, <1>2, <1>3, JobChanges DEF CronInv, EngineInv
<1>5. /\ request' \in [Caller -> Request] /\ request'[c].at = "store"
      /\ \A d \in Caller \ {c} : request'[d] = request[d]
    BY <1>1, IsToSave DEF CronInv
<1>7. RestTyped'
    BY <1>1, <1>5 DEF CronInv, EngineInv, RestTyped
<1>8. ASSUME NEW i \in Id PROVE JobInv(i)'
    <2>1. Untouched(i)
        BY <1>1, <1>3, <1>4 DEF Untouched
    <2>2. OthersAdd(i)
        BY <1>1, <1>5 DEF OthersAdd, Adding
    <2> QED BY <1>1, <1>4, <1>7, <2>1, <2>2, UntouchedKeeps DEF CronInv
<1>9. EngineInv'
    BY <1>4, <1>7, <1>8 DEF EngineInv
<1>10. StoreInv'
    <2>1. \A i \in DOMAIN jobs' : i \in DOMAIN jobs /\ jobs'[i].schedule = jobs[i].schedule
        BY <1>3, <1>4
    <2>2. \A i \in Id : Unrecorded(run'[i]) >= Unrecorded(run[i])
        BY <1>1 DEF Unrecorded
    <2> QED BY <1>1, <1>5, <1>7, <2>1, <2>2, LostIsAllowed DEF CronInv
<1>11. IntentsAreOne'
    <2> SUFFICES ASSUME NEW k \in Key \ contended PROVE IntentIsOne(k)'
        BY <1>1 DEF IntentsAreOne
    <2>1. IntentIsOne(k)
        BY DEF CronInv, IntentsAreOne
    <2>2. FindByIntent(jobs', k) \subseteq FindByIntent(jobs, k) \cup {j}
        BY <1>4 DEF FindByIntent
    <2>3. r.key # k => FindByIntent(jobs', k) \subseteq FindByIntent(jobs, k)
        BY <1>3, <1>4 DEF FindByIntent
    <2>4. r.key = k => FindByIntent(jobs, k) = {}
        BY <1>0, <1>1, <2>1 DEF IntentIsOne, NoneYet
    <2>5. OneOf(jobs', k)
        BY <2>1, <2>2, <2>3, <2>4 DEF IntentIsOne, OneOf
    <2>6. OneRequest(k)'
        BY <1>5, <2>1 DEF IntentIsOne, OneRequest, Adds
    <2>7. NoneYet(k)'
        <3>1. ASSUME NEW d \in Caller, request'[d].at \in {"add", "fill", "commit"},
                     request'[d].key = k
              PROVE  FindByIntent(jobs', k) = {}
            <4>1. d # c /\ request'[d] = request[d]
                BY <1>5, <3>1
            <4>2. FindByIntent(jobs, k) = {}
                BY <2>1, <3>1, <4>1 DEF IntentIsOne, NoneYet
            <4>3. r.key # k
                BY <1>0, <1>1, <2>1, <3>1, <4>1 DEF IntentIsOne, OneRequest, Adds
            <4> QED BY <2>3, <4>2, <4>3
        <3> QED BY <3>1 DEF NoneYet, FindByIntent
    <2> QED BY <1>1, <2>1, <2>5, <2>6, <2>7 DEF IntentIsOne, OneOf, FindByIntent
<1> QED BY <1>9, <1>10, <1>11 DEF CronInv

\* A change by mutateCronJob leaves everything but the jobs, and what their runs and
\* counts make of it, to the save that follows.
LEMMA MutateFacts ==
    ASSUME CronAssumption, CronInv, NEW c \in Caller, NEW js, Mutate(c, js),
           run' \in [Id -> Run], executed' = executed, resumed' \in [Id -> Nat]
    PROVE  /\ jobs' = js
           /\ UNCHANGED <<store, crashes, faults, kept, orphaned, contended, unsaved>>
           /\ request'[c].at = "store" /\ \A d \in Caller \ {c} : request'[d] = request[d]
           /\ RestTyped' /\ \A i \in Id : OthersAdd(i)
<1>1. /\ jobs' = js /\ request[c].at = "idle"
      /\ request' = [request EXCEPT ![c] = [IdleRequest EXCEPT !.at = "store"]]
      /\ UNCHANGED <<store, crashes, faults, kept, orphaned, contended, unsaved>>
    BY DEF Mutate, Busy
<1>2. /\ request' \in [Caller -> Request] /\ request'[c].at = "store"
      /\ \A d \in Caller \ {c} : request'[d] = request[d]
    BY <1>1, IsToSave DEF CronInv
<1>3. RestTyped'
    BY <1>1, <1>2 DEF CronInv, EngineInv, RestTyped
<1>4. \A i \in Id : OthersAdd(i)
    BY <1>1, <1>2 DEF OthersAdd, Adding
<1> QED BY <1>1, <1>2, <1>3, <1>4

\* Such a change adds no job to an intent.
LEMMA MutateIntents ==
    ASSUME CronInv, NEW c \in Caller, request'[c].at = "store", contended' = contended,
           \A d \in Caller \ {c} : request'[d] = request[d], store' = store,
           \A j \in DOMAIN jobs' : /\ j \in DOMAIN jobs /\ jobs'[j].key = jobs[j].key
                                   /\ jobs[j].archived => jobs'[j].archived
    PROVE  IntentsAreOne'
<1>1. \A d \in Caller : \/ request'[d].at \in {"idle", "store"}
                        \/ Adds(d) /\ request'[d] = request[d]
    BY DEF Adds
<1> QED BY <1>1, IntentsStay DEF CronInv

\* It leaves the store behind until that save.
LEMMA MutateStore ==
    ASSUME CronAssumption, CronInv, NEW c \in Caller, request'[c].at = "store", RestTyped',
           UNCHANGED <<store, kept, faults, crashes, executed>>,
           \A j \in Id : run'[j].at = run[j].at,
           \A j \in Id : resumed'[j] \in {resumed[j], resumed[j] + 1},
           \A j \in DOMAIN jobs' : j \in DOMAIN jobs /\ jobs'[j].schedule = jobs[j].schedule
    PROVE  StoreInv'
<1>1. \A j \in Id : Unrecorded(run'[j]) >= Unrecorded(run[j])
    BY DEF Unrecorded
<1> QED BY <1>1, LostIsAllowed DEF CronInv

\* A gate that is not touched is held by the add that held it.
LEMMA GateStays ==
    ASSUME EngineInv, NEW j \in Id, j \in DOMAIN jobs, j \in DOMAIN jobs',
           jobs'[j].gate = jobs[j].gate, OthersAdd(j), kept \subseteq kept'
    PROVE  GateIsTheirs(j)'
<1>1. jobs[j].gate \in Caller \cup {"open"}
    BY DEF EngineInv, JobsTyped, Job
<1>2. GateIsTheirs(j)
    BY DEF EngineInv, JobInv
<1>3. jobs[j].gate # "open" => request'[jobs[j].gate] = request[jobs[j].gate]
    BY <1>1, <1>2 DEF GateIsTheirs, OthersAdd
<1> QED BY <1>2, <1>3 DEF GateIsTheirs

\* Removing: a run that is under way has lost its job.
LEMMA RemoveKeeps ==
    ASSUME CronAssumption, CronInv, NEW c \in Caller, RemoveCronJob(c)
    PROVE  CronInv'
<1>0. PICK j \in DOMAIN jobs :
         /\ Mutate(c, Without(jobs, j)) /\ run' = [run EXCEPT ![j].own = FALSE]
         /\ UNCHANGED <<executed, delivered, resumed>>
    BY DEF RemoveCronJob
<1>1. jobs' = Without(jobs, j) /\ j \in Id
    BY <1>0 DEF Mutate, CronInv, EngineInv, JobsTyped
<1>2. DOMAIN jobs' = DOMAIN jobs \ {j} /\ \A i \in DOMAIN jobs' : jobs'[i] = jobs[i]
    BY <1>1 DEF Without, Restrict
<1>3. JobsTyped'
    BY <1>1, <1>2, JobTaken DEF JobsTyped, CronInv, EngineInv
<1>4. run' \in [Id -> Run] /\ ~run'[j].own /\ \A i \in Id \ {j} : run'[i] = run[i]
    <2> DEFINE q == [run[j] EXCEPT !.own = FALSE]
    <2>1. run[j] \in Run /\ run \in [Id -> Run]
        BY <1>1 DEF CronInv, EngineInv, RestTyped
    <2>2. q \in Run /\ ~q.own
        BY <2>1 DEF Run
    <2>3. run' = [run EXCEPT ![j] = q]
        BY <1>0
    <2> HIDE DEF q
    <2> QED BY <1>1, <2>1, <2>2, <2>3
<1>5. executed' = executed /\ resumed' = resumed /\ resumed' \in [Id -> Nat]
    BY <1>0 DEF CronInv, EngineInv, RestTyped
<1>6. /\ UNCHANGED <<store, crashes, faults, kept, orphaned, contended, unsaved>>
      /\ request'[c].at = "store" /\ \A d \in Caller \ {c} : request'[d] = request[d]
      /\ RestTyped' /\ \A i \in Id : OthersAdd(i)
    BY <1>0, <1>4, <1>5, MutateFacts
<1>7. JobInv(j)'
    BY <1>1, <1>2, <1>4, GoneJobInv
<1>8. ASSUME NEW i \in Id, i # j PROVE JobInv(i)'
    <2>1. Untouched(i)
        BY <1>2, <1>4, <1>5, <1>8 DEF Untouched
    <2> QED BY <1>3, <1>6, <2>1, UntouchedKeeps DEF CronInv
<1>9. EngineInv'
    BY <1>3, <1>6, <1>7, <1>8 DEF EngineInv
<1>10. StoreInv'
    <2>1. \A i \in Id : run'[i].at = run[i].at
        BY <1>0 DEF CronInv, EngineInv, RestTyped, Run
    <2>2. \A i \in DOMAIN jobs' : i \in DOMAIN jobs /\ jobs'[i].schedule = jobs[i].schedule
        BY <1>2
    <2> QED BY <1>5, <1>6, <2>1, <2>2, MutateStore
<1>11. IntentsAreOne'
    BY <1>2, <1>6, MutateIntents
<1> QED BY <1>9, <1>10, <1>11 DEF CronInv

\* Archiving changes nothing that a run depends on.
LEMMA ArchiveKeeps ==
    ASSUME CronAssumption, CronInv, NEW c \in Caller, ArchiveIntent(c)
    PROVE  CronInv'
<1>0. PICK k \in Key :
         /\ Mutate(c, [j \in DOMAIN jobs |->
                         IF j \in FindByIntent(jobs, k)
                         THEN [jobs[j] EXCEPT !.archived = TRUE] ELSE jobs[j]])
         /\ UNCHANGED <<run, executed, delivered, resumed>>
    BY DEF ArchiveIntent
<1>1. jobs' = [j \in DOMAIN jobs |->
                  IF j \in FindByIntent(jobs, k)
                  THEN [jobs[j] EXCEPT !.archived = TRUE] ELSE jobs[j]]
    BY <1>0 DEF Mutate
<1>2. ASSUME NEW j \in DOMAIN jobs
      PROVE  /\ jobs'[j] \in Job /\ jobs'[j].status = jobs[j].status
             /\ jobs'[j].schedule = jobs[j].schedule /\ jobs'[j].due = jobs[j].due
             /\ jobs'[j].retries = jobs[j].retries /\ jobs'[j].gate = jobs[j].gate
             /\ jobs'[j].key = jobs[j].key /\ (jobs[j].archived => jobs'[j].archived)
    <2>1. jobs[j] \in Job
        BY DEF CronInv, EngineInv, JobsTyped
    <2>2. jobs'[j] = jobs[j] \/ jobs'[j] = [jobs[j] EXCEPT !.archived = TRUE]
        BY <1>1
    <2>3. CASE jobs'[j] = jobs[j]
        BY <2>1, <2>3
    <2>4. CASE jobs'[j] = [jobs[j] EXCEPT !.archived = TRUE]
        BY <2>1, <2>4 DEF Job
    <2> QED BY <2>2, <2>3, <2>4
<1>3. DOMAIN jobs' = DOMAIN jobs /\ jobs' = [j \in DOMAIN jobs' |-> jobs'[j]]
    BY <1>1
<1>4. JobsTyped'
    BY <1>2, <1>3 DEF JobsTyped, CronInv, EngineInv
<1>5. /\ run' = run /\ run' \in [Id -> Run] /\ executed' = executed /\ resumed' = resumed
      /\ resumed' \in [Id -> Nat]
    BY <1>0 DEF CronInv, EngineInv, RestTyped
<1>6. /\ UNCHANGED <<store, crashes, faults, kept, orphaned, contended, unsaved>>
      /\ request'[c].at = "store" /\ \A d \in Caller \ {c} : request'[d] = request[d]
      /\ RestTyped' /\ \A i \in Id : OthersAdd(i)
    <2> DEFINE js == [j \in DOMAIN jobs |->
                         IF j \in FindByIntent(jobs, k)
                         THEN [jobs[j] EXCEPT !.archived = TRUE] ELSE jobs[j]]
    <2>1. Mutate(c, js)
        BY <1>0
    <2> HIDE DEF js
    <2> QED BY <1>5, <2>1, MutateFacts
<1>7. ASSUME NEW i \in Id PROVE JobInv(i)'
    <2>1. Untouched(i)
        BY <1>2, <1>3, <1>5 DEF Untouched
    <2> QED BY <1>4, <1>6, <2>1, UntouchedKeeps DEF CronInv
<1>8. EngineInv'
    BY <1>4, <1>6, <1>7 DEF EngineInv
<1>9. StoreInv'
    <2>1. \A i \in DOMAIN jobs' : i \in DOMAIN jobs /\ jobs'[i].schedule = jobs[i].schedule
        BY <1>2, <1>3
    <2> QED BY <1>5, <1>6, <2>1, MutateStore
<1>10. IntentsAreOne'
    BY <1>2, <1>3, <1>6, MutateIntents
<1> QED BY <1>8, <1>9, <1>10 DEF CronInv

\* Pausing: the drafts that run once are not due any more.
LEMMA PauseKeeps ==
    ASSUME CronAssumption, CronInv, NEW c \in Caller, PauseCronJob(c)
    PROVE  CronInv'
<1>0. PICK j \in DOMAIN jobs :
         /\ jobs[j].status \in {"idle", "failed", "done"}
         /\ Mutate(c, Quiesce([jobs EXCEPT ![j].status = "paused"]))
         /\ UNCHANGED <<run, executed, delivered, resumed>>
    BY DEF PauseCronJob
<1> DEFINE v == [jobs[j] EXCEPT !.status = "paused"]
           js == [jobs EXCEPT ![j] = v]
<1>1. j \in Id /\ jobs[j] \in Job /\ \A i \in DOMAIN jobs : i \in Id /\ jobs[i] \in Job
    BY DEF CronInv, EngineInv, JobsTyped
<1>2. /\ v \in Job /\ v.status = "paused" /\ v.schedule = jobs[j].schedule /\ v.due = jobs[j].due
      /\ v.retries = jobs[j].retries /\ v.gate = jobs[j].gate /\ v.key = jobs[j].key
      /\ v.archived = jobs[j].archived
    BY <1>1 DEF Job
<1> HIDE DEF v
<1>3. Mutate(c, Quiesce(js))
    BY <1>0 DEF v
<1>4. js \in [DOMAIN jobs -> Job] /\ js[j] = v /\ \A i \in DOMAIN jobs \ {j} : js[i] = jobs[i]
    BY <1>2 DEF CronInv, EngineInv, JobsTyped
<1> HIDE DEF js
<1>5. jobs' = Quiesce(js)
    BY <1>3 DEF Mutate
<1>6. /\ jobs' \in [DOMAIN jobs -> Job]
      /\ \A i \in DOMAIN jobs :
           /\ jobs'[i].status = js[i].status /\ jobs'[i].schedule = js[i].schedule
           /\ jobs'[i].key = js[i].key /\ jobs'[i].archived = js[i].archived
           /\ jobs'[i].retries = js[i].retries /\ jobs'[i].gate = js[i].gate
           /\ jobs'[i].due =
                 (js[i].due /\ ~(js[i].status = "paused" /\ js[i].kind = "one_shot"))
    BY <1>4, <1>5, QuiescedJobs
<1>7. JobsTyped' /\ DOMAIN jobs' = DOMAIN jobs
    BY <1>6 DEF JobsTyped, CronInv, EngineInv
<1>8. /\ run' = run /\ run' \in [Id -> Run] /\ executed' = executed /\ resumed' = resumed
      /\ resumed' \in [Id -> Nat]
    BY <1>0 DEF CronInv, EngineInv, RestTyped
<1>9. /\ UNCHANGED <<store, crashes, faults, kept, orphaned, contended, unsaved>>
      /\ request'[c].at = "store" /\ \A d \in Caller \ {c} : request'[d] = request[d]
      /\ RestTyped' /\ \A i \in Id : OthersAdd(i)
    BY <1>3, <1>8, MutateFacts
<1>10. ASSUME NEW i \in DOMAIN jobs
       PROVE  /\ (jobs'[i].status = "running") = (jobs[i].status = "running")
              /\ jobs'[i].schedule = jobs[i].schedule /\ jobs'[i].key = jobs[i].key
              /\ jobs'[i].archived = jobs[i].archived
              /\ jobs'[i].retries = jobs[i].retries /\ jobs'[i].gate = jobs[i].gate
              /\ jobs'[i].due => jobs[i].due
    <2>1. CASE i = j
        BY <1>0, <1>2, <1>4, <1>6, <2>1
    <2>2. CASE i # j
        BY <1>4, <1>6, <2>2
    <2> QED BY <2>1, <2>2
<1>11. ASSUME NEW i \in Id, i \in DOMAIN jobs PROVE JobInv(i)'
    <2>1. JobInv(i)
        BY DEF CronInv, EngineInv
    <2>2. run[i].own /\ run[i].at \in UnderWay => ~jobs[i].due
        BY <2>1 DEF JobInv, RunHasJob
    <2>3. RunHasJob(i)'
        BY <1>7, <1>8, <1>10, <1>11, <2>1 DEF JobInv, RunHasJob
    <2>4. RunIsKept(i)'
        BY <1>8, <1>9, <2>1 DEF JobInv, RunIsKept
    <2>5. GateIsTheirs(i)'
        BY <1>7, <1>9, <1>10, <1>11, GateStays DEF CronInv
    <2>6. RunsAreCounted(i)'
        <3> DEFINE n == MayRun(jobs[i], run[i])
                   m == MayRun(jobs'[i], run'[i])
                   l == Later(jobs[i].retries)
        <3>1. run[i] \in Run /\ jobs'[i] \in Job /\ jobs[i] \in Job
            BY <1>1, <1>6, <1>11 DEF CronInv, EngineInv, RestTyped
        <3>2. n \in Nat /\ l \in Nat /\ l + 1 <= RetryLimit /\ RetryLimit \in Nat
            BY <1>11, <3>1, MayRunNumbers, CronConstants
        <3>3. jobs'[i].retries = jobs[i].retries /\ (jobs'[i].due => jobs[i].due)
              /\ jobs'[i].due \in BOOLEAN /\ jobs[i].due \in BOOLEAN
            BY <1>10, <1>11, <3>1 DEF Job
        <3>4. m <= n
            <4>1. CASE jobs'[i].due = jobs[i].due
                <5>1. m = n
                    BY <1>8, <3>3, <4>1 DEF MayRun
                <5> HIDE DEF m, n
                <5> QED BY <3>2, <5>1
            <4>2. CASE jobs[i].due /\ ~jobs'[i].due
                <5>1. ~(run[i].own /\ run[i].at = "gate")
                    BY <2>2, <4>2 DEF UnderWay
                <5>2. m = IF run[i].at \notin {"none", "save"} THEN l ELSE 0
                    BY <1>8, <3>3, <4>2, <5>1 DEF MayRun
                <5>3. n = IF run[i].at \in {"none", "save"} THEN l + 1 ELSE RetryLimit
                    BY <4>2 DEF MayRun
                <5> HIDE DEF m, n, l
                <5> QED BY <3>2, <5>2, <5>3
            <4> QED BY <3>3, <4>1, <4>2
        <3> QED BY <1>7, <1>8, <1>9, <1>10, <1>11, <3>1, <3>4, CountKept DEF CronInv
    <2> QED BY <2>3, <2>4, <2>5, <2>6 DEF JobInv
<1>12. ASSUME NEW i \in Id, i \notin DOMAIN jobs PROVE JobInv(i)'
    <2>1. Untouched(i)
        BY <1>7, <1>8, <1>12 DEF Untouched
    <2> QED BY <1>7, <1>9, <2>1, UntouchedKeeps DEF CronInv
<1>13. EngineInv'
    BY <1>7, <1>9, <1>11, <1>12 DEF EngineInv
<1>14. \A i \in DOMAIN jobs' : /\ i \in DOMAIN jobs /\ jobs'[i].schedule = jobs[i].schedule
                               /\ jobs'[i].key = jobs[i].key
                               /\ jobs'[i].archived = jobs[i].archived
    BY <1>7, <1>10
<1>15. StoreInv'
    BY <1>8, <1>9, <1>14, MutateStore
<1>16. IntentsAreOne'
    BY <1>9, <1>14, MutateIntents
<1> QED BY <1>13, <1>15, <1>16 DEF CronInv

\* Resuming: the job has as many runs before it as a new one.
LEMMA ResumeKeeps ==
    ASSUME CronAssumption, CronInv, NEW c \in Caller, ResumeCronJob(c)
    PROVE  CronInv'
<1>0. PICK j \in DOMAIN jobs, due \in BOOLEAN :
         /\ jobs[j].status = "paused"
         /\ Mutate(c, [jobs EXCEPT ![j].status = "idle", ![j].due = due])
         /\ resumed' = [resumed EXCEPT ![j] = @ + 1]
         /\ UNCHANGED <<run, executed, delivered>>
    BY DEF ResumeCronJob
<1> DEFINE v == [jobs[j] EXCEPT !.status = "idle", !.due = due]
           js == [jobs EXCEPT ![j] = v]
<1>1. j \in Id /\ jobs[j] \in Job
    BY DEF CronInv, EngineInv, JobsTyped
<1>2. /\ v \in Job /\ v.status = "idle" /\ v.schedule = jobs[j].schedule /\ v.gate = jobs[j].gate
      /\ v.key = jobs[j].key /\ v.archived = jobs[j].archived
    BY <1>1 DEF Job
<1>3. Mutate(c, js)
    BY <1>0
<1> HIDE DEF v
<1>4. jobs' = [jobs EXCEPT ![j] = v]
    BY <1>3 DEF Mutate
<1>5. /\ JobsTyped' /\ DOMAIN jobs' = DOMAIN jobs /\ jobs'[j] = v
      /\ \A i \in DOMAIN jobs \ {j} : jobs'[i] = jobs[i]
    BY <1>2, <1>4, JobChanges DEF CronInv, EngineInv
<1> HIDE DEF js
<1>6. /\ run' = run /\ run' \in [Id -> Run] /\ executed' = executed
      /\ resumed' \in [Id -> Nat] /\ resumed'[j] = resumed[j] + 1
      /\ \A i \in Id \ {j} : resumed'[i] = resumed[i]
    BY <1>0, <1>1 DEF CronInv, EngineInv, RestTyped
<1>7. /\ UNCHANGED <<store, crashes, faults, kept, orphaned, contended, unsaved>>
      /\ request'[c].at = "store" /\ \A d \in Caller \ {c} : request'[d] = request[d]
      /\ RestTyped' /\ \A i \in Id : OthersAdd(i)
    BY <1>3, <1>6, MutateFacts
<1>8. JobInv(j)'
    <2>1. JobInv(j)
        BY <1>1 DEF CronInv, EngineInv
    <2>2. ~(run[j].own /\ run[j].at \in UnderWay)
        BY <1>0, <2>1 DEF JobInv, RunHasJob
    <2>3. RunHasJob(j)' /\ RunIsKept(j)'
        BY <1>2, <1>5, <1>6, <2>2 DEF RunHasJob, RunIsKept, UnderWay
    <2>4. GateIsTheirs(j)'
        <3>1. jobs'[j].gate = jobs[j].gate
            BY <1>2, <1>5
        <3> QED BY <1>1, <1>5, <1>7, <3>1, GateStays DEF CronInv
    <2>5. RunsAreCounted(j)'
        <3> SUFFICES ASSUME jobs[j].schedule = "once"
                     PROVE  executed[j] + MayRun(v, run[j])
                              <= Allowance(resumed[j] + 1, crashes + faults')
            BY <1>2, <1>5, <1>6, <1>7 DEF RunsAreCounted, MayRun, Later, Allowance
        <3> DEFINE n == MayRun(jobs[j], run[j])
                   m == MayRun(v, run[j])
                   l == crashes + faults
        <3>1. executed[j] + n <= Allowance(resumed[j], l)
            BY <2>1 DEF JobInv, RunsAreCounted
        <3>2. /\ executed[j] \in Nat /\ resumed[j] \in Nat /\ crashes \in Nat /\ faults \in Nat
              /\ run[j] \in Run
            BY <1>1 DEF CronInv, EngineInv, RestTyped
        <3>3. n \in Nat /\ m \in Nat /\ m <= RetryLimit /\ RetryLimit \in Nat
            BY <1>1, <1>2, <3>2, MayRunNumbers, CronConstants
        <3>4. l \in Nat
            BY <3>2
        <3>5. crashes + faults' = l \/ crashes + faults' = l + 1
            <4>1. CASE faults' = faults
                BY <4>1
            <4>2. CASE faults' = faults + 1
                BY <3>2, <4>2
            <4> QED BY <1>7, <4>1, <4>2
        <3> HIDE DEF n, m, l
        <3> DEFINE a == Allowance(resumed[j], l)
                   b == Allowance(resumed[j] + 1, l)
        <3>6. a \in Nat /\ b = a + RetryLimit
            BY <3>2, <3>4, Allowances
        <3>7. resumed[j] + 1 \in Nat
            BY <3>2
        <3>8. Allowance(resumed[j] + 1, l + 1) = b + 1
            BY <3>4, <3>7, Allowances
        <3>9. executed[j] + n <= a
            BY <3>1
        <3> HIDE DEF a, b
        <3>10. executed[j] + m <= b /\ executed[j] + m <= b + 1
            BY <3>2, <3>3, <3>6, <3>9
        <3> QED BY <3>5, <3>8, <3>10 DEF m, b
    <2> QED BY <2>3, <2>4, <2>5 DEF JobInv
<1>9. ASSUME NEW i \in Id, i # j PROVE JobInv(i)'
    <2>1. Untouched(i)
        BY <1>5, <1>6, <1>9 DEF Untouched
    <2> QED BY <1>5, <1>7, <2>1, UntouchedKeeps DEF CronInv
<1>10. EngineInv'
    BY <1>5, <1>7, <1>8, <1>9 DEF EngineInv
<1>11. \A i \in DOMAIN jobs' : /\ i \in DOMAIN jobs /\ jobs'[i].schedule = jobs[i].schedule
                               /\ jobs'[i].key = jobs[i].key
                               /\ jobs'[i].archived = jobs[i].archived
    BY <1>2, <1>5
<1>12. StoreInv'
    <2>1. \A i \in Id : resumed'[i] \in {resumed[i], resumed[i] + 1}
        BY <1>6
    <2> QED BY <1>6, <1>7, <1>11, <2>1, MutateStore
<1>13. IntentsAreOne'
    BY <1>7, <1>11, MutateIntents
<1> QED BY <1>10, <1>12, <1>13 DEF CronInv

\* The save that a change was waiting for.
LEMMA SaveChangeKeeps ==
    ASSUME CronAssumption, CronInv, NEW c \in Caller, SaveChange(c)
    PROVE  CronInv'
<1>1. /\ request[c].at = "store" /\ Return(c)
      /\ UNCHANGED <<jobs, run, crashes, executed, resumed, contended>>
    BY DEF SaveChange
<1>2. PICK ok \in BOOLEAN : Saves(ok, jobs)
    BY DEF SaveChange
<1>3. /\ request' \in [Caller -> Request] /\ request'[c].at = "idle"
      /\ \A d \in Caller \ {c} : request'[d] = request[d]
    BY <1>1, Returns DEF CronInv
<1>4. /\ faults' \in {faults, faults + 1} /\ faults' \in Nat
      /\ kept \subseteq kept' /\ kept' \subseteq Id /\ unsaved' \in BOOLEAN
      /\ orphaned' \subseteq Id /\ store' \in {store, jobs}
    BY <1>2, SaveFacts
<1>5. RestTyped' /\ JobsTyped'
    BY <1>1, <1>3, <1>4 DEF CronInv, EngineInv, RestTyped, JobsTyped
<1>6. ASSUME NEW i \in Id PROVE JobInv(i)'
    <2>1. Untouched(i)
        BY <1>1 DEF Untouched
    <2>2. OthersAdd(i)
        BY <1>1, <1>3 DEF OthersAdd, Adding
    <2> QED BY <1>1, <1>4, <1>5, <2>1, <2>2, UntouchedKeeps DEF CronInv
<1>7. EngineInv'
    BY <1>5, <1>6 DEF EngineInv
<1>8. StoreInv'
    BY <1>1, <1>2, <1>7, SaveKeeps
<1>9. IntentsAreOne'
    <2>1. \A d \in Caller : \/ request'[d].at \in {"idle", "store"}
                            \/ Adds(d) /\ request'[d] = request[d]
        BY <1>3 DEF Adds
    <2> QED BY <1>1, <1>4, <2>1, IntentsStay DEF CronInv
<1> QED BY <1>7, <1>8, <1>9 DEF CronInv

-----------------------------------------------------------------------------
(* The steps of a run.                                                     *)

\* A run changes its job and nothing else.
LEMMA RunStepKeeps ==
    ASSUME CronAssumption, CronInv, NEW j \in Id, JobsTyped', run' \in [Id -> Run],
           executed' \in [Id -> Nat],
           \A i \in Id \ {j} : run'[i] = run[i] /\ executed'[i] = executed[i],
           DOMAIN jobs' \subseteq DOMAIN jobs, DOMAIN jobs \ {j} \subseteq DOMAIN jobs',
           \A i \in DOMAIN jobs \ {j} : jobs'[i] = jobs[i],
           j \in DOMAIN jobs' =>
               jobs'[j].key = jobs[j].key /\ jobs'[j].archived = jobs[j].archived,
           UNCHANGED <<store, request, faults, crashes, resumed, kept, orphaned,
                       contended, unsaved>>,
           JobInv(j)', StoredInv(j)'
    PROVE  CronInv'
<1>1. RestTyped'
    BY DEF CronInv, EngineInv, RestTyped
<1>2. ASSUME NEW i \in Id, i # j PROVE JobInv(i)' /\ StoredInv(i)'
    <2>1. Untouched(i)
        BY <1>2 DEF Untouched
    <2>2. OthersAdd(i)
        BY DEF OthersAdd
    <2>3. (i \in DOMAIN jobs => jobs'[i] = jobs[i]) /\ (i \in kept' => i \in kept)
        BY <1>2
    <2>4. JobInv(i)'
        BY <1>1, <2>1, <2>2, UntouchedKeeps DEF CronInv
    <2>5. StoredInv(i)'
        <3>1. Pending(i) => Pending(i)'
            BY StaysPending
        <3> QED BY <2>1, <2>2, <2>3, <3>1, UntouchedStays DEF CronInv
    <2> QED BY <2>4, <2>5
<1>3. EngineInv' /\ StoreInv'
    BY <1>1, <1>2 DEF CronInv, EngineInv, StoreInv, StoreTyped
<1>4. IntentsAreOne'
    <2>1. \A i \in DOMAIN jobs' : /\ i \in DOMAIN jobs /\ jobs'[i].key = jobs[i].key
                                  /\ jobs[i].archived => jobs'[i].archived
        <3> TAKE i \in DOMAIN jobs'
        <3>1. CASE i = j
            BY <3>1
        <3>2. CASE i # j
            BY <3>2
        <3> QED BY <3>1, <3>2
    <2>2. \A c \in Caller : \/ request'[c].at \in {"idle", "store"}
                            \/ Adds(c) /\ request'[c] = request[c]
        BY DEF Adds
    <2> QED BY <2>1, <2>2, IntentsStay DEF CronInv
<1> QED BY <1>3, <1>4 DEF CronInv

\* What the store has of a job can be run again after a restart: a command that
\* is executed is one the store does not know of.
LEMMA RunStored ==
    ASSUME CronAssumption, CronInv, NEW j \in Id, run' \in [Id -> Run], executed' \in [Id -> Nat],
           UNCHANGED <<store, request, faults, crashes, resumed, kept, orphaned, unsaved>>,
           run[j].at = "record" => run'[j].at = "save", run[j].at # "save", run'[j].at # "none",
           j \in DOMAIN jobs' => j \in DOMAIN jobs /\ jobs'[j].schedule = jobs[j].schedule,
           j \in DOMAIN jobs /\ run'[j].at \notin {"record", "save"} => j \in DOMAIN jobs',
           executed'[j] + Unrecorded(run[j]) <= executed[j] + Unrecorded(run'[j])
    PROVE  StoredInv(j)'
<1>1. StoredInv(j)
    BY DEF CronInv, StoreInv
<1>2. ScheduleIsKept(j)'
    BY <1>1 DEF StoredInv, ScheduleIsKept
<1>3. StoreAgrees(j)'
    <2>1. Pending(j) => Pending(j)'
        BY StaysPending
    <2> QED BY <1>1, <2>1 DEF StoredInv, StoreAgrees
<1>4. StoredRunsAreCounted(j)'
    <2> SUFFICES ASSUME j \in DOMAIN store, store[j].schedule = "once"
                 PROVE  executed'[j] + MayRunAgain(store[j])
                          <= Allowance(resumed[j], crashes + faults) + Unrecorded(run'[j])
        BY DEF StoredRunsAreCounted, MayRunAgain, Later, Allowance, Unrecorded
    <2> DEFINE a == Allowance(resumed[j], crashes + faults)
               m == MayRunAgain(store[j])
               u == Unrecorded(run[j])
               v == Unrecorded(run'[j])
    <2>1. executed[j] + m <= a + u
        BY <1>1 DEF StoredInv, StoredRunsAreCounted
    <2>2. /\ crashes + faults \in Nat /\ resumed[j] \in Nat /\ executed[j] \in Nat
          /\ store[j] \in Job /\ run[j] \in Run
        BY DEF CronInv, StoreInv, StoreTyped, EngineInv, RestTyped
    <2>3. a \in Nat /\ m \in Nat
        BY <2>2, Allowances, MayRunNumbers
    <2>4. u \in {0, 1} /\ v \in {0, 1}
        BY DEF Unrecorded
    <2>5. executed'[j] \in Nat
        OBVIOUS
    <2>6. executed'[j] + u <= executed[j] + v
        OBVIOUS
    <2> HIDE DEF a, m, u, v
    <2>7. executed'[j] + m <= a + v
        BY <2>1, <2>2, <2>3, <2>4, <2>5, <2>6
    <2> QED BY <2>7 DEF a, m, v
<1> QED BY <1>2, <1>3, <1>4 DEF StoredInv

\* Starting a run keeps the invariant: what was due is now under way.
LEMMA StartRunKeeps ==
    ASSUME CronAssumption, CronInv, NEW j \in Id, StartRun(j)
    PROVE  CronInv'
<1> DEFINE v == [jobs[j] EXCEPT !.status = "running", !.due = FALSE]
           q == [at |-> "gate", err |-> "nil", own |-> TRUE]
<1>1. /\ j \in DOMAIN jobs /\ run[j].at = "none" /\ jobs[j].due
      /\ jobs[j].status \notin {"paused", "running"} /\ executed' = executed
      /\ UNCHANGED <<store, request, faults, crashes, resumed, kept, orphaned,
                     contended, unsaved>>
    BY DEF StartRun, runOnly
<1>2. jobs' = [jobs EXCEPT ![j] = v] /\ run' = [run EXCEPT ![j] = q]
    BY DEF StartRun
<1>3. jobs[j] \in Job
    BY <1>1 DEF CronInv, EngineInv, JobsTyped
<1>4. /\ v \in Job /\ v.status = "running" /\ ~v.due /\ v.schedule = jobs[j].schedule
      /\ v.key = jobs[j].key
      /\ v.archived = jobs[j].archived /\ v.retries = jobs[j].retries /\ v.gate = jobs[j].gate
    BY <1>3 DEF Job
<1>5. q \in Run /\ q.at = "gate" /\ q.own
    BY DEF Run, RunError
<1> HIDE DEF v, q
<1>6. /\ JobsTyped' /\ DOMAIN jobs' = DOMAIN jobs /\ jobs'[j] = v
      /\ \A i \in DOMAIN jobs \ {j} : jobs'[i] = jobs[i]
    BY <1>1, <1>2, <1>4, JobChanges DEF CronInv, EngineInv
<1>7. run' \in [Id -> Run] /\ run'[j] = q /\ \A i \in Id \ {j} : run'[i] = run[i]
    BY <1>2, <1>5 DEF CronInv, EngineInv, RestTyped
<1>8. executed' \in [Id -> Nat] /\ RestTyped'
    BY <1>1, <1>7 DEF CronInv, EngineInv, RestTyped
<1>9. JobInv(j)'
    <2>1. JobInv(j)
        BY DEF CronInv, EngineInv
    <2>2. RunHasJob(j)' /\ RunIsKept(j)'
        BY <1>1, <1>4, <1>5, <1>6, <1>7 DEF RunHasJob, RunIsKept, UnderWay
    <2>3. GateIsTheirs(j)'
        BY <1>1, <1>4, <1>6, <2>1 DEF JobInv, GateIsTheirs
    <2>4. RunsAreCounted(j)'
        <3>1. MayRun(v, q) = MayRun(jobs[j], run[j])
            BY <1>1, <1>4, <1>5 DEF MayRun
        <3>2. MayRun(v, q) \in Nat
            BY <1>4, <1>5, MayRunNumbers
        <3>3. MayRun(jobs'[j], run'[j]) <= MayRun(jobs[j], run[j])
            BY <1>6, <1>7, <3>1, <3>2
        <3> QED BY <1>1, <1>4, <1>6, <1>8, <3>3, CountKept DEF CronInv
    <2> QED BY <2>2, <2>3, <2>4 DEF JobInv
<1>10. StoredInv(j)'
    <2>1. Unrecorded(run[j]) = 0 /\ Unrecorded(run'[j]) = 0
        BY <1>1, <1>5, <1>7 DEF Unrecorded
    <2>2. executed'[j] + Unrecorded(run[j]) <= executed[j] + Unrecorded(run'[j])
        BY <1>1, <1>8, <2>1
    <2> QED BY <1>1, <1>4, <1>5, <1>6, <1>7, <1>8, <2>2, RunStored
<1> QED BY <1>1, <1>4, <1>6, <1>7, <1>8, <1>9, <1>10, RunStepKeeps

\* The gate opens when the job has been saved; the command is executed.
LEMMA PassGateKeeps ==
    ASSUME CronAssumption, CronInv, NEW j \in Id, PassGate(j)
    PROVE  CronInv'
<1> DEFINE q == [run[j] EXCEPT !.at = "work"]
<1>1. /\ run[j].at = "gate" /\ (run[j].own => jobs[j].gate = "open") /\ jobs' = jobs
      /\ UNCHANGED <<store, request, faults, crashes, resumed, kept, orphaned,
                     contended, unsaved>>
    BY DEF PassGate, runOnly
<1>2. run[j] \in Run /\ JobInv(j)
    BY DEF CronInv, EngineInv, RestTyped
<1>3. q \in Run /\ q.at = "work" /\ q.own = run[j].own
    BY <1>2 DEF Run
<1>4. run' = [run EXCEPT ![j] = q]
    BY DEF PassGate
<1> HIDE DEF q
<1>5. run' \in [Id -> Run] /\ run'[j] = q /\ \A i \in Id \ {j} : run'[i] = run[i]
    BY <1>3, <1>4 DEF CronInv, EngineInv, RestTyped
<1>6. executed' = IF run[j].own THEN [executed EXCEPT ![j] = @ + 1] ELSE executed
    BY DEF PassGate
<1>7. /\ executed' \in [Id -> Nat] /\ (run[j].own => executed'[j] = executed[j] + 1)
      /\ (~run[j].own => executed'[j] = executed[j])
      /\ \A i \in Id \ {j} : executed'[i] = executed[i]
    BY <1>6 DEF CronInv, EngineInv, RestTyped
<1>8. JobsTyped' /\ RestTyped'
    BY <1>1, <1>5, <1>7 DEF CronInv, EngineInv, RestTyped, JobsTyped
<1>9. run[j].own => j \in DOMAIN jobs /\ ~jobs[j].due
    BY <1>1, <1>2 DEF JobInv, RunHasJob, UnderWay
<1>10. JobInv(j)'
    <2>1. RunHasJob(j)'
        BY <1>1, <1>2, <1>3, <1>5 DEF JobInv, RunHasJob, UnderWay
    <2>2. GateIsTheirs(j)'
        BY <1>1, <1>2 DEF JobInv, GateIsTheirs
    <2>3. RunIsKept(j)'
        BY <1>1, <1>2, <1>3, <1>5, <1>9 DEF JobInv, GateIsTheirs, RunIsKept
    <2>4. RunsAreCounted(j)'
        <3>1. CASE j \in DOMAIN jobs /\ run[j].own
            <4> DEFINE n == MayRun(jobs[j], run[j])
                       m == MayRun(jobs[j], q)
                       a == Allowance(resumed[j], crashes + faults)
            <4> SUFFICES ASSUME jobs[j].schedule = "once" PROVE executed'[j] + m <= a
                BY <1>1, <1>5 DEF RunsAreCounted, MayRun, Later, Allowance
            <4>1. executed[j] + n <= a
                BY <1>2, <3>1 DEF JobInv, RunsAreCounted
            <4>2. /\ jobs[j] \in Job /\ executed[j] \in Nat /\ resumed[j] \in Nat
                  /\ crashes + faults \in Nat
                BY <3>1 DEF CronInv, EngineInv, JobsTyped, RestTyped
            <4>3. n = Later(jobs[j].retries) + 1 /\ m = Later(jobs[j].retries)
                BY <1>1, <1>3, <1>9, <3>1 DEF MayRun
            <4>4. Later(jobs[j].retries) \in Nat /\ a \in Nat
                BY <1>2, <4>2, MayRunNumbers, Allowances
            <4>5. executed'[j] = executed[j] + 1
                BY <1>7, <3>1
            <4> HIDE DEF n, m, a
            <4> QED BY <4>1, <4>2, <4>3, <4>4, <4>5
        <3>2. CASE j \in DOMAIN jobs /\ ~run[j].own
            <4>1. MayRun(jobs'[j], run'[j]) = MayRun(jobs[j], run[j])
                BY <1>1, <1>3, <1>5, <3>2 DEF MayRun
            <4>2. MayRun(jobs[j], run[j]) \in Nat /\ jobs[j] \in Job
                BY <1>2, <3>2, MayRunNumbers DEF CronInv, EngineInv, JobsTyped
            <4>3. MayRun(jobs'[j], run'[j]) <= MayRun(jobs[j], run[j])
                BY <4>1, <4>2
            <4> QED BY <1>1, <1>7, <1>8, <3>2, <4>2, <4>3, CountKept DEF CronInv
        <3>3. CASE j \notin DOMAIN jobs
            BY <1>1, <3>3 DEF RunsAreCounted
        <3> QED BY <3>1, <3>2, <3>3
    <2> QED BY <2>1, <2>2, <2>3, <2>4 DEF JobInv
<1>11. StoredInv(j)'
    <2>1. Unrecorded(run[j]) = 0 /\ Unrecorded(run'[j]) = 1
        BY <1>1, <1>3, <1>5 DEF Unrecorded
    <2>2. executed[j] \in Nat /\ executed'[j] \in Nat
        BY <1>7 DEF CronInv, EngineInv, RestTyped
    <2>3. executed'[j] + Unrecorded(run[j]) <= executed[j] + Unrecorded(run'[j])
        BY <1>7, <2>1, <2>2
    <2> QED BY <1>1, <1>3, <1>5, <1>7, <2>3, RunStored
<1> QED BY <1>1, <1>5, <1>7, <1>8, <1>10, <1>11, RunStepKeeps

\* A run that goes on with its job running.
LEMMA RunGoesOn ==
    ASSUME CronAssumption, CronInv, NEW j \in Id, NEW q \in Run, run' = [run EXCEPT ![j] = q],
           run[j].at \in {"work", "notify"}, q.at \in {"notify", "finish"}, q.own = run[j].own,
           UNCHANGED <<jobs, executed, store, request, faults, crashes, resumed, kept,
                       orphaned, contended, unsaved>>
    PROVE  CronInv'
<1>1. run[j] \in Run /\ JobInv(j)
    BY DEF CronInv, EngineInv, RestTyped
<1>2. run' \in [Id -> Run] /\ run'[j] = q /\ \A i \in Id \ {j} : run'[i] = run[i]
    BY DEF CronInv, EngineInv, RestTyped
<1>3. JobsTyped' /\ RestTyped'
    BY <1>2 DEF CronInv, EngineInv, RestTyped, JobsTyped
<1>4. executed' \in [Id -> Nat]
    BY DEF CronInv, EngineInv, RestTyped
<1>5. JobInv(j)'
    <2>1. RunHasJob(j)' /\ RunIsKept(j)' /\ GateIsTheirs(j)'
        BY <1>1, <1>2 DEF JobInv, RunHasJob, UnderWay, RunIsKept, GateIsTheirs
    <2>2. RunsAreCounted(j)'
        <3>1. CASE j \in DOMAIN jobs
            <4>1. MayRun(jobs'[j], run'[j]) = MayRun(jobs[j], run[j])
                BY <1>2 DEF MayRun
            <4>2. MayRun(jobs[j], run[j]) \in Nat /\ jobs[j] \in Job
                BY <1>1, <3>1, MayRunNumbers DEF CronInv, EngineInv, JobsTyped
            <4>3. MayRun(jobs'[j], run'[j]) <= MayRun(jobs[j], run[j])
                BY <4>1, <4>2
            <4> QED BY <1>3, <3>1, <4>2, <4>3, CountKept DEF CronInv
        <3>2. CASE j \notin DOMAIN jobs
            BY <3>2 DEF RunsAreCounted
        <3> QED BY <3>1, <3>2
    <2> QED BY <2>1, <2>2 DEF JobInv
<1>6. StoredInv(j)'
    <2>1. Unrecorded(run[j]) = 1 /\ Unrecorded(run'[j]) = 1
        BY <1>2 DEF Unrecorded
    <2>2. executed'[j] + Unrecorded(run[j]) <= executed[j] + Unrecorded(run'[j])
        BY <1>4, <2>1
    <2> QED BY <1>2, <1>4, <2>2, RunStored
<1> QED BY <1>2, <1>3, <1>4, <1>5, <1>6, RunStepKeeps

\* The work of a run and its notification keep the invariant.
LEMMA WorkKeeps ==
    ASSUME CronAssumption, CronInv, NEW j \in Id, Work(j) \/ Notify(j)
    PROVE  CronInv'
<1>1. run[j] \in Run
    BY DEF CronInv, EngineInv, RestTyped
<1>2. /\ run[j].at \in {"work", "notify"}
      /\ UNCHANGED <<jobs, executed, store, request, faults, crashes, resumed, kept,
                     orphaned, contended, unsaved>>
    BY DEF Work, Notify, runOnly
<1>3. \E at \in {"notify", "finish"}, err \in RunError :
         run' = [run EXCEPT ![j].at = at, ![j].err = err]
    BY DEF Work, Notify, TaskError, RunError
<1>4. PICK at \in {"notify", "finish"}, err \in RunError :
         run' = [run EXCEPT ![j].at = at, ![j].err = err]
    BY <1>3
<1> DEFINE q == [run[j] EXCEPT !.at = at, !.err = err]
<1>5. run' = [run EXCEPT ![j] = q]
    BY <1>4
<1>6. q \in Run /\ q.at \in {"notify", "finish"} /\ q.own = run[j].own
    BY <1>1 DEF Run
<1> HIDE DEF q
<1> QED BY <1>2, <1>5, <1>6, RunGoesOn

\* The engine takes the end of the run: the job runs no more.
LEMMA EngineFinishKeeps ==
    ASSUME CronAssumption, CronInv, NEW j \in Id, EngineFinish(j)
    PROVE  CronInv'
<1> DEFINE q == [run[j] EXCEPT !.at = "record"]
           ok == run[j].err = "nil"
           v == [jobs[j] EXCEPT !.status = IF ~ok THEN "failed"
                                           ELSE IF jobs[j].schedule = "once" THEN "done"
                                           ELSE "idle",
                                !.due = (jobs[j].schedule = "interval")]
<1>1. /\ run[j].at = "finish" /\ executed' = executed
      /\ UNCHANGED <<store, request, faults, crashes, resumed, kept, orphaned,
                     contended, unsaved>>
    BY DEF EngineFinish, runOnly
<1>2. run[j] \in Run /\ JobInv(j)
    BY DEF CronInv, EngineInv, RestTyped
<1>3. run' = [run EXCEPT ![j] = q]
    BY DEF EngineFinish
<1>4. q \in Run /\ q.at = "record" /\ q.own = run[j].own
    BY <1>2 DEF Run
<1>5. jobs' = IF ~run[j].own THEN jobs
              ELSE IF ok /\ jobs[j].once THEN Without(jobs, j) ELSE [jobs EXCEPT ![j] = v]
    BY DEF EngineFinish
<1>6. j \in DOMAIN jobs =>
         /\ jobs[j] \in Job /\ v \in Job /\ v.status \in {"failed", "done", "idle"}
         /\ v.due = (v.schedule = "interval") /\ v.schedule = jobs[j].schedule
         /\ v.key = jobs[j].key /\ v.archived = jobs[j].archived /\ v.retries = jobs[j].retries
         /\ v.gate = jobs[j].gate
    <2> SUFFICES ASSUME j \in DOMAIN jobs
                 PROVE  /\ jobs[j] \in Job /\ v \in Job
                        /\ v.status \in {"failed", "done", "idle"}
                        /\ v.due = (v.schedule = "interval") /\ v.schedule = jobs[j].schedule
                        /\ v.key = jobs[j].key /\ v.archived = jobs[j].archived
                        /\ v.retries = jobs[j].retries /\ v.gate = jobs[j].gate
        OBVIOUS
    <2>1. jobs[j] \in Job
        BY DEF CronInv, EngineInv, JobsTyped
    <2>2. v \in Job /\ v.status \in {"failed", "done", "idle"}
        BY <2>1, ZenonT(40) DEF Job
    <2>3. /\ v.due = (v.schedule = "interval") /\ v.schedule = jobs[j].schedule
          /\ v.key = jobs[j].key /\ v.archived = jobs[j].archived
          /\ v.retries = jobs[j].retries /\ v.gate = jobs[j].gate
        BY <2>1 DEF Job
    <2> QED BY <2>1, <2>2, <2>3
<1> HIDE DEF v, q, ok
<1>7. run' \in [Id -> Run] /\ run'[j] = q /\ \A i \in Id \ {j} : run'[i] = run[i]
    BY <1>3, <1>4 DEF CronInv, EngineInv, RestTyped
<1>8. RestTyped' /\ executed' \in [Id -> Nat]
    BY <1>1, <1>7 DEF CronInv, EngineInv, RestTyped
<1>9. RunHasJob(j)
    BY <1>2 DEF JobInv
<1>10. /\ JobsTyped' /\ DOMAIN jobs' \subseteq DOMAIN jobs
       /\ DOMAIN jobs \ {j} \subseteq DOMAIN jobs'
       /\ \A i \in DOMAIN jobs \ {j} : jobs'[i] = jobs[i]
       /\ j \in DOMAIN jobs' => jobs'[j] = IF run[j].own THEN v ELSE jobs[j]
    <2>1. CASE ~run[j].own
        <3>1. jobs' = jobs
            BY <1>5, <2>1
        <3> QED BY <2>1, <3>1 DEF CronInv, EngineInv, JobsTyped
    <2>2. CASE run[j].own /\ ok /\ jobs[j].once
        <3>1. jobs' = Without(jobs, j)
            BY <1>5, <2>2
        <3>2. DOMAIN jobs' = DOMAIN jobs \ {j} /\ \A i \in DOMAIN jobs' : jobs'[i] = jobs[i]
            BY <3>1 DEF Without, Restrict
        <3>3. JobsTyped'
            BY <3>1, <3>2, JobTaken DEF CronInv, EngineInv, JobsTyped
        <3> QED BY <3>2, <3>3
    <2>3. CASE run[j].own /\ ~(ok /\ jobs[j].once)
        <3>1. jobs' = [jobs EXCEPT ![j] = v]
            BY <1>5, <2>3
        <3>2. j \in DOMAIN jobs
            BY <1>1, <1>9, <2>3 DEF RunHasJob, UnderWay
        <3>3. /\ JobsTyped' /\ DOMAIN jobs' = DOMAIN jobs /\ jobs'[j] = v
              /\ \A i \in DOMAIN jobs \ {j} : jobs'[i] = jobs[i]
            BY <1>6, <3>1, <3>2, JobChanges DEF CronInv, EngineInv
        <3> QED BY <2>3, <3>3
    <2> QED BY <2>1, <2>2, <2>3
<1>11. j \in DOMAIN jobs' =>
          /\ j \in DOMAIN jobs /\ jobs'[j] \in Job /\ jobs'[j].schedule = jobs[j].schedule
          /\ jobs'[j].key = jobs[j].key /\ jobs'[j].archived = jobs[j].archived
          /\ jobs'[j].retries = jobs[j].retries /\ jobs'[j].gate = jobs[j].gate
    BY <1>6, <1>10
<1>12. JobInv(j)'
    <2>1. RunHasJob(j)' /\ RunIsKept(j)'
        BY <1>1, <1>4, <1>6, <1>7, <1>9, <1>10 DEF RunHasJob, RunIsKept, UnderWay
    <2>3. GateIsTheirs(j)'
        BY <1>1, <1>2, <1>11 DEF JobInv, GateIsTheirs
    <2>4. RunsAreCounted(j)'
        <3>1. CASE j \in DOMAIN jobs'
            <4>1. jobs[j] \in Job /\ j \in DOMAIN jobs
                BY <1>6, <1>11, <3>1
            <4>2. MayRun(jobs[j], run[j]) \in Nat
                BY <1>2, <4>1, MayRunNumbers
            <4>3. jobs[j].schedule = "once" => MayRun(jobs'[j], run'[j]) = MayRun(jobs[j], run[j])
                <5>1. CASE run[j].own
                    <6>1. ~jobs[j].due
                        BY <1>1, <1>9, <5>1 DEF RunHasJob, UnderWay
                    <6>2. jobs[j].schedule = "once" => ~jobs'[j].due
                        BY <1>6, <1>10, <3>1, <4>1, <5>1
                    <6> QED BY <1>1, <1>4, <1>7, <1>11, <3>1, <6>1, <6>2 DEF MayRun
                <5>2. CASE ~run[j].own
                    BY <1>1, <1>4, <1>7, <1>10, <3>1, <5>2 DEF MayRun
                <5> QED BY <5>1, <5>2
            <4>4. jobs[j].schedule = "once" => MayRun(jobs'[j], run'[j]) <= MayRun(jobs[j], run[j])
                BY <4>2, <4>3
            <4> QED BY <1>1, <1>8, <1>11, <4>1, <4>4, CountKept DEF CronInv
        <3>2. CASE j \notin DOMAIN jobs'
            BY <3>2 DEF RunsAreCounted
        <3> QED BY <3>1, <3>2
    <2> QED BY <2>1, <2>3, <2>4 DEF JobInv
<1>13. StoredInv(j)'
    <2>1. Unrecorded(run[j]) = 1 /\ Unrecorded(run'[j]) = 1
        BY <1>1, <1>4, <1>7 DEF Unrecorded
    <2>2. executed'[j] + Unrecorded(run[j]) <= executed[j] + Unrecorded(run'[j])
        BY <1>1, <1>8, <2>1
    <2> QED BY <1>1, <1>4, <1>7, <1>8, <1>11, <2>2, RunStored
<1> QED BY <1>1, <1>7, <1>8, <1>10, <1>11, <1>12, <1>13, RunStepKeeps

\* What recording makes of a job whose run has ended.
LEMMA RecordedJob ==
    ASSUME CronAssumption, NEW job \in Job, NEW r \in Run, r.at = "record", job.status # "running",
           NEW q \in Run, q.at = "save"
    PROVE  LET new == Recorded(job, r.err) IN
           /\ new \in Job /\ new.schedule = job.schedule /\ new.key = job.key
           /\ new.archived = job.archived /\ new.gate = job.gate /\ new.status # "running"
           /\ MayRun(new, q) <= MayRun(job, r)
<1> DEFINE new == Recorded(job, r.err)
           n == MayRun(job, r)
           l == Later(job.retries)
<1>1. /\ n \in Nat /\ l \in Nat /\ l + 1 <= RetryLimit /\ RetryLimit \in Nat
      /\ job.retries \in Nat /\ job.due \in BOOLEAN
    BY MayRunNumbers, CronConstants DEF Job
<1>2. n = IF job.due THEN RetryLimit ELSE l
    BY DEF MayRun
<1>3. Later(0) + 1 = RetryLimit
    BY LaterCounts
<1>4. CASE r.err = "nil"
    <2>1. new = [job EXCEPT !.class = "none", !.retries = 0]
        BY <1>4 DEF Recorded, Classify
    <2> HIDE DEF new, n, l
    <2>2. /\ new \in Job /\ new.schedule = job.schedule /\ new.key = job.key /\ new.due = job.due
          /\ new.archived = job.archived /\ new.gate = job.gate /\ new.status = job.status
          /\ new.retries = 0
        BY <2>1 DEF Job, ErrorClass
    <2>4. MayRun(new, q) = IF job.due THEN RetryLimit ELSE 0
        BY <1>1, <1>3, <2>2 DEF MayRun
    <2>5. MayRun(new, q) <= n
        BY <1>1, <1>2, <2>4
    <2> QED BY <2>2, <2>5 DEF new, n
<1>5. CASE r.err = "delivery"
    <2>1. new = ClearTaskFailure(job)
        BY <1>5 DEF Recorded, Classify
    <2>2. /\ new \in Job /\ new.schedule = job.schedule /\ new.key = job.key
          /\ new.due = (job.due /\ job.kind # "one_shot") /\ new.retries = 0
          /\ new.archived = job.archived /\ new.gate = job.gate
          /\ new.status \in {"done", "idle"}
        <3> DEFINE status == IF job.kind = "one_shot" \/ ~job.due THEN "done" ELSE "idle"
                   due == job.due /\ job.kind # "one_shot"
        <3>1. new = [job EXCEPT !.class = "delivery", !.retries = 0, !.status = status, !.due = due]
            BY <2>1 DEF ClearTaskFailure
        <3>2. status \in {"done", "idle"} /\ due \in BOOLEAN
            BY DEF Job
        <3> HIDE DEF status, due, new
        <3>3. /\ new \in Job /\ new.schedule = job.schedule /\ new.key = job.key /\ new.due = due
              /\ new.retries = 0
              /\ new.archived = job.archived /\ new.gate = job.gate /\ new.status = status
            BY <3>1, <3>2 DEF Job, ErrorClass
        <3> QED BY <3>2, <3>3 DEF due
    <2> HIDE DEF new, n, l
    <2>3. MayRun(new, q) = IF new.due THEN RetryLimit ELSE 0
        BY <1>1, <1>3, <2>2 DEF MayRun
    <2>4. MayRun(new, q) <= n
        BY <1>1, <1>2, <2>2, <2>3
    <2> QED BY <2>2, <2>4 DEF new, n
<1>6. CASE r.err \notin {"nil", "delivery"}
    <2> DEFINE exhausted == job.kind = "one_shot" /\ job.retries + 1 >= RetryLimit
               class == IF exhausted THEN "exhausted" ELSE "command"
               status == IF job.kind # "one_shot" THEN job.status
                         ELSE IF exhausted THEN "failed" ELSE "idle"
               due == IF job.kind # "one_shot" THEN job.due ELSE ~exhausted
    <2>1. new = [job EXCEPT !.retries = job.retries + 1, !.class = class, !.status = status,
                            !.due = due]
        BY <1>6 DEF Recorded, Classify, CountFailure
    <2>2. /\ class \in ErrorClass /\ due \in BOOLEAN /\ job.retries + 1 \in Nat
          /\ status \in {"idle", "paused", "failed", "done"}
        <3>1. job.due \in BOOLEAN /\ job.status \in {"idle", "paused", "failed", "done"}
            BY DEF Job
        <3>2. class \in ErrorClass
            BY DEF ErrorClass
        <3>3. due \in BOOLEAN
            BY <3>1
        <3>4. status \in {"idle", "paused", "failed", "done"}
            BY <3>1
        <3> QED BY <1>1, <3>2, <3>3, <3>4
    <2>3. /\ job.kind = "one_shot" => due = ~exhausted
          /\ job.kind # "one_shot" => due = job.due
          /\ job.kind = "one_shot" /\ ~exhausted => job.retries + 1 < RetryLimit
        BY <1>1
    <2> HIDE DEF new, n, class, status, due, exhausted, l
    <2>4. /\ new \in Job /\ new.schedule = job.schedule /\ new.key = job.key /\ new.due = due
          /\ new.archived = job.archived /\ new.gate = job.gate /\ new.status = status
          /\ new.retries = job.retries + 1
        BY <2>1, <2>2 DEF Job
    <2> DEFINE k == Later(job.retries + 1)
    <2>5. k \in Nat /\ k + 1 <= RetryLimit
        BY <2>2, LaterCounts
    <2>6. MayRun(new, q) = IF due THEN k + 1 ELSE 0
        BY <2>4 DEF MayRun
    <2>7. job.kind = "one_shot" /\ ~exhausted => k + 1 = l
        BY <1>1, <2>3, LaterCounts DEF l
    <2> HIDE DEF k
    <2>8. MayRun(new, q) <= n
        BY <1>1, <1>2, <2>2, <2>3, <2>5, <2>6, <2>7
    <2> QED BY <2>2, <2>4, <2>8 DEF new, n
<1> QED BY <1>4, <1>5, <1>6

\* The handler records the run in the job of its identity.
LEMMA RecordRunKeeps ==
    ASSUME CronAssumption, CronInv, NEW j \in Id, RecordRun(j)
    PROVE  CronInv'
<1> DEFINE v == Recorded(jobs[j], run[j].err)
           q == [run[j] EXCEPT !.at = "save"]
<1>1. /\ run[j].at = "record" /\ run' = [run EXCEPT ![j] = q]
      /\ jobs' = IF j \in DOMAIN jobs THEN [jobs EXCEPT ![j] = v] ELSE jobs
      /\ UNCHANGED <<store, request, faults, crashes, executed, resumed, kept, orphaned,
                     contended, unsaved>>
    BY DEF RecordRun, CronInv, EngineInv, RestTyped
<1>2. run[j] \in Run /\ JobInv(j)
    BY DEF CronInv, EngineInv, RestTyped
<1>q. q \in Run /\ q.at = "save" /\ q.own = run[j].own
    BY <1>2 DEF Run
<1> HIDE DEF q
<1>3. run' \in [Id -> Run] /\ run'[j] = q /\ \A i \in Id \ {j} : run'[i] = run[i]
    BY <1>1, <1>q DEF CronInv, EngineInv, RestTyped
<1>4. j \in DOMAIN jobs => jobs[j] \in Job /\ jobs[j].status # "running"
    BY <1>1, <1>2 DEF JobInv, RunHasJob, UnderWay, CronInv, EngineInv, JobsTyped
<1>5. j \in DOMAIN jobs =>
         /\ v \in Job /\ v.schedule = jobs[j].schedule /\ v.key = jobs[j].key
         /\ v.archived = jobs[j].archived /\ v.gate = jobs[j].gate /\ v.status # "running"
         /\ MayRun(v, q) <= MayRun(jobs[j], run[j])
    BY <1>1, <1>2, <1>q, <1>4, RecordedJob
<1> HIDE DEF v
<1>6. /\ JobsTyped' /\ DOMAIN jobs' = DOMAIN jobs /\ (j \in DOMAIN jobs => jobs'[j] = v)
      /\ \A i \in DOMAIN jobs \ {j} : jobs'[i] = jobs[i]
    <2>1. CASE j \in DOMAIN jobs
        BY <1>1, <1>5, <2>1, JobChanges DEF CronInv, EngineInv
    <2>2. CASE j \notin DOMAIN jobs
        BY <1>1, <2>2 DEF CronInv, EngineInv, JobsTyped
    <2> QED BY <2>1, <2>2
<1>7. RestTyped' /\ executed' \in [Id -> Nat] /\ executed' = executed
    BY <1>1, <1>3 DEF CronInv, EngineInv, RestTyped
<1>8. JobInv(j)'
    <2>1. RunHasJob(j)' /\ RunIsKept(j)'
        BY <1>3, <1>q, <1>5, <1>6 DEF RunHasJob, RunIsKept, UnderWay
    <2>2. GateIsTheirs(j)'
        BY <1>1, <1>2, <1>5, <1>6 DEF JobInv, GateIsTheirs
    <2>3. RunsAreCounted(j)'
        <3>1. CASE j \in DOMAIN jobs
            BY <1>1, <1>3, <1>5, <1>6, <1>7, <3>1, CountKept DEF CronInv
        <3>2. CASE j \notin DOMAIN jobs
            BY <1>6, <3>2 DEF RunsAreCounted
        <3> QED BY <3>1, <3>2
    <2> QED BY <2>1, <2>2, <2>3 DEF JobInv
<1>9. StoredInv(j)'
    <2>1. Unrecorded(run[j]) = 1 /\ Unrecorded(run'[j]) = 1
        BY <1>1, <1>3, <1>q DEF Unrecorded
    <2>2. executed'[j] + Unrecorded(run[j]) <= executed[j] + Unrecorded(run'[j])
        BY <1>7, <2>1
    <2>3. j \in DOMAIN jobs' => j \in DOMAIN jobs /\ jobs'[j].schedule = jobs[j].schedule
        BY <1>5, <1>6
    <2> QED BY <1>1, <1>3, <1>q, <1>6, <1>7, <2>2, <2>3, RunStored
<1>10. /\ DOMAIN jobs' \subseteq DOMAIN jobs /\ DOMAIN jobs \ {j} \subseteq DOMAIN jobs'
       /\ j \in DOMAIN jobs' => jobs'[j].key = jobs[j].key /\ jobs'[j].archived = jobs[j].archived
    BY <1>5, <1>6
<1> QED BY <1>1, <1>3, <1>6, <1>7, <1>8, <1>9, <1>10, RunStepKeeps

\* The save after it ends the run.
LEMMA SaveRunKeeps ==
    ASSUME CronAssumption, CronInv, NEW j \in Id, SaveRun(j)
    PROVE  CronInv'
<1>1. /\ run[j].at = "save" /\ run' = [run EXCEPT ![j] = NoRun]
      /\ UNCHANGED <<jobs, request, crashes, executed, resumed, contended>>
    BY DEF SaveRun
<1>2. PICK ok \in BOOLEAN : Saves(ok, jobs)
    BY DEF SaveRun
<1>3. NoRun \in Run /\ NoRun.at = "none"
    BY CronConstants DEF NoRun
<1>4. run' \in [Id -> Run] /\ run'[j].at = "none" /\ \A i \in Id \ {j} : run'[i] = run[i]
    BY <1>1, <1>3 DEF CronInv, EngineInv, RestTyped
<1>5. /\ faults' \in {faults, faults + 1} /\ faults' \in Nat
      /\ kept \subseteq kept' /\ kept' \subseteq Id /\ unsaved' \in BOOLEAN
      /\ orphaned' \subseteq Id /\ store' \in {store, jobs}
    BY <1>2, SaveFacts
<1>6. RestTyped' /\ JobsTyped'
    BY <1>1, <1>4, <1>5 DEF CronInv, EngineInv, RestTyped, JobsTyped
<1>7. \A i \in Id : OthersAdd(i)
    BY <1>1 DEF OthersAdd
<1>8. JobInv(j)'
    <2>1. JobInv(j) /\ run[j] \in Run
        BY DEF CronInv, EngineInv, RestTyped
    <2>2. RunHasJob(j)' /\ RunIsKept(j)'
        BY <1>1, <1>4, <2>1 DEF JobInv, RunHasJob, RunIsKept, UnderWay
    <2>3. GateIsTheirs(j)'
        <3>1. CASE j \in DOMAIN jobs
            BY <1>1, <1>5, <1>7, <3>1, GateStays DEF CronInv
        <3>2. CASE j \notin DOMAIN jobs
            BY <1>1, <3>2 DEF GateIsTheirs
        <3> QED BY <3>1, <3>2
    <2>4. RunsAreCounted(j)'
        <3>1. CASE j \in DOMAIN jobs
            <4>1. jobs[j] \in Job
                BY <3>1 DEF CronInv, EngineInv, JobsTyped
            <4>2. MayRun(jobs'[j], run'[j]) = MayRun(jobs[j], run[j])
                BY <1>1, <1>4 DEF MayRun
            <4>3. MayRun(jobs[j], run[j]) \in Nat
                BY <2>1, <4>1, MayRunNumbers
            <4>4. MayRun(jobs'[j], run'[j]) <= MayRun(jobs[j], run[j])
                BY <4>2, <4>3
            <4> QED BY <1>1, <1>5, <1>6, <3>1, <4>1, <4>4, CountKept DEF CronInv
        <3>2. CASE j \notin DOMAIN jobs
            BY <1>1, <3>2 DEF RunsAreCounted
        <3> QED BY <3>1, <3>2
    <2> QED BY <2>2, <2>3, <2>4 DEF JobInv
<1>9. ASSUME NEW i \in Id, i # j PROVE JobInv(i)'
    <2>1. Untouched(i)
        BY <1>1, <1>4, <1>9 DEF Untouched
    <2> QED BY <1>1, <1>5, <1>6, <1>7, <2>1, UntouchedKeeps DEF CronInv
<1>10. EngineInv'
    BY <1>6, <1>8, <1>9 DEF EngineInv
<1>11. StoreInv'
    BY <1>1, <1>2, <1>10, SaveKeeps
<1>12. IntentsAreOne'
    <2>1. \A d \in Caller : \/ request'[d].at \in {"idle", "store"}
                            \/ Adds(d) /\ request'[d] = request[d]
        BY <1>1 DEF Adds
    <2> QED BY <1>1, <1>5, <2>1, IntentsStay DEF CronInv
<1> QED BY <1>10, <1>11, <1>12 DEF CronInv

\* A restart finds in the store what can go on.
LEMMA RestartKeeps ==
    ASSUME CronAssumption, CronInv, Restart PROVE CronInv'
<1>1. /\ crashes' = crashes + 1 /\ jobs' = RestoredJobs(store) /\ run' = [j \in Id |-> NoRun]
      /\ request' = [c \in Caller |-> IdleRequest] /\ unsaved' = FALSE
      /\ orphaned' = {}
      /\ kept' = kept \cup DOMAIN store
      /\ UNCHANGED <<store, faults, executed, resumed, contended>>
    BY DEF Restart
<1>2. store \in [DOMAIN store -> Job] /\ DOMAIN store \subseteq Id
    BY DEF CronInv, StoreInv, StoreTyped
<1>3. /\ jobs' \in [DOMAIN store -> Job]
      /\ \A j \in DOMAIN store : jobs'[j] = Restored(store[j]) /\ store[j] \in Job
    BY <1>1, <1>2, RestoredAll
<1>4. DOMAIN jobs' = DOMAIN store /\ JobsTyped'
    BY <1>2, <1>3 DEF JobsTyped
<1>5. /\ IdleRequest \in Request /\ IdleRequest.at = "idle" /\ NoRun \in Run
      /\ NoRun.at = "none"
    BY CronConstants DEF NoRun
<1>6. RestTyped'
    <2>1. crashes' \in Nat
        BY <1>1 DEF CronInv, EngineInv, RestTyped
    <2> QED BY <1>1, <1>2, <1>5, <2>1 DEF CronInv, EngineInv, RestTyped
<1>7. \A j \in DOMAIN store :
         /\ jobs'[j].status # "running" /\ jobs'[j].gate = "open"
         /\ jobs'[j].schedule = store[j].schedule /\ jobs'[j].key = store[j].key
         /\ jobs'[j].archived = store[j].archived /\ jobs'[j].retries = store[j].retries
         /\ jobs'[j].due => store[j].due \/ store[j].status = "running"
         /\ Restored(jobs'[j]) = jobs'[j]
    BY <1>3, RestoredOne
<1>8. ASSUME NEW j \in Id, j \in DOMAIN store, store[j].schedule = "once"
      PROVE  executed[j] + MayRunAgain(store[j]) <= Allowance(resumed[j], (crashes + 1) + faults)
    <2> DEFINE m == MayRunAgain(store[j])
               u == Unrecorded(run[j])
               l == crashes + faults
               a == Allowance(resumed[j], l)
    <2>1. executed[j] + m <= a + u
        BY <1>8 DEF CronInv, StoreInv, StoredInv, StoredRunsAreCounted
    <2>2. /\ l \in Nat /\ resumed[j] \in Nat /\ executed[j] \in Nat /\ run[j] \in Run
          /\ (crashes + 1) + faults = l + 1 /\ store[j] \in Job
        BY <1>3, <1>8 DEF CronInv, EngineInv, RestTyped
    <2> HIDE DEF l
    <2>3. a \in Nat /\ Allowance(resumed[j], l + 1) = a + 1 /\ m \in Nat
        BY <2>2, Allowances, MayRunNumbers
    <2>4. u \in {0, 1}
        BY DEF Unrecorded
    <2> HIDE DEF a, m, u
    <2>5. executed[j] + m <= a + 1
        BY <2>1, <2>2, <2>3, <2>4
    <2> QED BY <2>2, <2>3, <2>5 DEF m
<1>9. ASSUME NEW j \in Id PROVE JobInv(j)'
    <2>1. RunHasJob(j)' /\ RunIsKept(j)'
        BY <1>1, <1>4, <1>5, <1>7 DEF RunHasJob, RunIsKept, UnderWay
    <2>2. GateIsTheirs(j)'
        BY <1>1, <1>4, <1>7 DEF GateIsTheirs
    <2>3. RunsAreCounted(j)'
        <3> SUFFICES ASSUME j \in DOMAIN store, store[j].schedule = "once"
                     PROVE  executed[j] + MayRun(jobs'[j], NoRun)
                              <= Allowance(resumed[j], (crashes + 1) + faults)
            BY <1>1, <1>4, <1>7 DEF RunsAreCounted, MayRun, Later, Allowance
        <3> DEFINE n == MayRun(jobs'[j], NoRun)
                   m == MayRunAgain(store[j])
                   a == Allowance(resumed[j], (crashes + 1) + faults)
        <3>1. executed[j] + m <= a
            BY <1>8
        <3>2. /\ executed[j] \in Nat /\ resumed[j] \in Nat /\ (crashes + 1) + faults \in Nat
              /\ store[j] \in Job /\ jobs'[j] \in Job
            BY <1>3 DEF CronInv, EngineInv, RestTyped
        <3>3. a \in Nat /\ n \in Nat /\ m \in Nat /\ Later(store[j].retries) \in Nat
            BY <1>5, <3>2, Allowances, MayRunNumbers
        <3>4. n = IF jobs'[j].due THEN Later(store[j].retries) + 1 ELSE 0
            BY <1>5, <1>7 DEF MayRun
        <3>5. n <= m
            <4>1. jobs'[j].due => store[j].due \/ store[j].status = "running"
                BY <1>7
            <4>2. m = IF store[j].due \/ store[j].status = "running"
                      THEN Later(store[j].retries) + 1 ELSE 0
                BY DEF MayRunAgain
            <4> HIDE DEF n, m
            <4> QED BY <3>3, <3>4, <4>1, <4>2
        <3> HIDE DEF n, m, a
        <3>6. executed[j] + n <= a
            BY <3>1, <3>2, <3>3, <3>5
        <3> QED BY <3>6 DEF n, a
    <2> QED BY <2>1, <2>2, <2>3 DEF JobInv
<1>10. ASSUME NEW j \in Id PROVE StoredInv(j)'
    <2>1. ScheduleIsKept(j)'
        BY <1>1, <1>4, <1>7 DEF ScheduleIsKept
    <2>2. StoreAgrees(j)'
        <3>1. j \in DOMAIN store => Restored(store[j]) = Restored(jobs'[j])
            BY <1>3, <1>7
        <3> QED BY <1>1, <1>4, <3>1 DEF StoreAgrees, Restored
    <2>3. StoredRunsAreCounted(j)'
        <3> SUFFICES ASSUME j \in DOMAIN store, store[j].schedule = "once"
                     PROVE  executed[j] + MayRunAgain(store[j])
                              <= Allowance(resumed[j], (crashes + 1) + faults) + Unrecorded(NoRun)
            BY <1>1 DEF StoredRunsAreCounted, MayRunAgain, Later, Allowance, Unrecorded
        <3>1. Unrecorded(NoRun) = 0
            BY <1>5 DEF Unrecorded
        <3>2. Allowance(resumed[j], (crashes + 1) + faults) \in Nat
            <4>1. resumed[j] \in Nat /\ (crashes + 1) + faults \in Nat
                BY DEF CronInv, EngineInv, RestTyped
            <4> QED BY <4>1, Allowances
        <3>3. executed[j] + MayRunAgain(store[j]) <= Allowance(resumed[j], (crashes + 1) + faults)
            BY <1>8
        <3> QED BY <3>1, <3>2, <3>3
    <2> QED BY <2>1, <2>2, <2>3 DEF StoredInv
<1>11. IntentsAreOne'
    <2> SUFFICES ASSUME NEW k \in Key \ contended PROVE IntentIsOne(k)'
        BY <1>1 DEF IntentsAreOne
    <2>1. OneOf(store, k)
        BY DEF CronInv, IntentsAreOne, IntentIsOne
    <2>2. FindByIntent(jobs', k) = FindByIntent(store, k)
        BY <1>4, <1>7 DEF FindByIntent
    <2>3. OneOf(jobs', k) /\ OneOf(store', k)
        BY <1>1, <2>1, <2>2 DEF OneOf
    <2>4. OneRequest(k)' /\ NoneYet(k)'
        BY <1>1, <1>5 DEF OneRequest, NoneYet, Adds
    <2> QED BY <2>3, <2>4 DEF IntentIsOne, OneOf, FindByIntent
<1>12. StoreTyped'
    BY <1>1, <1>2 DEF StoreTyped
<1> QED BY <1>4, <1>6, <1>9, <1>10, <1>11, <1>12 DEF CronInv, EngineInv, StoreInv

-----------------------------------------------------------------------------
(* The invariant holds, and what follows from it.                          *)

\* The invariant holds at first: there are no jobs.
LEMMA CronInitKeeps == ASSUME CronAssumption, CronInit PROVE CronInv
<1>1. /\ DOMAIN jobs = {} /\ DOMAIN store = {} /\ jobs \in [DOMAIN jobs -> Job]
      /\ store \in [DOMAIN store -> Job]
    BY DEF CronInit
<1>2. /\ IdleRequest \in Request /\ IdleRequest.at = "idle" /\ NoRun \in Run
      /\ NoRun.at = "none"
    BY CronConstants DEF NoRun
<1>3. /\ request = [c \in Caller |-> IdleRequest] /\ run = [j \in Id |-> NoRun]
      /\ faults = 0 /\ crashes = 0 /\ executed = [j \in Id |-> 0] /\ resumed = [j \in Id |-> 0]
      /\ kept = {} /\ orphaned = {} /\ contended = {} /\ unsaved = FALSE
    BY DEF CronInit
<1>4. JobsTyped /\ StoreTyped /\ RestTyped
    BY <1>1, <1>2, <1>3 DEF JobsTyped, StoreTyped, RestTyped
<1>5. ASSUME NEW j \in Id PROVE JobInv(j) /\ StoredInv(j)
    <2>1. JobInv(j)
        BY <1>1, <1>2, <1>3 DEF JobInv, RunHasJob, GateIsTheirs, RunIsKept,
                                RunsAreCounted, UnderWay
    <2>2. StoredInv(j)
        BY <1>1 DEF StoredInv, ScheduleIsKept, StoreAgrees, StoredRunsAreCounted
    <2> QED BY <2>1, <2>2
<1>6. ASSUME NEW k \in Key PROVE IntentIsOne(k)
    BY <1>1, <1>2, <1>3 DEF IntentIsOne, OneOf, OneRequest, NoneYet, FindByIntent, Adds
<1> QED BY <1>4, <1>5, <1>6 DEF CronInv, EngineInv, StoreInv, IntentsAreOne

\* A step that changes nothing keeps it.
LEMMA CronStutters == ASSUME CronInv, UNCHANGED cronVars PROVE CronInv'
<1>1. UNCHANGED <<jobs, store, request, run, faults, crashes, executed, resumed, kept,
                  orphaned, contended, unsaved>>
    BY DEF cronVars
<1>2. EngineInv'
    <2>1. JobsTyped' /\ RestTyped'
        BY <1>1 DEF CronInv, EngineInv, JobsTyped, RestTyped
    <2>2. ASSUME NEW j \in Id PROVE JobInv(j)'
        BY <1>1 DEF CronInv, EngineInv, JobInv, RunHasJob, GateIsTheirs, RunIsKept,
                    RunsAreCounted, MayRun, Later, Allowance
    <2> QED BY <2>1, <2>2 DEF EngineInv
<1>3. StoreInv'
    <2>1. ASSUME NEW j \in Id PROVE StoredInv(j)'
        BY <1>1 DEF CronInv, StoreInv, StoredInv, ScheduleIsKept, StoreAgrees, StoredRunsAreCounted,
                    Restored, ToBeSaved, Pending, MayRunAgain, Later, Allowance, Unrecorded
    <2> QED BY <1>1, <2>1 DEF CronInv, StoreInv, StoreTyped
<1>4. IntentsAreOne'
    BY <1>1
       DEF CronInv, IntentsAreOne, IntentIsOne, OneOf, OneRequest, NoneYet, FindByIntent, Adds
<1> QED BY <1>2, <1>3, <1>4 DEF CronInv

\* Every step keeps it.
LEMMA CronStep ==
    ASSUME CronAssumption, CronInv, [CronNext]_cronVars PROVE CronInv'
<1>1. ASSUME NEW c \in Caller, CronRequest(c) PROVE CronInv'
    <2>1. CASE AddCronJob(c) \/ ToolAdd(c)
        BY <2>1, AskKeeps DEF AddCronJob, ToolAdd
    <2>3. CASE ToolGone(c)
        <3>1. request[c].at \notin Adding \cup {"store"}
            BY <2>3 DEF ToolGone, Adding
        <3> QED BY <2>3, <3>1, GivesUpKeeps DEF ToolGone
    <2> QED BY <1>1, <2>1, <2>3, AddInsertKeeps, AddFlagKeeps, AddSaveKeeps, AddUndoKeeps,
               AddStartKeeps,
               ToolInsertKeeps, ToolFillKeeps, PauseKeeps, ResumeKeeps, RemoveKeeps,
               ArchiveKeeps, SaveChangeKeeps
            DEF CronRequest
<1>2. ASSUME NEW j \in Id, CronRun(j) PROVE CronInv'
    BY <1>2, StartRunKeeps, PassGateKeeps, WorkKeeps, EngineFinishKeeps, RecordRunKeeps,
       SaveRunKeeps
       DEF CronRun
<1> QED BY <1>1, <1>2, RestartKeeps, CronStutters DEF CronNext

\* So it always holds.
LEMMA CronInvariant == CronSpec => []CronInv
<1>1. CronInit => CronInv
    BY CronAssumption, CronInitKeeps
<1>2. CronInv /\ [CronNext]_cronVars => CronInv'
    BY CronAssumption, CronStep
<1> QED BY <1>1, <1>2, PTL DEF CronSpec

\* The command of a job that AddCronJob makes is not executed before the job
\* has been saved (the gate of preparedTask, cron_http.go).
THEOREM OnlySavedJobsRun == CronSpec => []RunsOnlySavedJobs
<1>1. CronInv => RunsOnlySavedJobs
    BY DEF CronInv, EngineInv, JobInv, RunIsKept, RunsOnlySavedJobs, UnderWay
<1> QED BY <1>1, CronInvariant, PTL

\* A one-shot job is executed at most as often as its retries, its resumes, the
\* restarts and the lost saves allow (recordCronRun, cron_task_runtime.go).
THEOREM OneShotRunsEnd == CronSpec => []OneShotRunsBounded
<1>1. ASSUME CronInv PROVE OneShotRunsBounded
    <2> SUFFICES ASSUME NEW j \in DOMAIN jobs, jobs[j].schedule = "once"
                 PROVE  executed[j] <= RetryLimit * (1 + resumed[j]) + crashes + faults
        BY DEF OneShotRunsBounded
    <2> DEFINE n == MayRun(jobs[j], run[j])
               p == RetryLimit * (1 + resumed[j])
    <2>1. j \in Id /\ jobs[j] \in Job
        BY <1>1 DEF CronInv, EngineInv, JobsTyped
    <2>2. executed[j] + n <= p + (crashes + faults)
        BY <1>1, <2>1 DEF CronInv, EngineInv, JobInv, RunsAreCounted, Allowance
    <2>3. /\ executed[j] \in Nat /\ resumed[j] \in Nat /\ crashes \in Nat /\ faults \in Nat
          /\ run[j] \in Run /\ RetryLimit \in Nat
        BY <1>1, <2>1, CronAssumption, CronConstants DEF CronInv, EngineInv, RestTyped
    <2>4. n \in Nat
        BY <2>1, <2>3, CronAssumption, MayRunNumbers
    <2>5. p \in Nat
        BY <2>3
    <2> HIDE DEF n, p
    <2>6. executed[j] <= p + crashes + faults
        BY <2>2, <2>3, <2>4, <2>5
    <2> QED BY <2>6 DEF p
<1> QED BY <1>1, CronInvariant, PTL

\* Adds that do not overlap never make two jobs of one intent
\* (findCronJobByIntent, cron_identity.go).
THEOREM OneJobPerIntent == CronSpec => []DuplicatesNeedOverlap
<1>1. ASSUME CronInv PROVE DuplicatesNeedOverlap
    <2> SUFFICES ASSUME NEW k \in Key \ contended PROVE Cardinality(FindByIntent(jobs, k)) <= 1
        BY DEF DuplicatesNeedOverlap
    <2> DEFINE S == FindByIntent(jobs, k)
    <2>1. \A i, j \in S : i = j
        BY <1>1 DEF CronInv, IntentsAreOne, IntentIsOne, OneOf
    <2> HIDE DEF S
    <2>2. CASE S = {}
        <3>1. Cardinality(S) = 0
            BY <2>2, FS_EmptySet
        <3> QED BY <3>1 DEF S
    <2>3. CASE S # {}
        <3>1. PICK i \in S : TRUE
            BY <2>3
        <3>2. S = {i}
            BY <2>1, <3>1
        <3>3. Cardinality(S) = 1
            BY <3>2, FS_Singleton
        <3> QED BY <3>3 DEF S
    <2> QED BY <2>2, <2>3
<1> QED BY <1>1, CronInvariant, PTL

\* At rest a restart would find the jobs as they are, unless the last save failed or
\* a failed add took back a job that was stored (saveCronJobs, restoreCronJobs).
THEOREM RestIsSaved == CronSpec => []QuiescentIsSaved
<1>1. ASSUME CronInv PROVE QuiescentIsSaved
    <2> SUFFICES ASSUME \A c \in Caller : ~Busy(c), \A j \in Id : run[j].at = "none", ~unsaved,
                        orphaned = {}
                 PROVE  Quiesce(jobs) = RestoredJobs(store)
        BY DEF QuiescentIsSaved
    <2>1. /\ jobs \in [DOMAIN jobs -> Job] /\ DOMAIN jobs \subseteq Id
          /\ store \in [DOMAIN store -> Job] /\ DOMAIN store \subseteq Id
        BY <1>1 DEF CronInv, EngineInv, JobsTyped, StoreInv, StoreTyped
    <2>2. ASSUME NEW j \in Id
          PROVE  /\ (j \in DOMAIN jobs) = (j \in DOMAIN store)
                 /\ j \in DOMAIN jobs => Restored(store[j]) = Restored(jobs[j])
        <3>1. StoreAgrees(j)
            BY <1>1 DEF CronInv, StoreInv, StoredInv
        <3>2. ~ToBeSaved(j) /\ ~Pending(j)
            BY DEF ToBeSaved, Pending, Busy
        <3> QED BY <3>1, <3>2 DEF StoreAgrees
    <2>3. DOMAIN jobs = DOMAIN store
        BY <2>1, <2>2
    <2>4. /\ RestoredJobs(store) \in [DOMAIN store -> Job]
          /\ \A j \in DOMAIN store : RestoredJobs(store)[j] = Restored(store[j])
        BY <2>1, RestoredAll
    <2>5. \A j \in DOMAIN jobs : jobs[j].status # "running" /\ jobs[j].gate = "open"
        <3> TAKE j \in DOMAIN jobs
        <3>1. RunHasJob(j) /\ GateIsTheirs(j) /\ j \in Id
            BY <1>1, <2>1 DEF CronInv, EngineInv, JobInv
        <3>2. jobs[j].gate \in Caller \cup {"open"}
            BY <2>1 DEF Job
        <3> QED BY <3>1, <3>2 DEF RunHasJob, GateIsTheirs, UnderWay, Adding, Busy
    <2>6. Quiesce(jobs) \in [DOMAIN jobs -> Job]
        BY <2>1, QuiescedJobs
    <2>7. \A j \in DOMAIN jobs : Quiesce(jobs)[j] = Restored(jobs[j])
        BY <2>1, <2>5, QuiescedOne
    <2> QED BY <2>2, <2>1, <2>3, <2>4, <2>6, <2>7
<1> QED BY <1>1, CronInvariant, PTL

-----------------------------------------------------------------------------
(* The types, with the bounds.                                             *)

Waiting(r) == IF r.at = "gate" THEN 1 ELSE 0

\* Every resume is a request, and every command executed or waiting a run.
CronCounts ==
    /\ engineOn \in BOOLEAN /\ bound \in Bounds /\ delivered \subseteq Id
    /\ faults <= bound.faults /\ crashes <= bound.crashes
    /\ requests \in 0..bound.requests /\ runs \in 0..bound.runs
    /\ \A j \in Id : resumed[j] <= requests /\ executed[j] + Waiting(run[j]) <= runs

Goes(n, m, max) == m = n \/ (n < max /\ m = n + 1)

\* What a step may do to the counts of one job.
CountGoes(j) ==
    /\ \/ resumed'[j] = resumed[j] \/ resumed'[j] = 0
       \/ resumed'[j] = resumed[j] + 1 /\ requests' = requests + 1
    /\ \/ /\ executed'[j] = executed[j] \/ executed'[j] = 0
          /\ run'[j].at = "gate" => run[j].at = "gate"
       \/ executed'[j] = executed[j] + 1 /\ run[j].at = "gate" /\ run'[j].at = "work"
       \/ executed'[j] = executed[j] /\ run[j].at = "none" /\ runs' = runs + 1

\* Such steps keep the counts within their bounds.
LEMMA CountsGoOn ==
    ASSUME CronAssumption, RestTyped, RestTyped', CronCounts, bound' = bound, engineOn' \in BOOLEAN,
           delivered' \subseteq Id, Goes(faults, faults', bound.faults),
           Goes(crashes, crashes', bound.crashes), Goes(requests, requests', bound.requests),
           Goes(runs, runs', bound.runs), \A j \in Id : CountGoes(j)
    PROVE  CronCounts'
<1>1. /\ bound.faults \in Nat /\ bound.crashes \in Nat /\ bound.requests \in Nat
      /\ bound.runs \in Nat
    <2>1. bound \in [requests: Nat, runs: Nat, faults: Nat, crashes: Nat]
        BY DEF CronAssumption, CronCounts
    <2> QED BY <2>1
<1>2. faults \in Nat /\ crashes \in Nat /\ requests \in Nat /\ runs \in Nat
    BY <1>1 DEF RestTyped, CronCounts
<1>3. faults' <= bound.faults
    BY <1>1, <1>2 DEF CronCounts, Goes
<1>4. crashes' <= bound.crashes
    BY <1>1, <1>2 DEF CronCounts, Goes
<1>5. requests' \in 0..bound.requests /\ requests <= requests'
    BY <1>1, <1>2 DEF CronCounts, Goes
<1>6. runs' \in 0..bound.runs /\ runs <= runs'
    BY <1>1, <1>2 DEF CronCounts, Goes
<1>7. ASSUME NEW j \in Id
      PROVE  resumed'[j] <= requests' /\ executed'[j] + Waiting(run'[j]) <= runs'
    <2>1. resumed[j] <= requests /\ executed[j] + Waiting(run[j]) <= runs /\ CountGoes(j)
        BY DEF CronCounts
    <2>2. resumed[j] \in Nat /\ executed[j] \in Nat
        BY DEF RestTyped
    <2>3. requests' \in Nat /\ runs' \in Nat
        BY <1>5, <1>6
    <2>4. resumed'[j] <= requests'
        BY <1>2, <1>5, <2>1, <2>2, <2>3 DEF CountGoes
    <2> DEFINE w == Waiting(run[j])
               v == Waiting(run'[j])
    <2>5. w \in {0, 1} /\ v \in {0, 1}
        BY DEF Waiting
    <2>6. executed[j] + w <= runs
        BY <2>1
    <2>7. CASE (executed'[j] = executed[j] \/ executed'[j] = 0)
               /\ (run'[j].at = "gate" => run[j].at = "gate")
        <3>1. v <= w
            BY <2>7 DEF Waiting
        <3> HIDE DEF v, w
        <3>2. executed'[j] + v <= runs'
            BY <1>2, <1>6, <2>2, <2>3, <2>5, <2>6, <2>7, <3>1
        <3> QED BY <2>4, <3>2 DEF v
    <2>8. CASE executed'[j] = executed[j] + 1 /\ run[j].at = "gate" /\ run'[j].at = "work"
        <3>1. v = 0 /\ w = 1
            BY <2>8 DEF Waiting
        <3> HIDE DEF v, w
        <3>2. executed'[j] + v <= runs'
            BY <1>2, <1>6, <2>2, <2>3, <2>6, <2>8, <3>1
        <3> QED BY <2>4, <3>2 DEF v
    <2>9. CASE executed'[j] = executed[j] /\ run[j].at = "none" /\ runs' = runs + 1
        <3>1. w = 0
            BY <2>9 DEF Waiting
        <3> HIDE DEF v, w
        <3>2. executed'[j] + v <= runs'
            BY <1>2, <2>2, <2>3, <2>5, <2>6, <2>9, <3>1
        <3> QED BY <2>4, <3>2 DEF v
    <2> QED BY <2>1, <2>7, <2>8, <2>9 DEF CountGoes
<1> QED BY <1>3, <1>4, <1>5, <1>6, <1>7 DEF CronCounts

\* What a step may do to all of the counts.
CountsGo ==
    /\ engineOn' \in BOOLEAN /\ delivered' \subseteq Id
    /\ Goes(faults, faults', bound.faults) /\ Goes(crashes, crashes', bound.crashes)
    /\ Goes(requests, requests', bound.requests) /\ Goes(runs, runs', bound.runs)
    /\ \A j \in Id : CountGoes(j)

\* A save leaves the lost saves alone or adds one.
LEMMA SavesGo ==
    ASSUME NEW ok, NEW js, Saves(ok, js)
    PROVE  Goes(faults, faults', bound.faults)
BY DEF Saves, Goes

\* Steps that leave a job's run and counts alone, or end its run or its counts.
LEMMA RestGoes ==
    ASSUME NEW j \in Id, resumed'[j] = resumed[j] \/ resumed'[j] = 0,
           executed'[j] = executed[j] \/ executed'[j] = 0,
           run'[j].at = "gate" => run[j].at = "gate"
    PROVE  CountGoes(j)
BY DEF CountGoes

\* Every step of a request goes on with the counts.
LEMMA RequestsGo ==
    ASSUME RestTyped, CronCounts, NEW c \in Caller, CronRequest(c)
    PROVE  CountsGo
<1> USE DEF CronCounts
<1>1. request \in [Caller -> Request] /\ run \in [Id -> Run] /\ executed \in [Id -> Nat]
      /\ resumed \in [Id -> Nat]
    BY DEF RestTyped
<1>2. request[c].id \in Id
    BY <1>1 DEF Request
<1>3. ASSUME UNCHANGED <<run, executed, resumed>> PROVE \A j \in Id : CountGoes(j)
    BY <1>3, RestGoes
<1>4. ASSUME NEW id \in Id, run' = run, Renew(id) PROVE \A j \in Id : CountGoes(j)
    <2>1. \A j \in Id : /\ resumed'[j] = resumed[j] \/ resumed'[j] = 0
                        /\ executed'[j] = executed[j] \/ executed'[j] = 0
        BY <1>1, <1>4 DEF Renew
    <2> QED BY <1>4, <2>1, RestGoes
<1>5. CASE AddUndo(c)
    <2>1. UNCHANGED <<engineOn, delivered, faults, crashes, runs, requests, executed, resumed>>
        BY <1>5 DEF AddUndo
    <2>2. \A j \in Id : run'[j].at = "gate" => run[j].at = "gate"
        BY <1>1, <1>2, <1>5 DEF AddUndo, Run
    <2>3. \A j \in Id : CountGoes(j)
        BY <2>1, <2>2, RestGoes
    <2> QED BY <2>1, <2>3 DEF CountsGo, Goes
<1>6. CASE AddCronJob(c) \/ ToolAdd(c)
    <2>1. /\ requests < bound.requests /\ requests' = requests + 1
          /\ UNCHANGED <<engineOn, delivered, faults, crashes, runs, run, executed, resumed>>
        BY <1>6 DEF AddCronJob, ToolAdd, Ask
    <2> QED BY <1>3, <2>1 DEF CountsGo, Goes
<1>7. CASE AddInsert(c)
    <2>1. UNCHANGED <<engineOn, faults, crashes, runs, requests, run>>
        BY <1>7 DEF AddInsert
    <2>2. CASE request[c].id \in DOMAIN jobs
        <3>1. UNCHANGED <<executed, delivered, resumed>>
            BY <1>7, <2>2 DEF AddInsert
        <3> QED BY <1>3, <2>1, <3>1 DEF CountsGo, Goes
    <2>3. CASE request[c].id \notin DOMAIN jobs
        <3>1. Renew(request[c].id)
            BY <1>7, <2>3 DEF AddInsert
        <3>2. delivered' \subseteq Id
            BY <3>1 DEF Renew
        <3> QED BY <1>2, <1>4, <2>1, <3>1, <3>2 DEF CountsGo, Goes
    <2> QED BY <2>2, <2>3
<1>8. CASE AddFlag(c)
    <2>1. UNCHANGED <<engineOn, delivered, faults, crashes, runs, requests, run, executed, resumed>>
        BY <1>8 DEF AddFlag
    <2> QED BY <1>3, <2>1 DEF CountsGo, Goes
<1>9. CASE AddSave(c) \/ SaveChange(c)
    <2>1. UNCHANGED <<engineOn, delivered, crashes, runs, requests, run, executed, resumed>>
        BY <1>9 DEF AddSave, SaveChange
    <2>2. Goes(faults, faults', bound.faults)
        BY <1>9, SavesGo DEF AddSave, SaveChange
    <2> QED BY <1>3, <2>1, <2>2 DEF CountsGo, Goes
<1>10. CASE AddStart(c)
    <2>1. /\ engineOn' = TRUE
          /\ UNCHANGED <<delivered, faults, crashes, runs, requests, run, executed, resumed>>
        BY <1>10 DEF AddStart
    <2> QED BY <1>3, <2>1 DEF CountsGo, Goes
<1>11. CASE ToolInsert(c)
    <2>1. UNCHANGED <<engineOn, crashes, runs, requests, run>>
        BY <1>11 DEF ToolInsert
    <2>2. CASE request[c].id \in DOMAIN jobs
        <3>1. UNCHANGED <<faults, executed, delivered, resumed>>
            BY <1>11, <2>2 DEF ToolInsert
        <3> QED BY <1>3, <2>1, <3>1 DEF CountsGo, Goes
    <2>3. CASE request[c].id \notin DOMAIN jobs
        <3>1. Renew(request[c].id) /\ faults' = faults
            BY <1>11, <2>3 DEF ToolInsert, Saves
        <3>2. delivered' \subseteq Id
            BY <3>1 DEF Renew
        <3> QED BY <1>2, <1>4, <2>1, <3>1, <3>2 DEF CountsGo, Goes
    <2> QED BY <2>2, <2>3
<1>12. CASE ToolFill(c)
    <2>1. UNCHANGED <<engineOn, delivered, faults, crashes, runs, requests, run, executed, resumed>>
        BY <1>12 DEF ToolFill
    <2> QED BY <1>3, <2>1 DEF CountsGo, Goes
<1>13. CASE ToolGone(c)
    <2>1. UNCHANGED <<engineOn, delivered, faults, crashes, runs, requests, run, executed, resumed>>
        BY <1>13 DEF ToolGone
    <2> QED BY <1>3, <2>1 DEF CountsGo, Goes
<1>14. ASSUME NEW js, Mutate(c, js), delivered' = delivered, \A j \in Id : CountGoes(j)
       PROVE  CountsGo
    <2>1. /\ requests < bound.requests /\ requests' = requests + 1
          /\ UNCHANGED <<engineOn, faults, crashes, runs>>
        BY <1>14 DEF Mutate
    <2> QED BY <1>14, <2>1 DEF CountsGo, Goes
<1>15. CASE PauseCronJob(c) \/ ArchiveIntent(c)
    <2>1. (\E js : Mutate(c, js)) /\ UNCHANGED <<run, executed, delivered, resumed>>
        BY <1>15 DEF PauseCronJob, ArchiveIntent
    <2> QED BY <1>3, <1>14, <2>1
<1>16. CASE ResumeCronJob(c)
    <2>1. PICK i \in DOMAIN jobs :
              /\ \E js : Mutate(c, js)
              /\ resumed' = [resumed EXCEPT ![i] = @ + 1]
              /\ UNCHANGED <<run, executed, delivered>>
        BY <1>16 DEF ResumeCronJob
    <2>2. requests' = requests + 1
        BY <2>1 DEF Mutate
    <2>3. \A j \in Id : resumed'[j] = resumed[j] \/ resumed'[j] = resumed[j] + 1
        BY <1>1, <2>1
    <2>4. \A j \in Id : CountGoes(j)
        BY <2>1, <2>2, <2>3 DEF CountGoes
    <2> QED BY <1>14, <2>1, <2>4
<1>17. CASE RemoveCronJob(c)
    <2>1. PICK i \in DOMAIN jobs :
              /\ \E js : Mutate(c, js)
              /\ run' = [run EXCEPT ![i].own = FALSE]
              /\ UNCHANGED <<executed, delivered, resumed>>
        BY <1>17 DEF RemoveCronJob
    <2>2. \A j \in Id : run'[j].at = "gate" => run[j].at = "gate"
        BY <1>1, <2>1 DEF Run
    <2>3. \A j \in Id : CountGoes(j)
        BY <2>1, <2>2, RestGoes
    <2> QED BY <1>14, <2>1, <2>3
<1> QED BY <1>5, <1>6, <1>7, <1>8, <1>9, <1>10, <1>11, <1>12, <1>13, <1>15, <1>16, <1>17
        DEF CronRequest

\* Every step of a run goes on with the counts.
LEMMA RunsGo ==
    ASSUME RestTyped, CronCounts, NEW j \in Id, CronRun(j)
    PROVE  CountsGo
<1> USE DEF CronCounts
<1>1. run \in [Id -> Run] /\ executed \in [Id -> Nat]
    BY DEF RestTyped
<1>2. UNCHANGED <<engineOn, crashes, requests, resumed>>
    BY DEF CronRun, StartRun, PassGate, Work, Notify, EngineFinish, RecordRun, SaveRun, runOnly
<1>3. CASE StartRun(j)
    <2>1. /\ runs < bound.runs /\ runs' = runs + 1 /\ run[j].at = "none"
          /\ UNCHANGED <<executed, delivered, faults>>
          /\ run' = [run EXCEPT ![j] = [at |-> "gate", err |-> "nil", own |-> TRUE]]
        BY <1>3 DEF StartRun, runOnly
    <2>2. ASSUME NEW i \in Id PROVE CountGoes(i)
        <3>1. i = j \/ run'[i] = run[i]
            BY <1>1, <2>1
        <3> QED BY <1>2, <2>1, <3>1 DEF CountGoes
    <2> QED BY <1>2, <2>1, <2>2 DEF CountsGo, Goes
<1>4. CASE PassGate(j)
    <2>1. /\ run[j].at = "gate" /\ run' = [run EXCEPT ![j].at = "work"]
          /\ UNCHANGED <<delivered, runs, faults>>
          /\ executed' = IF run[j].own THEN [executed EXCEPT ![j] = @ + 1] ELSE executed
        BY <1>4 DEF PassGate, runOnly
    <2>2. run'[j].at = "work" /\ \A i \in Id \ {j} : run'[i] = run[i]
        BY <1>1, <2>1 DEF Run
    <2>3. /\ executed'[j] \in {executed[j], executed[j] + 1}
          /\ \A i \in Id \ {j} : executed'[i] = executed[i]
        BY <1>1, <2>1
    <2>4. ASSUME NEW i \in Id PROVE CountGoes(i)
        BY <1>2, <2>1, <2>2, <2>3 DEF CountGoes
    <2> QED BY <1>2, <2>1, <2>4 DEF CountsGo, Goes
<1>5. ASSUME UNCHANGED <<executed, runs>>, delivered' \subseteq Id,
             Goes(faults, faults', bound.faults), NEW r, run' = [run EXCEPT ![j] = r],
             r.at # "gate"
      PROVE  CountsGo
    <2>1. ASSUME NEW i \in Id PROVE CountGoes(i)
        <3>1. run'[i].at = "gate" => run[i].at = "gate"
            BY <1>1, <1>5
        <3> QED BY <1>2, <1>5, <3>1, RestGoes
    <2> QED BY <1>2, <1>5, <2>1 DEF CountsGo, Goes
<1>6. CASE Work(j)
    <2>1. PICK ok \in BOOLEAN, quiet \in BOOLEAN :
              run' = [run EXCEPT ![j].at = IF quiet THEN "finish" ELSE "notify",
                  ![j].err = CASE ok -> "nil" [] quiet -> "plain" [] OTHER -> "task"]
        BY <1>6 DEF Work
    <2> DEFINE e == CASE ok -> "nil" [] quiet -> "plain" [] OTHER -> "task"
               a == IF quiet THEN "finish" ELSE "notify"
    <2>2. UNCHANGED <<executed, runs, faults>> /\ delivered' \subseteq Id
        BY <1>6 DEF Work, runOnly
    <2>3. \A i \in Id : run'[i].at = "gate" => run[i].at = "gate"
        <3>1. a # "gate"
            OBVIOUS
        <3>2. run' = [run EXCEPT ![j].at = a, ![j].err = e]
            BY <2>1
        <3> HIDE DEF a, e
        <3> QED BY <1>1, <3>1, <3>2 DEF Run
    <2>4. \A i \in Id : CountGoes(i)
        BY <1>2, <2>2, <2>3, RestGoes
    <2> QED BY <1>2, <2>2, <2>4 DEF CountsGo, Goes
<1>7. CASE Notify(j)
    <2>1. UNCHANGED <<executed, runs, faults, delivered>>
        BY <1>7 DEF Notify, runOnly
    <2>2. PICK e : run' = [run EXCEPT ![j].at = "finish", ![j].err = e]
        BY <1>7 DEF Notify
    <2>3. \A i \in Id : run'[i].at = "gate" => run[i].at = "gate"
        BY <1>1, <2>2 DEF Run
    <2>4. \A i \in Id : CountGoes(i)
        BY <1>2, <2>1, <2>3, RestGoes
    <2> QED BY <1>2, <2>1, <2>4 DEF CountsGo, Goes
<1>8. CASE EngineFinish(j)
    <2>1. UNCHANGED <<executed, runs, faults, delivered>>
          /\ run' = [run EXCEPT ![j].at = "record"]
        BY <1>8 DEF EngineFinish, runOnly
    <2>2. \A i \in Id : run'[i].at = "gate" => run[i].at = "gate"
        BY <1>1, <2>1 DEF Run
    <2>3. \A i \in Id : CountGoes(i)
        BY <1>2, <2>1, <2>2, RestGoes
    <2> QED BY <1>2, <2>1, <2>3 DEF CountsGo, Goes
<1>9. CASE RecordRun(j)
    <2>1. UNCHANGED <<executed, runs, faults, delivered>> /\ run' = [run EXCEPT ![j].at = "save"]
        BY <1>9 DEF RecordRun
    <2>2. \A i \in Id : run'[i].at = "gate" => run[i].at = "gate"
        BY <1>1, <2>1 DEF Run
    <2>3. \A i \in Id : CountGoes(i)
        BY <1>2, <2>1, <2>2, RestGoes
    <2> QED BY <1>2, <2>1, <2>3 DEF CountsGo, Goes
<1>10. CASE SaveRun(j)
    <2>1. UNCHANGED <<executed, runs, delivered>> /\ run' = [run EXCEPT ![j] = NoRun]
        BY <1>10 DEF SaveRun
    <2>2. Goes(faults, faults', bound.faults)
        BY <1>10, SavesGo DEF SaveRun
    <2>3. NoRun.at = "none"
        BY DEF NoRun
    <2> QED BY <1>5, <2>1, <2>2, <2>3
<1> QED BY <1>3, <1>4, <1>6, <1>7, <1>8, <1>9, <1>10 DEF CronRun

\* The counts stay within the bounds.
LEMMA CountsInvariant == CronSpec => []CronCounts
<1>1. ASSUME CronAssumption, CronInit PROVE CronCounts
    <2>1. bound \in [requests: Nat, runs: Nat, faults: Nat, crashes: Nat]
        BY <1>1 DEF CronAssumption, CronInit
    <2>2. /\ bound.requests \in Nat /\ bound.runs \in Nat /\ bound.faults \in Nat
          /\ bound.crashes \in Nat
        BY <2>1
    <2>3. \A j \in Id : resumed[j] = 0 /\ executed[j] = 0 /\ Waiting(run[j]) = 0
        BY <1>1 DEF CronInit, Waiting, NoRun
    <2> QED BY <1>1, <2>2, <2>3 DEF CronInit, CronCounts
<1>2. ASSUME CronAssumption, CronInv, CronInv', CronCounts, [CronNext]_cronVars PROVE CronCounts'
    <2>1. RestTyped /\ RestTyped'
        BY <1>2 DEF CronInv, EngineInv
    <2>2. CASE UNCHANGED cronVars
        BY <1>2, <2>2 DEF cronVars, CronCounts, Waiting
    <2>3. ASSUME CountsGo, bound' = bound PROVE CronCounts'
        BY <1>2, <2>1, <2>3, CountsGoOn DEF CountsGo
    <2>4. CASE Restart
        <3>1. /\ crashes < bound.crashes /\ crashes' = crashes + 1 /\ engineOn' \in BOOLEAN
              /\ run' = [j \in Id |-> NoRun]
              /\ UNCHANGED <<faults, runs, requests, executed, delivered, resumed>>
            BY <2>4 DEF Restart
        <3>2. \A j \in Id : run'[j].at = "none"
            BY <3>1 DEF NoRun
        <3>3. \A j \in Id : CountGoes(j)
            BY <3>1, <3>2, RestGoes
        <3>4. CountsGo
            BY <1>2, <3>1, <3>3 DEF CountsGo, Goes, CronCounts
        <3>5. bound' = bound
            BY <1>2 DEF CronNext, cronVars
        <3> QED BY <2>3, <3>4, <3>5
    <2>5. ASSUME CronNext PROVE CronCounts'
        <3>1. bound' = bound
            BY <2>5 DEF CronNext
        <3> QED BY <1>2, <2>1, <2>3, <2>4, <2>5, <3>1, RequestsGo, RunsGo DEF CronNext
    <2> QED BY <1>2, <2>2, <2>5
<1>3. CronSpec => []CronInv
    BY CronInvariant
<1> QED BY <1>1, <1>2, <1>3, CronAssumption, PTL DEF CronSpec

\* Every variable keeps its type, and every count the bound of the behaviour.
THEOREM CronTypeCorrect == CronSpec => []CronTypeOK
<1>1. ASSUME CronAssumption, CronInv, CronCounts PROVE CronTypeOK
    <2>1. /\ bound.requests \in Nat /\ bound.runs \in Nat /\ bound.faults \in Nat
          /\ bound.crashes \in Nat
        <3>1. bound \in [requests: Nat, runs: Nat, faults: Nat, crashes: Nat]
            BY <1>1 DEF CronAssumption, CronCounts
        <3> QED BY <3>1
    <2>2. /\ DOMAIN jobs \subseteq Id /\ \A j \in DOMAIN jobs : jobs[j] \in Job
          /\ DOMAIN store \subseteq Id /\ \A j \in DOMAIN store : store[j] \in Job
        BY <1>1 DEF CronInv, EngineInv, StoreInv, JobsTyped, StoreTyped
    <2>3. RestTyped
        BY <1>1 DEF CronInv, EngineInv
    <2>4. faults \in 0..bound.faults /\ crashes \in 0..bound.crashes
        BY <1>1, <2>1, <2>3 DEF RestTyped, CronCounts
    <2>5. ASSUME NEW j \in Id
          PROVE  executed[j] \in 0..bound.runs /\ resumed[j] \in 0..bound.requests
        <3>1. resumed[j] <= requests /\ executed[j] + Waiting(run[j]) <= runs
            BY <1>1 DEF CronCounts
        <3>2. resumed[j] \in Nat /\ executed[j] \in Nat /\ Waiting(run[j]) \in {0, 1}
            BY <2>3 DEF RestTyped, Waiting
        <3>3. requests \in 0..bound.requests /\ runs \in 0..bound.runs
            BY <1>1 DEF CronCounts
        <3> DEFINE w == Waiting(run[j])
        <3> HIDE DEF w
        <3>4. executed[j] + w <= runs /\ w \in {0, 1}
            BY <3>1, <3>2 DEF w
        <3> QED BY <2>1, <3>1, <3>2, <3>3, <3>4
    <2>6. executed \in [Id -> 0..bound.runs] /\ resumed \in [Id -> 0..bound.requests]
        BY <2>3, <2>5 DEF RestTyped
    <2> QED BY <1>1, <2>2, <2>3, <2>4, <2>6 DEF CronTypeOK, RestTyped, CronCounts
<1> QED BY <1>1, CronAssumption, CronInvariant, CountsInvariant, PTL
=============================================================================
