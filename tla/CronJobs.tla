------------------------------ MODULE CronJobs ------------------------------
(***************************************************************************)
(* Scheduled jobs: adding one over HTTP or with the cron tool, pausing,    *)
(* resuming, removing and archiving it, its runs, the classification of    *)
(* their errors, and the store a restart reads.  The scheduler itself (the *)
(* cron engine and its store) is a library: what it does is taken from how *)
(* this code uses it.                                                      *)
(*                                                                         *)
(* src/agent/cron_http.go, cron_tools.go, cron_identity.go,                *)
(* cron_task_runtime.go                                                    *)
(***************************************************************************)
EXTENDS Integers, FiniteSets, Functions

CONSTANTS
    Id,             \* identities a caller may ask for
    Key,            \* intent keys (cronIntentKey, or the caller's own)
    Caller,         \* concurrent requests that change jobs
    NoKey,          \* a job whose metadata has no intent key yet
    RetryLimit,     \* cronOneShotRetryLimit
    Bounds          \* bounds, as records: of requests accepted, runs started,
                    \* saves that fail and restarts; one holds in a behaviour

\* The tool names a job after its key (cronToolID), so it can tell keys apart.
ASSUME CronAssumption ==
    /\ RetryLimit \in Nat \ {0}
    /\ Bounds \subseteq [requests: Nat, runs: Nat, faults: Nat, crashes: Nat]
    /\ Key # {} /\ NoKey \notin Key /\ "open" \notin Caller
    /\ \E f \in [Key -> Id] : IsInjective(f)

VARIABLES
    jobs,           \* the engine's jobs, with the metadata map they share
    store,          \* what cronStore holds
    engineOn,       \* the engine is running
    request,        \* where each caller's request stands
    run,            \* where each job's current run stands
    bound,          \* the member of Bounds that holds
    faults, crashes, requests, runs,
    executed,       \* history: commands executed since the job was added
    delivered,      \* history: jobs whose command has succeeded
    resumed,        \* history: successful resumes since the job was added
    kept,           \* history: jobs that have been in the store
    orphaned,       \* history: jobs a failed add took back from the engine although
                    \* another save had stored them, until the next save
    contended,      \* history: keys two overlapping adds have asked for
    unsaved         \* history: the last save of the store failed

cronVars == <<jobs, store, engineOn, request, run, bound, faults, crashes,
              requests, runs, executed, delivered, resumed, kept, orphaned, contended, unsaved>>

\* The schedule the engine goes by, and the kind cronScheduleKind sees: what the
\* caller's metadata say, or else what the schedule is.
Schedule == {"once", "interval"}
Kind == {"one_shot", "recurring"}
KindOf(schedule) == IF schedule = "once" THEN "one_shot" ELSE "recurring"
ErrorClass == {"none", "command", "delivery", "exhausted"}

\* gate: the add whose return preparedTask waits for.
Job == [status: {"idle", "running", "paused", "failed", "done"}, schedule: Schedule,
        kind: Kind, due: BOOLEAN, key: Key \cup {NoKey}, archived: BOOLEAN,
        retries: Nat, class: ErrorClass, once: BOOLEAN,
        gate: Caller \cup {"open"}]

\* What a run's task function returns: no error, a cronTaskError, that joined
\* with a cronDeliveryError, a cronDeliveryError alone, or an untyped error.
RunError == {"nil", "task", "both", "delivery", "plain"}

Run == [at: {"none", "gate", "work", "notify", "finish", "record", "save"},
        err: RunError, own: BOOLEAN]
NoRun == [at |-> "none", err |-> "nil", own |-> TRUE]

Request == [at: {"idle", "add", "flag", "save", "undo", "start", "fill", "commit", "store"},
            id: Id, key: Key, schedule: Schedule, kind: Kind, once: BOOLEAN]

IdleRequest ==
    [at |-> "idle", id |-> CHOOSE j \in Id : TRUE,
     key |-> CHOOSE k \in Key : TRUE, schedule |-> "interval", kind |-> "recurring",
     once |-> FALSE]

CronTypeOK ==
    /\ DOMAIN jobs \subseteq Id /\ \A j \in DOMAIN jobs : jobs[j] \in Job
    /\ DOMAIN store \subseteq Id /\ \A j \in DOMAIN store : store[j] \in Job
    /\ engineOn \in BOOLEAN
    /\ request \in [Caller -> Request]
    /\ run \in [Id -> Run]
    /\ bound \in Bounds
    /\ faults \in 0..bound.faults /\ crashes \in 0..bound.crashes
    /\ requests \in 0..bound.requests /\ runs \in 0..bound.runs
    /\ executed \in [Id -> 0..bound.runs]
    /\ delivered \subseteq Id
    /\ resumed \in [Id -> 0..bound.requests]
    /\ kept \subseteq Id /\ orphaned \subseteq Id
    /\ contended \subseteq Key
    /\ unsaved \in BOOLEAN

Without(f, j) == Restrict(f, DOMAIN f \ {j})
With(f, j, v) == [i \in DOMAIN f \cup {j} |-> IF i = j THEN v ELSE f[i]]

CronInit ==
    /\ jobs = << >> /\ store = << >>
    /\ engineOn \in BOOLEAN
    /\ request = [c \in Caller |-> IdleRequest]
    /\ run = [j \in Id |-> NoRun]
    /\ bound \in Bounds
    /\ faults = 0 /\ crashes = 0 /\ requests = 0 /\ runs = 0
    /\ executed = [j \in Id |-> 0]
    /\ delivered = {} /\ resumed = [j \in Id |-> 0]
    /\ kept = {} /\ orphaned = {} /\ contended = {} /\ unsaved = FALSE

-----------------------------------------------------------------------------
(* The store.                                                              *)

\* saveCronJobs writes all the engine's jobs, or fails and leaves the store.
Saves(ok, js) ==
    IF ok THEN /\ store' = js
               /\ kept' = kept \cup DOMAIN js
               /\ unsaved' = FALSE /\ orphaned' = {}
               /\ UNCHANGED faults
          ELSE /\ faults < bound.faults
               /\ faults' = faults + 1
               /\ unsaved' = TRUE
               /\ UNCHANGED <<store, kept, orphaned>>

\* findCronJobByIntent: a job that is not archived and shares the key.
FindByIntent(js, k) == {j \in DOMAIN js : ~js[j].archived /\ js[j].key = k}

\* quiescePausedCronJobs: a paused draft that runs once is not due any more.
Quiesce(js) ==
    [j \in DOMAIN js |->
        IF js[j].status = "paused" /\ js[j].kind = "one_shot"
        THEN [js[j] EXCEPT !.due = FALSE] ELSE js[j]]

\* cronStore.Load with rebuildCronTask: the task is built anew and has no
\* gate; a run the crash cut short is due again; a paused job that was due is
\* scheduled again, which quiescePausedCronJobs takes back.
RestoredJobs(js) ==
    Quiesce([j \in DOMAIN js |->
        [js[j] EXCEPT !.gate = "open",
                      !.due = @ \/ js[j].status = "running",
                      !.status = IF @ = "running" THEN "idle" ELSE @]])

-----------------------------------------------------------------------------
(* AddCronJob, and the cron tool's add.                                    *)

Busy(c) == request[c].at # "idle"
Goto(c, at) == request' = [request EXCEPT ![c].at = at]
Return(c) == request' = [request EXCEPT ![c] = IdleRequest]

\* Overlapping with another add of the same key is what can make two jobs of one
\* intent.
Adds(c) == request[c].at \notin {"idle", "store"}
Contends(c, k) == \E d \in Caller \ {c} : Adds(d) /\ request[d].key = k

\* Faulty: a job that is done does not count as one of its intent.
AskPastFinished(c, r) ==
    /\ ~Busy(c) /\ requests < bound.requests
    /\ \A j \in FindByIntent(jobs, r.key) : jobs[j].status = "done"
    /\ request' = [request EXCEPT ![c] = r]
    /\ requests' = requests + 1
    /\ contended' = IF Contends(c, r.key) THEN contended \cup {r.key} ELSE contended
    /\ UNCHANGED <<jobs, store, engineOn, run, faults, crashes, runs, executed,
                   delivered, resumed, kept, orphaned, unsaved>>

\* The intent is looked up: an existing job is returned, and nothing changes.
Ask(c, r) ==
    /\ ~Busy(c) /\ requests < bound.requests
    /\ FindByIntent(jobs, r.key) = {}
    /\ request' = [request EXCEPT ![c] = r]
    /\ requests' = requests + 1
    /\ contended' = IF Contends(c, r.key) THEN contended \cup {r.key} ELSE contended
    /\ UNCHANGED <<jobs, store, engineOn, run, faults, crashes, runs, executed,
                   delivered, resumed, kept, orphaned, unsaved>>

AddCronJob(c) ==
    \E r \in Request : r.at = "add" /\ Ask(c, r)

NewJob(key, schedule, kind, gate) ==
    [status |-> "idle", schedule |-> schedule, kind |-> kind, due |-> TRUE, key |-> key,
     archived |-> FALSE, retries |-> 0, class |-> "none", once |-> FALSE, gate |-> gate]

\* What the histories forget when a job of this identity is made anew.
Renew(j) ==
    /\ executed' = [executed EXCEPT ![j] = 0]
    /\ delivered' = delivered \ {j}
    /\ resumed' = [resumed EXCEPT ![j] = 0]

\* engine.AddJobWithMeta refuses an identity that is in use.
AddInsert(c) ==
    LET r == request[c] IN
    /\ r.at = "add"
    /\ IF r.id \in DOMAIN jobs
       THEN /\ Return(c)
            /\ UNCHANGED <<jobs, executed, delivered, resumed, kept>>
       ELSE /\ jobs' = With(jobs, r.id, NewJob(r.key, r.schedule, r.kind, c))
            /\ Renew(r.id)
            /\ kept' = kept \ {r.id}
            /\ Goto(c, IF r.once THEN "flag" ELSE "save")
    /\ UNCHANGED <<store, engineOn, run, faults, crashes, runs, requests, orphaned, contended,
                   unsaved>>

\* SetDeleteAfterRun fails when another request removed the job meanwhile.
AddFlag(c) ==
    LET j == request[c].id IN
    /\ request[c].at = "flag"
    /\ IF j \in DOMAIN jobs
       THEN jobs' = [jobs EXCEPT ![j].once = TRUE] /\ Goto(c, "save")
       ELSE Goto(c, "undo") /\ UNCHANGED jobs
    /\ UNCHANGED <<store, engineOn, run, faults, crashes, runs, requests, executed,
                   delivered, resumed, kept, orphaned, contended, unsaved>>

AddSave(c) ==
    /\ request[c].at = "save"
    /\ \E ok \in BOOLEAN : Saves(ok, jobs) /\ Goto(c, IF ok THEN "start" ELSE "undo")
    /\ UNCHANGED <<jobs, engineOn, run, crashes, runs, requests, executed, delivered,
                   resumed, contended>>

\* After a failed step the job is removed, without a save, and the deferred close
\* lets a task that waits for this add see setupErr.  Others may have saved since,
\* and RemoveJob takes whatever has the identity now.
AddUndo(c) ==
    LET j == request[c].id
        theirs == run[j].own /\ j \in DOMAIN jobs /\ jobs[j].gate # c
    IN  /\ request[c].at = "undo"
        /\ jobs' = Without(jobs, j)
        /\ run' = [run EXCEPT ![j] =
                      IF @.at = "gate" /\ ~theirs
                      THEN [at |-> "finish", err |-> "plain", own |-> FALSE]
                      ELSE [@ EXCEPT !.own = FALSE]]
        /\ orphaned' = IF j \in DOMAIN jobs /\ j \in DOMAIN store
                       THEN orphaned \cup {j} ELSE orphaned
        /\ Return(c)
        /\ UNCHANGED <<store, engineOn, faults, crashes, runs, requests, executed,
                       delivered, resumed, kept, contended, unsaved>>

\* The engine starts if it does not run, and returning opens the gate.
AddStart(c) ==
    LET j == request[c].id IN
    /\ request[c].at = "start"
    /\ engineOn' = TRUE
    /\ jobs' = IF j \in DOMAIN jobs /\ jobs[j].gate = c
              THEN [jobs EXCEPT ![j].gate = "open"] ELSE jobs
    /\ Return(c)
    /\ UNCHANGED <<store, run, faults, crashes, runs, requests, executed, delivered,
                   resumed, kept, orphaned, contended, unsaved>>

\* handleCronToolAdd.  Without an identity of its own the job is named after
\* the key, so two adds of one intent ask for the same job.
ToolId == CHOOSE f \in [Key -> Id] : IsInjective(f)

ToolAdd(c) ==
    \E r \in Request : r.at = "fill" /\ r.id = ToolId[r.key] /\ ~r.once /\ Ask(c, r)

\* base(args): the tool package adds and saves the job; its metadata has no
\* key of ours yet.  A job of that name, archived or not, refuses it.
ToolInsert(c) ==
    LET r == request[c] IN
    /\ r.at = "fill"
    /\ IF r.id \in DOMAIN jobs
       THEN /\ Return(c)
            /\ UNCHANGED <<jobs, store, faults, executed, delivered, resumed, kept, orphaned,
                           unsaved>>
       ELSE /\ jobs' = With(jobs, r.id, NewJob(NoKey, r.schedule, KindOf(r.schedule), "open"))
            /\ Renew(r.id)
            /\ Saves(TRUE, jobs')
            /\ Goto(c, "commit")
    /\ UNCHANGED <<engineOn, run, crashes, runs, requests, contended>>

\* The missing metadata is filled in; the error of the save that follows is dropped.
ToolFill(c) ==
    LET j == request[c].id IN
    /\ request[c].at = "commit" /\ request[c].id \in DOMAIN jobs
    /\ jobs' = IF jobs[j].key # NoKey THEN jobs
               ELSE [jobs EXCEPT ![j].key = request[c].key, ![j].kind = request[c].kind]
    /\ request' = [request EXCEPT ![c] = [IdleRequest EXCEPT !.at = "store"]]
    /\ UNCHANGED <<store, engineOn, run, faults, crashes, runs, requests, executed, delivered,
                   resumed, kept, orphaned, contended, unsaved>>

ToolGone(c) ==
    /\ request[c].at = "commit" /\ request[c].id \notin DOMAIN jobs
    /\ Return(c)
    /\ UNCHANGED <<jobs, store, engineOn, run, faults, crashes, runs, requests, executed,
                   delivered, resumed, kept, orphaned, contended, unsaved>>

-----------------------------------------------------------------------------
(* mutateCronJob: the engine changes first, the store after it, and no lock *)
(* spans the two.  A save that fails is reported and leaves them apart.    *)

Mutate(c, js) ==
    /\ ~Busy(c) /\ requests < bound.requests
    /\ requests' = requests + 1
    /\ jobs' = js
    /\ request' = [request EXCEPT ![c] = [IdleRequest EXCEPT !.at = "store"]]
    /\ UNCHANGED <<store, engineOn, faults, crashes, runs, kept, orphaned, contended, unsaved>>

\* The save after it, of the jobs as they are by then.
SaveChange(c) ==
    /\ request[c].at = "store"
    /\ \E ok \in BOOLEAN : Saves(ok, jobs)
    /\ Return(c)
    /\ UNCHANGED <<jobs, engineOn, run, crashes, runs, requests, executed, delivered,
                   resumed, contended>>

\* The engine is taken to refuse the pause of a job while it runs.
PauseCronJob(c) ==
    \E j \in DOMAIN jobs :
        /\ jobs[j].status \in {"idle", "failed", "done"}
        /\ Mutate(c, Quiesce([jobs EXCEPT ![j].status = "paused"]))
        /\ UNCHANGED <<run, executed, delivered, resumed>>

\* A job that is to run once is due again only if its time has not passed.
ResumeCronJob(c) ==
    \E j \in DOMAIN jobs, due \in BOOLEAN :
        /\ jobs[j].status = "paused"
        /\ jobs[j].schedule = "interval" => due
        /\ Mutate(c, [jobs EXCEPT ![j].status = "idle", ![j].due = due])
        /\ resumed' = [resumed EXCEPT ![j] = @ + 1]
        /\ UNCHANGED <<run, executed, delivered>>

\* A run that is under way goes on without its job.
RemoveCronJob(c) ==
    \E j \in DOMAIN jobs :
        /\ Mutate(c, Without(jobs, j))
        /\ run' = [run EXCEPT ![j].own = FALSE]
        /\ UNCHANGED <<executed, delivered, resumed>>

\* archiveCronIntent marks every job of the key, whatever its state.
ArchiveIntent(c) ==
    \E k \in Key :
        /\ FindByIntent(jobs, k) # {}
        /\ Mutate(c, [j \in DOMAIN jobs |->
                         IF j \in FindByIntent(jobs, k)
                         THEN [jobs[j] EXCEPT !.archived = TRUE] ELSE jobs[j]])
        /\ UNCHANGED <<run, executed, delivered, resumed>>

-----------------------------------------------------------------------------
(* A run: cronTaskRuntime.buildTask, then the engine's event handler.      *)

runOnly == <<store, engineOn, request, faults, crashes, requests, resumed,
             kept, orphaned, contended, unsaved>>

StartRun(j) ==
    /\ engineOn /\ j \in DOMAIN jobs /\ run[j].at = "none"
    /\ jobs[j].due /\ jobs[j].status \notin {"paused", "running"}
    /\ jobs' = [jobs EXCEPT ![j].status = "running", ![j].due = FALSE]
    /\ run' = [run EXCEPT ![j] = [at |-> "gate", err |-> "nil", own |-> TRUE]]
    /\ runs < bound.runs /\ runs' = runs + 1
    /\ UNCHANGED <<executed, delivered>> /\ UNCHANGED runOnly

\* Faulty: the task does not wait for the add.
PassUngated(j) ==
    /\ run[j].at = "gate" /\ run' = [run EXCEPT ![j].at = "work"]
    /\ executed' = IF run[j].own THEN [executed EXCEPT ![j] = @ + 1] ELSE executed
    /\ UNCHANGED <<jobs, delivered, runs>> /\ UNCHANGED runOnly

\* preparedTask waits until the add has returned, also when another request
\* removed the job meanwhile.
PassGate(j) ==
    /\ run[j].at = "gate"
    /\ IF run[j].own THEN jobs[j].gate = "open"
       ELSE \A c \in Caller : request[c].at \in {"flag", "save", "undo", "start"} =>
                                  request[c].id # j
    /\ run' = [run EXCEPT ![j].at = "work"]
    /\ executed' = IF run[j].own THEN [executed EXCEPT ![j] = @ + 1] ELSE executed
    /\ UNCHANGED <<jobs, delivered, runs>> /\ UNCHANGED runOnly

\* combineCronTaskAndNotificationError joins a task's error with the delivery's;
\* after a success the delivery's error is only wrapped.
TaskError(ok, sent) ==
    CASE ok /\ sent -> "nil" [] ok -> "plain" [] sent -> "task" [] OTHER -> "both"

\* The agent turn or the shell command.  A success without output tells
\* nobody; an untyped error is a gateway that is not there.
Work(j) ==
    /\ run[j].at = "work"
    /\ \E ok, quiet \in BOOLEAN :
        /\ run' = [run EXCEPT ![j].at = IF quiet THEN "finish" ELSE "notify",
                              ![j].err = CASE ok -> "nil" [] quiet -> "plain" [] OTHER -> "task"]
        /\ delivered' = IF ok /\ run[j].own THEN delivered \cup {j} ELSE delivered
    /\ UNCHANGED <<jobs, executed, runs>> /\ UNCHANGED runOnly

\* Faulty: what could not be told is tried again at once, command and all.
NotifyAgain(j) ==
    /\ run[j].at = "notify"
    /\ \E sent \in BOOLEAN :
        run' = [run EXCEPT ![j].at = IF sent THEN "finish" ELSE "gate",
                           ![j].err = TaskError(run[j].err = "nil", sent)]
    /\ UNCHANGED <<jobs, executed, delivered, runs>> /\ UNCHANGED runOnly

\* sendCronNotification: the job's session, the chat it names or the latest
\* one.  Nobody to tell is no error; a session that is gone or not saved, a
\* gateway that does not run and a message it refuses are.
Notify(j) ==
    /\ run[j].at = "notify"
    /\ \E to \in {"session", "chat", "nobody"}, sent \in BOOLEAN :
        /\ to = "nobody" => sent
        /\ run' = [run EXCEPT ![j].at = "finish",
                              ![j].err = TaskError(run[j].err = "nil", sent)]
    /\ UNCHANGED <<jobs, executed, delivered, runs>> /\ UNCHANGED runOnly

\* The engine stores the outcome and the next run, then emits the event.  A
\* job that was to be deleted after its run is gone when it succeeded.
EngineFinish(j) ==
    LET ok == run[j].err = "nil"
        job == jobs[j]
    IN  /\ run[j].at = "finish"
        /\ run' = [run EXCEPT ![j].at = "record"]
        /\ jobs' = IF ~run[j].own THEN jobs
                   ELSE IF ok /\ job.once THEN Without(jobs, j)
                   ELSE [jobs EXCEPT
                           ![j].status = IF ~ok THEN "failed"
                                         ELSE IF job.schedule = "once" THEN "done" ELSE "idle",
                           ![j].due = (job.schedule = "interval")]
        /\ UNCHANGED <<executed, delivered, runs>> /\ UNCHANGED runOnly

\* classifyCronRunError goes by the type of the error.
Classify(err) ==
    CASE err = "nil" -> "none"
      [] err = "delivery" -> "delivery"
      [] OTHER -> "command"

\* cronStateClearingTaskFailure: the command finished; a one-shot job ends.
ClearTaskFailure(job) ==
    [job EXCEPT !.class = "delivery", !.retries = 0,
        !.status = IF job.kind = "one_shot" \/ ~job.due THEN "done" ELSE "idle",
        !.due = @ /\ job.kind # "one_shot"]

\* A failed one-shot job is tried again later until its retries are used up.
CountFailure(job) ==
    LET n == job.retries + 1
        exhausted == job.kind = "one_shot" /\ n >= RetryLimit
    IN  [job EXCEPT !.retries = n,
            !.class = IF exhausted THEN "exhausted" ELSE "command",
            !.status = IF job.kind # "one_shot" THEN @
                       ELSE IF exhausted THEN "failed" ELSE "idle",
            !.due = IF job.kind # "one_shot" THEN @ ELSE ~exhausted]

\* recordCronRun.
Recorded(job, err) ==
    CASE Classify(err) = "delivery" -> ClearTaskFailure(job)
      [] Classify(err) = "none" -> [job EXCEPT !.class = "none", !.retries = 0]
      [] OTHER -> CountFailure(job)

\* Faulty: a run that is recorded is not saved.
RecordUnsaved(j) ==
    /\ run[j].at = "record"
    /\ jobs' = IF j \in DOMAIN jobs THEN [jobs EXCEPT ![j] = Recorded(@, run[j].err)]
               ELSE jobs
    /\ run' = [run EXCEPT ![j] = NoRun]
    /\ UNCHANGED <<store, engineOn, request, faults, crashes, runs, requests, executed,
                   delivered, resumed, kept, orphaned, contended, unsaved>>

\* The event handler looks the job up by its identity and records the run in it.
RecordRun(j) ==
    /\ run[j].at = "record"
    /\ jobs' = IF j \in DOMAIN jobs THEN [jobs EXCEPT ![j] = Recorded(@, run[j].err)]
               ELSE jobs
    /\ run' = [run EXCEPT ![j].at = "save"]
    /\ UNCHANGED <<store, engineOn, request, faults, crashes, runs, requests, executed,
                   delivered, resumed, kept, orphaned, contended, unsaved>>

\* Then it saves; the error is printed.
SaveRun(j) ==
    /\ run[j].at = "save"
    /\ run' = [run EXCEPT ![j] = NoRun]
    /\ \E ok \in BOOLEAN : Saves(ok, jobs)
    /\ UNCHANGED <<jobs, engineOn, request, crashes, runs, requests, executed, delivered,
                   resumed, contended>>

-----------------------------------------------------------------------------
\* The process ends and restoreCronJobs reads the store; the host decides
\* whether the engine starts.
Restart ==
    /\ crashes < bound.crashes
    /\ crashes' = crashes + 1
    /\ jobs' = RestoredJobs(store)
    /\ engineOn' \in BOOLEAN
    /\ request' = [c \in Caller |-> IdleRequest]
    /\ run' = [j \in Id |-> NoRun]
    /\ unsaved' = FALSE /\ orphaned' = {}
    /\ kept' = kept \cup DOMAIN store
    /\ UNCHANGED <<store, faults, runs, requests, executed, delivered, resumed, contended>>

CronRequest(c) ==
    \/ AddCronJob(c) \/ AddInsert(c) \/ AddFlag(c) \/ AddSave(c) \/ AddUndo(c) \/ AddStart(c)
    \/ ToolAdd(c) \/ ToolInsert(c) \/ ToolFill(c) \/ ToolGone(c)
    \/ PauseCronJob(c) \/ ResumeCronJob(c) \/ RemoveCronJob(c) \/ ArchiveIntent(c)
    \/ SaveChange(c)

CronRun(j) ==
    \/ StartRun(j) \/ PassGate(j) \/ Work(j) \/ Notify(j)
    \/ EngineFinish(j) \/ RecordRun(j) \/ SaveRun(j)

CronNext ==
    /\ UNCHANGED bound
    /\ \/ \E c \in Caller : CronRequest(c)
       \/ \E j \in Id : CronRun(j)
       \/ Restart

CronSpec == CronInit /\ [][CronNext]_cronVars

-----------------------------------------------------------------------------
(* Properties.                                                             *)

\* The command of a job that AddCronJob makes is not executed before the job
\* has been saved: an immediately due job waits until the add has finished
\* (cron_http.go, the gate of preparedTask), and one whose save failed never
\* runs.
RunsOnlySavedJobs ==
    \A j \in Id : run[j].at = "work" /\ run[j].own => j \in kept

\* A job whose schedule is for once does not run for ever, whatever kind its
\* metadata call it.  Its command is executed at most as often as the retry limit
\* allows, once more for each restart and each save that was lost, and at most as
\* often again each time somebody resumed it: a success has set its retries to zero
\* (recordCronRun).  A job that is only called one_shot is not bounded: its
\* interval schedules it again after every success.
OneShotRunsBounded ==
    \A j \in DOMAIN jobs :
        jobs[j].schedule = "once" =>
            executed[j] <= RetryLimit * (1 + resumed[j]) + crashes + faults

\* Adds that do not overlap never make two jobs of one intent: the lookup by
\* key sees what an earlier add made, over HTTP or with the tool, also after a
\* restart (findCronJobByIntent).
DuplicatesNeedOverlap ==
    \A k \in Key \ contended : Cardinality(FindByIntent(jobs, k)) <= 1

\* Whenever no request and no run is under way, a restart would find the jobs as
\* they are, but for the next run of a paused draft, which it clears.  A change and
\* the save after it are two calls, and others change and save in between.
\* Excepted are the times when the last save failed, and when a failed add took a
\* job back that another save had stored (cron_http.go, RemoveJob without a save).
QuiescentIsSaved ==
    /\ \A c \in Caller : ~Busy(c)
    /\ \A j \in Id : run[j].at = "none"
    /\ ~unsaved /\ orphaned = {}
    => Quiesce(jobs) = RestoredJobs(store)

\* A one-shot job whose command succeeded is not executed again: "One-shot
\* jobs still end; they do not gain another run because the gateway was
\* missing" (cron_tools.go:205-206).
SucceededIsNotRerun ==
    \A j \in DOMAIN jobs :
        jobs[j].schedule = "once" /\ j \in delivered => ~(run[j].at = "gate" /\ run[j].own)
=============================================================================
