----------------------------- MODULE DurableTask -----------------------------
(***************************************************************************)
(* One durable task from its first slice to its end: runForeground,        *)
(* runForegroundTask, runDurableLoop and executeDurablePending of          *)
(* agent/foreground.go and agent/durable_loop.go, with the crashes,        *)
(* cancellations and failed writes between any two of their steps.         *)
(*                                                                         *)
(* Three things outlive the process: the task record (state and budget),   *)
(* the ledger of tool operations, and the checkpoint.  The ledger is       *)
(* written before a tool runs (BeginOperation) and after it returned       *)
(* (FinishOperation); the checkpoint after every transition of the loop.   *)
(* A save appends up to three lines (messages, pending calls, the rest), so *)
(* a failure or a crash inside it keeps the first of them.  What one line   *)
(* goes through is CheckpointJournal's subject; here a kept line stays.     *)
(* The queue (autonomy.TaskQueue) is a library: its operations are         *)
(* modelled as this code uses them.                                        *)
(***************************************************************************)
EXTENDS Integers, Sequences, FiniteSets

CONSTANTS
    Call,            \* tool calls: a name with its arguments
    ReplaySafe,      \* durableReplaySafeCall holds: an inspection without effects
    Converging,      \* durableRepeatCanConverge may hold: parallel safe, not shell aware
    Mutating,        \* calls that change something outside (a memory write, an HTTP POST)
    Result,          \* what a tool may return
    Failure,         \* the results that report an error
    None,            \* no result, or no call, recorded yet
    Foreground,      \* cfg.Foreground: bound to a user turn; FALSE for autonomy workers
    HasCriteria,     \* the task has acceptance criteria
    Gated,           \* a memory tool gate applies to the request
    MaxIterations,   \* cfg.MaxIterations, loop steps of one slice
    RepeatLimit,     \* cfg.RepeatToolCallLimit
    MaxSlices,       \* policy.MaxSlices, slices of one budget
    MaxRetries,      \* policy.MaxRetries, failed slices of one budget
    MaxBatch,        \* bound: batches of tool calls the model asks for
    MaxCalls,        \* bound: calls of one batch
    MaxFaults,       \* bound: crashes, cancellations, failed writes
    MaxDecisions     \* bound: operator decisions (continue, resolve)

ASSUME TaskAssumption ==
    /\ ReplaySafe \subseteq Converging /\ Converging \subseteq Call
    /\ Mutating \subseteq Call \ ReplaySafe
    /\ Call # {} /\ Result # {} /\ Failure \subseteq Result
    /\ None \notin Result \cup Call
    /\ {Foreground, HasCriteria, Gated} \subseteq BOOLEAN
    /\ MaxIterations \in Nat /\ RepeatLimit \in Nat \ {0}
    /\ MaxSlices \in Nat /\ MaxRetries \in Nat
    /\ MaxBatch \in Nat /\ MaxCalls \in Nat
    /\ MaxFaults \in Nat /\ MaxDecisions \in Nat

\* "step-<batch>-<index>", the name of an operation.
OpId == (1 .. MaxBatch) \X (1 .. MaxCalls)

VARIABLES
    task,      \* queue record: state, slices and retries used of the budget
    ops,       \* operation ledger: OpId -> record
    saved,     \* the checkpoint a restart would load
    cp,        \* the checkpoint in the memory of the running slice
    pc,        \* where the slice is
    iter,      \* loop steps left in the slice
    got,       \* the tool result in hand, for which call, and whether it was just produced
    outcome,   \* what the slice will report to the queue
    active,    \* a runForegroundTask call owns the task
    booted,    \* the process just started: startup recovery may still run
    effects,   \* history: how often the tool of an operation really ran
    retried,   \* history: how often the operator allowed an operation to be repeated
    faults, decisions   \* counters for the bounds

slice == << cp, pc, iter, got, outcome >>
vars  == << task, ops, saved, cp, pc, iter, got, outcome,
            active, booted, effects, retried, faults, decisions >>

-----------------------------------------------------------------------------
\* The part of durableCheckpoint the control flow depends on.  `answered` and
\* `skipped` are the tool messages of the transcript; counters saturate at the
\* limit they are compared with.  `unnumbered` is history: the calls of a batch
\* were once kept without its number.
Fresh == [batch |-> 0, pending |-> << >>, candidate |-> FALSE, synthesis |-> FALSE,
          verdict |-> "none", assessed |-> {}, stalls |-> 0, noProgress |-> 0,
          digests |-> [c \in Call |-> None], repeats |-> {},
          answered |-> {}, skipped |-> {}, unnumbered |-> FALSE]

Pending    == [id : OpId, call : Call]
Verdict    == {"none", "complete", "other"}
Checkpoint == [batch : 0 .. MaxBatch, pending : Seq(Pending),
               candidate : BOOLEAN, synthesis : BOOLEAN,
               verdict : Verdict, assessed : SUBSET OpId,
               stalls : 0 .. RepeatLimit, noProgress : 0 .. RepeatLimit,
               digests : [Call -> Result \cup {None}], repeats : SUBSET Call,
               answered : SUBSET Pending, skipped : SUBSET Pending,
               unnumbered : BOOLEAN]

OpState == {"absent", "started", "retry", "completed"}
Op      == [state : OpState, call : Call \cup {None}, result : Result \cup {None}]
Answer  == [call : Call \cup {None}, result : Result \cup {None}, fresh : BOOLEAN]

NoOp     == [state |-> "absent", call |-> None, result |-> None]
NoAnswer == [call |-> None, result |-> None, fresh |-> FALSE]

Bump(n) == IF n < RepeatLimit THEN n + 1 ELSE n

\* Operations are recorded in the order their steps were named.
Before(i, j) == i[1] < j[1] \/ (i[1] = j[1] /\ i[2] < j[2])

Recorded == {i \in OpId : ops[i].state # "absent"}

\* unresolvedCompletionFailures: failed, and never repeated with success later.
UnresolvedFailures ==
    {i \in Recorded : /\ ops[i].state = "completed" /\ ops[i].result \in Failure
                      /\ ~ \E j \in Recorded : /\ Before(i, j)
                                               /\ ops[j].state = "completed"
                                               /\ ops[j].result \notin Failure
                                               /\ ops[j].call = ops[i].call}

LedgerSettled == \A i \in Recorded : ops[i].state = "completed"

\* validateCompletionProof against the failures the review assessed.
ProofHolds(assessed) == LedgerSettled /\ assessed = UnresolvedFailures

\* completeFromOperationLedger.
CompleteLedger == Recorded # {} /\ LedgerSettled /\ UnresolvedFailures = {}

-----------------------------------------------------------------------------
Init ==
    /\ task = [state |-> "ready", attempts |-> 0, retries |-> 0]
    /\ ops = [i \in OpId |-> NoOp]
    /\ saved = Fresh /\ cp = Fresh
    /\ pc = "idle" /\ iter = 0
    /\ got = NoAnswer
    /\ outcome = "none"
    /\ active = TRUE /\ booted = FALSE
    /\ effects = [i \in OpId |-> 0] /\ retried = [i \in OpId |-> 0]
    /\ faults = 0 /\ decisions = 0

world   == << task, ops, active, booted, effects, retried, decisions >>
counted == << active, booted, effects, retried, decisions >>

Fault == faults < MaxFaults /\ faults' = faults + 1

\* The slice stops and will report o to the queue.
StopWith(o) ==
    /\ pc' = "release" /\ outcome' = o
    /\ UNCHANGED << cp, iter, got >>

\* save(): the checkpoint is durable and the slice goes on at next.
Save(c, next) ==
    /\ saved' = c /\ cp' = c
    /\ pc' = next
    /\ UNCHANGED << outcome, iter, got, faults >>

\* What a restart finds of a save that stopped between its lines: the messages
\* come first, then the pending calls, then every other field.
Torn(c) ==
    LET messages == [saved EXCEPT !.answered = c.answered, !.skipped = c.skipped]
        calls    == [messages EXCEPT !.pending = c.pending,
                                     !.unnumbered = @ \/ c.batch # saved.batch]
    IN  {saved, messages, calls, c}

\* save() fails: the slice is blocked; any of its lines may be on disk already.
SaveFails(c) ==
    /\ Fault /\ StopWith("blocked")
    /\ saved' \in Torn(c)

\* The process dies: only the task record, the ledger and the checkpoint remain.
Die ==
    /\ Fault
    /\ cp' = Fresh /\ pc' = "idle" /\ iter' = 0 /\ got' = NoAnswer /\ outcome' = "none"
    /\ active' = FALSE /\ booted' = TRUE
    /\ UNCHANGED << task, ops, effects, retried, decisions >>

\* It dies inside save().
SaveDies(c) == Die /\ saved' \in Torn(c)

SaveStep(c, next) ==
    \/ (Save(c, next) \/ SaveFails(c)) /\ UNCHANGED world
    \/ SaveDies(c)

Goto(next) ==
    /\ pc' = next
    /\ UNCHANGED << cp, iter, got, outcome, saved, faults >>

Stop(o) == StopWith(o) /\ UNCHANGED << saved, faults >> /\ UNCHANGED world
FaultStop(o) == Fault /\ StopWith(o) /\ UNCHANGED saved /\ UNCHANGED world

-----------------------------------------------------------------------------
\* runForegroundTask: the slice loop.

\* ClaimTask takes the ready task and counts a slice against the budget.
ClaimSlice ==
    /\ active /\ pc = "idle" /\ task.state = "ready" /\ task.attempts < MaxSlices
    /\ task' = [task EXCEPT !.state = "in_progress", !.attempts = @ + 1]
    /\ pc' = "start" /\ iter' = MaxIterations
    /\ UNCHANGED << cp, got, outcome, ops, saved, faults, counted >>

\* The task is finished, blocked or out of budget, or the caller's context
\* ended: the call returns and releases the session.
LeaveTask ==
    /\ active /\ pc = "idle"
    /\ \/ task.state # "ready" /\ UNCHANGED faults
       \/ task.attempts >= MaxSlices /\ UNCHANGED faults
       \/ Fault
    /\ active' = FALSE
    /\ UNCHANGED << slice, task, ops, saved, booted, effects, retried, decisions >>

\* runDurableLoop's start: load, forget earlier stalls, save.
StartLoop ==
    /\ pc = "start"
    /\ SaveStep([saved EXCEPT !.stalls = 0], "loop")

\* Execution.Finish, as the queue applies each outcome.
AfterSlice(o) ==
    CASE o = "done"      -> {[task EXCEPT !.state = "done"]}
      [] o \in {"yield", "deadline"} -> {[task EXCEPT !.state =
                                IF task.attempts < MaxSlices THEN "ready" ELSE "blocked"]}
      [] o = "blocked"   -> {[task EXCEPT !.state = "blocked"]}
      [] o \in {"error", "session"} -> {IF task.retries < MaxRetries
                             THEN [task EXCEPT !.state = "ready", !.retries = @ + 1]
                             ELSE [task EXCEPT !.state = "blocked"]}
      [] o = "cancelled" -> {[task EXCEPT !.state = s] : s \in {"ready", "blocked"}}
      [] OTHER           -> {task}

\* The outcome is persisted.  A caller that was cancelled, ran into its deadline
\* or lost its session does not start another slice, nor does one whose outcome
\* could not be persisted.
ReleaseSlice ==
    /\ pc = "release" /\ pc' = "idle"
    /\ cp' = Fresh /\ iter' = 0 /\ outcome' = "none"
    /\ UNCHANGED << got, ops, saved, booted, effects, retried, decisions >>
    /\ \/ /\ task' \in AfterSlice(outcome)
          /\ active' = (outcome \notin {"cancelled", "deadline", "session", "done"})
          /\ UNCHANGED faults
       \/ /\ Fault /\ active' = FALSE /\ UNCHANGED task

-----------------------------------------------------------------------------
\* runDurableLoop: one iteration.

\* The iterations of a slice are used up, or one more starts.
OutOfIterations == pc = "loop" /\ iter = 0 /\ Stop("yield")

\* Faulty: the loop does not count its iterations.
UncountedIteration ==
    /\ pc = "loop" /\ iter > 0
    /\ pc' = "head"
    /\ UNCHANGED << cp, iter, got, outcome, saved, faults >> /\ UNCHANGED world

NextIteration ==
    /\ pc = "loop" /\ iter > 0
    /\ iter' = iter - 1 /\ pc' = "head"
    /\ UNCHANGED << cp, got, outcome, saved, faults >> /\ UNCHANGED world

\* The head of an iteration: deadline, cancellation, deleted session.
Interrupted ==
    /\ pc = "head"
    /\ \E o \in {"deadline", "cancelled", "session", "error"} : FaultStop(o)

\* A verified checkpoint finishes without the model when its proof still holds;
\* a proof the ledger no longer supports is dropped and saved as dropped.
ResumeVerified ==
    /\ pc = "head" /\ cp.verdict = "complete"
    /\ IF ProofHolds(cp.assessed)
       THEN Goto("finish") /\ UNCHANGED world
       ELSE SaveStep([cp EXCEPT !.verdict = "none", !.assessed = {}], "head")

\* Faulty: an iteration starts over although the checkpoint is verified.
UnverifiedOrNot == pc = "head"

Unverified == pc = "head" /\ cp.verdict # "complete"

RoutePending == Unverified /\ cp.pending # << >> /\ Goto("exec") /\ UNCHANGED world

RouteCandidate ==
    /\ Unverified /\ cp.pending = << >> /\ cp.candidate
    /\ Goto("review") /\ UNCHANGED world

RouteModel ==
    /\ Unverified /\ cp.pending = << >> /\ ~ cp.candidate
    /\ Goto("model") /\ UNCHANGED world

\* A batch of calls named after the next batch number.
Batches == UNION {[1 .. n -> Call] : n \in 1 .. MaxCalls}
\* Faulty: operations are named by their index in the batch alone.
NamedByIndex(b, calls) == [j \in DOMAIN calls |-> [id |-> << 1, j >>, call |-> calls[j]]]

Named(b, calls) == [j \in DOMAIN calls |-> [id |-> << b, j >>, call |-> calls[j]]]

GateApplies == Unverified /\ Gated /\ cp.pending = << >> /\ (cp.candidate \/ cp.batch > 0)

\* The memory gate still requires a live check: it adds the calls itself.
GateAsksForTools ==
    /\ GateApplies /\ cp.batch < MaxBatch
    /\ \E calls \in Batches :
          SaveStep([cp EXCEPT !.batch = @ + 1, !.candidate = FALSE,
                              !.pending = Named(cp.batch + 1, calls)], "loop")

\* Once, the memory gate asks for a synthesis of what the checks found.
GateAsksForSynthesis ==
    /\ GateApplies /\ ~ cp.synthesis
    /\ SaveStep([cp EXCEPT !.candidate = FALSE, !.synthesis = TRUE], "model")

\* The model call, or the compaction before it, fails (durableProviderError).
ProviderFails ==
    /\ pc \in {"model", "review"}
    /\ \E o \in {"yield", "deadline", "blocked", "error", "cancelled"} : FaultStop(o)

\* A reply is saved; then unusable replies end the slice, and a lack of new
\* evidence, of this reply or of an earlier one, blocks the task.
AfterReply(c) ==
    pc = "model" /\ SaveStep(c, IF c.stalls >= RepeatLimit THEN "yielding"
                               ELSE IF c.noProgress >= RepeatLimit THEN "blocking"
                               ELSE "loop")

ModelAsksForTools ==
    /\ cp.batch < MaxBatch
    /\ \E calls \in Batches :
          AfterReply([cp EXCEPT !.batch = @ + 1, !.stalls = 0,
                                !.pending = Named(cp.batch + 1, calls)])

\* An empty or truncated reply.
ModelStalls == AfterReply([cp EXCEPT !.stalls = Bump(@)])

\* The artifact guard refuses the answer.
AnswerRefused == AfterReply([cp EXCEPT !.noProgress = Bump(@)])

\* An answer becomes the candidate.
AnswerProposed == AfterReply([cp EXCEPT !.candidate = TRUE, !.stalls = 0])

\* Too many observe-only batches: the reply's calls are not taken over.
ObserveOnlyLimit == pc = "model" /\ SaveStep(cp, "blocking")

\* The loop returns right after a save.
ReturnAfterSave ==
    \/ pc = "yielding" /\ Stop("yield")
    \/ pc = "blocking" /\ Stop("blocked")

-----------------------------------------------------------------------------
\* Completion of a candidate.

Verified(assessed) == [cp EXCEPT !.verdict = "complete", !.assessed = assessed]

\* A foreground answer that needed no tool is not reviewed.
DirectResponse ==
    /\ pc = "review" /\ Foreground /\ cp.batch = 0
    /\ SaveStep(Verified({}), "finish")

\* Without criteria an autonomy task is complete when its ledger is.
LedgerShortcut ==
    /\ pc = "review" /\ ~ Foreground /\ ~ HasCriteria /\ CompleteLedger
    /\ SaveStep(Verified({}), "finish")

\* Faulty: the verifier's verdict is taken without its proof.
ReviewUnproven ==
    /\ pc = "review"
    /\ \/ SaveStep(Verified({}), "finish")
       \/ \E next \in {"more", "deny"} : SaveStep([cp EXCEPT !.verdict = "other"], next)

\* verifyDurableCandidate refuses an operation without a result.  A verdict of
\* complete covers every failure; the verifier (or a delegate still running) may
\* ask for more, or block.
Review ==
    /\ pc = "review" /\ ~ (~ Foreground /\ ~ HasCriteria /\ CompleteLedger)
    /\ IF ~ LedgerSettled THEN Stop("blocked")
       ELSE \/ SaveStep(Verified(UnresolvedFailures), "finish")
            \/ \E next \in {"more", "deny"} :
                  SaveStep([cp EXCEPT !.verdict = "other"], next)

\* The candidate is withdrawn and saved before the loop goes on or blocks.
WithdrawCandidate ==
    /\ pc \in {"more", "deny"}
    /\ SaveStep([cp EXCEPT !.candidate = FALSE, !.verdict = "none"],
                IF pc = "more" THEN "loop" ELSE "blocking")

\* finish(): nothing may be pending, and the artifact guard has the last word.
FinishLoop ==
    /\ pc = "finish"
    /\ IF cp.pending # << >> THEN Stop("blocked")
       ELSE SaveStep(cp, "finished") \/ FaultStop("blocked")

\* A result that arrives after the slice's deadline is reported as a yield.
ReportDone == pc = "finished" /\ (Stop("done") \/ FaultStop("deadline"))

-----------------------------------------------------------------------------
\* executeDurablePending: the calls of a batch, one after the other.

Current == Head(cp.pending)

\* The context ends between two calls.
ExecInterrupted ==
    /\ pc = "exec" /\ cp.pending # << >>
    /\ \E o \in {"deadline", "cancelled"} : FaultStop(o)

\* A signature that already converged is answered without running.
SkipRepeated ==
    /\ pc = "exec" /\ cp.pending # << >> /\ Current.call \in cp.repeats
    /\ SaveStep([cp EXCEPT !.pending = Tail(@), !.skipped = @ \cup {Current}], "exec")

\* BeginOperation: the intent is durable before the tool runs.
Reached(state) ==
    /\ pc = "exec" /\ cp.pending # << >> /\ Current.call \notin cp.repeats
    /\ ops[Current.id].state = state

Intended == [ops EXCEPT ![Current.id].state = "started", ![Current.id].call = Current.call]

\* Faulty: an operation that already has a result begins again.
BeginAgain ==
    /\ Reached("absent") \/ Reached("retry") \/ Reached("completed")
    /\ ops' = Intended
    /\ pc' = "began"
    /\ UNCHANGED << cp, iter, got, outcome, faults, task, saved, counted >>

BeginOperation ==
    /\ Reached("absent") \/ Reached("retry")
    /\ ops' = Intended
    /\ pc' = "began"
    /\ UNCHANGED << cp, iter, got, outcome, faults, task, saved, counted >>

\* The intent could not be persisted, or only just: the tool is not run.
BeginOperationFails ==
    /\ Reached("absent") \/ Reached("retry")
    /\ ops' \in {ops, Intended}
    /\ Fault /\ StopWith("blocked")
    /\ UNCHANGED << task, saved, counted >>

\* Faulty: every started operation is replayed.
ReplayAnyStarted == Reached("started") /\ Goto("began") /\ UNCHANGED world

\* A started operation is repeated only when repeating it is safe.
ReplayStarted ==
    /\ Reached("started") /\ Current.call \in ReplaySafe
    /\ Goto("began") /\ UNCHANGED world

RefuseAmbiguous ==
    /\ Reached("started") /\ Current.call \notin ReplaySafe
    /\ Stop("blocked")

\* A recorded result is used instead of running the tool.
ReuseCompleted ==
    /\ Reached("completed")
    /\ got' = [call |-> Current.call, result |-> ops[Current.id].result, fresh |-> FALSE]
    /\ pc' = "answer"
    /\ UNCHANGED << cp, iter, outcome, saved, faults >> /\ UNCHANGED world

\* Cancelled after the intent was recorded and before the tool ran, or the cache
\* of fetched pages could not be read.
CancelBeforeRun == pc = "began" /\ \E o \in {"blocked", "error"} : FaultStop(o)

\* What a call may return now.
FreshAnswers == [call : {Current.call}, result : Result, fresh : {TRUE}]

\* A guard or hook refuses the call, or a cached fetch answers it.
AnswerWithoutRunning ==
    /\ pc = "began"
    /\ got' \in FreshAnswers
    /\ pc' = "ran"
    /\ UNCHANGED << cp, iter, outcome, saved, faults >> /\ UNCHANGED world

\* The tool runs and returns.
RunTool ==
    /\ pc = "began"
    /\ effects' = [effects EXCEPT ![Current.id] = @ + 1]
    /\ got' \in FreshAnswers
    /\ pc' = "ran"
    /\ UNCHANGED << cp, iter, outcome, task, ops, saved, active, booted,
                    retried, faults, decisions >>

\* The tool is interrupted: it had its effect, but its result is unknown.
RunInterrupted ==
    /\ pc = "began" /\ Fault /\ StopWith("blocked")
    /\ effects' = [effects EXCEPT ![Current.id] = @ + 1]
    /\ UNCHANGED << task, ops, saved, active, booted, retried, decisions >>

\* FinishOperation: the result is durable before the transcript uses it.
Completed(i, r) == [ops EXCEPT ![i].state = "completed", ![i].result = r]

\* Faulty: the answer is used without being recorded first.
AnswerUnrecorded ==
    /\ pc = "ran" /\ pc' = "answer"
    /\ UNCHANGED << cp, iter, got, outcome, task, ops, saved, counted, faults >>

FinishOperation ==
    /\ pc = "ran"
    /\ ops' = Completed(Current.id, got.result)
    /\ pc' = "answer"
    /\ UNCHANGED << cp, iter, got, outcome, task, saved, counted, faults >>

\* The result could not be persisted, or only just.
FinishOperationFails ==
    /\ pc = "ran"
    /\ ops' \in {ops, Completed(Current.id, got.result)}
    /\ Fault /\ StopWith("blocked")
    /\ UNCHANGED << task, saved, counted >>

\* Faulty: every answer counts as no progress.
AnsweredUncompared ==
    [cp EXCEPT !.pending = Tail(@), !.answered = @ \cup {Current},
               !.digests[Current.call] = got.result, !.noProgress = Bump(@)]

\* The tool message joins the transcript and the call leaves the batch.  A
\* result equal to the previous one of the same call is no progress.
Answered ==
    [cp EXCEPT !.pending = Tail(@), !.answered = @ \cup {Current},
               !.digests[Current.call] = got.result,
               !.noProgress = IF cp.digests[Current.call] = got.result THEN Bump(@) ELSE 0]

\* An error reused from the ledger is no longer an error of this call.
ToolError == got.fresh /\ got.result \in Failure

CanConverge == got.call \in Converging /\ ~ ToolError

AnswerCall ==
    /\ pc = "answer"
    /\ LET repeated == Answered.noProgress + 1 >= RepeatLimit
       IN  \/ SaveStep(Answered, IF ~ repeated THEN "exec"
                                 ELSE IF CanConverge THEN "converge" ELSE "blocking")
           \/ ToolError /\ SaveStep(Answered, "blocking")   \* approval required

\* The session was deleted before a message could be added to it.
SessionGone ==
    /\ \/ pc \in {"start", "model", "answer", "finish"}
       \/ pc = "exec" /\ cp.pending # << >> /\ Current.call \in cp.repeats
    /\ FaultStop("session")

\* Only the repeated signature is skipped for the rest of the batch.
Converge ==
    /\ pc = "converge"
    /\ SaveStep([cp EXCEPT !.repeats = @ \cup {got.call}, !.noProgress = 0], "exec")

\* The batch is answered: ask the model to conclude when something was skipped.
BatchDone ==
    /\ pc = "exec" /\ cp.pending = << >>
    /\ \/ cp.repeats = {} /\ Goto("loop") /\ UNCHANGED world
       \/ cp.repeats # {} /\ SaveStep([cp EXCEPT !.repeats = {}], "loop")

-----------------------------------------------------------------------------
\* Crashes and what restarts or the operator do between runs.

\* The process dies between two steps of the task.
Crash == Die /\ UNCHANGED saved

Unresolved == {i \in OpId : ops[i].state = "started"}

\* EnablePersistence gives back a task whose owner is gone.
Reloaded == IF task.state = "in_progress" THEN [task EXCEPT !.state = "ready"] ELSE task

\* openForeground: a ready task with an ambiguous operation is blocked at once.
Opened ==
    IF Reloaded.state = "ready" /\ \E i \in Unresolved : ops[i].call \notin ReplaySafe
    THEN [Reloaded EXCEPT !.state = "blocked"]
    ELSE Reloaded

Between == ~ active /\ pc = "idle"
Decide  == decisions < MaxDecisions /\ decisions' = decisions + 1

\* Listing the tasks opens the queue, and that is all it changes.
ListTasks ==
    /\ Between /\ Foreground /\ task' = Opened /\ task' # task
    /\ UNCHANGED << slice, ops, saved, active, booted, effects, retried, faults, decisions >>

\* Startup recovery (ResumeForeground, or an autonomy worker) takes a ready task.
ResumeAtStartup ==
    /\ Between /\ booted /\ Reloaded.state = "ready"
    /\ task' = Reloaded /\ active' = TRUE /\ booted' = FALSE
    /\ UNCHANGED << slice, ops, saved, effects, retried, faults, decisions >>

\* The user continues the task: it is blocked unless it already is, then
\* unblocked, which grants a new budget and is refused while an operation
\* has no result.
ContinueTask ==
    /\ Between /\ Decide /\ Opened.state # "done"
    /\ Foreground \/ task.state = "blocked"
    /\ IF Unresolved = {}
       THEN /\ task' = [state |-> "ready", attempts |-> 0, retries |-> 0]
            /\ active' = TRUE
       ELSE /\ task' = [Opened EXCEPT !.state = "blocked"]
            /\ active' = FALSE
    /\ booted' = FALSE
    /\ UNCHANGED << slice, ops, saved, effects, retried, faults >>

\* The operator decides about an operation without a result, after checking.
ResolveOperation ==
    /\ Between /\ Decide /\ Opened.state = "blocked"
    /\ task' = Opened
    /\ \E i \in Unresolved :
          \/ /\ ops' = [ops EXCEPT ![i].state = "retry"]
             /\ retried' = [retried EXCEPT ![i] = @ + 1]
          \/ /\ \E r \in Result \ Failure : ops' = Completed(i, r)
             /\ UNCHANGED retried
    /\ UNCHANGED << slice, saved, active, booted, effects, faults >>

-----------------------------------------------------------------------------
LoopStep ==
    \/ OutOfIterations \/ NextIteration \/ Interrupted \/ ResumeVerified
    \/ RoutePending \/ RouteCandidate \/ RouteModel
    \/ GateAsksForTools \/ GateAsksForSynthesis \/ ProviderFails
    \/ ModelAsksForTools \/ ModelStalls \/ AnswerRefused \/ AnswerProposed
    \/ ObserveOnlyLimit \/ ReturnAfterSave

ReviewStep ==
    \/ DirectResponse \/ LedgerShortcut \/ Review \/ WithdrawCandidate
    \/ FinishLoop \/ ReportDone

ExecStep ==
    \/ ExecInterrupted \/ SkipRepeated \/ BeginOperation \/ BeginOperationFails
    \/ ReplayStarted \/ RefuseAmbiguous \/ ReuseCompleted \/ CancelBeforeRun
    \/ AnswerWithoutRunning \/ RunTool \/ RunInterrupted \/ FinishOperation
    \/ FinishOperationFails \/ AnswerCall \/ SessionGone \/ Converge \/ BatchDone

SliceStep == StartLoop \/ LoopStep \/ ReviewStep \/ ExecStep

RunStep == ClaimSlice \/ LeaveTask \/ SliceStep \/ ReleaseSlice

Outside == Crash \/ ListTasks \/ ResumeAtStartup \/ ContinueTask \/ ResolveOperation

Next == RunStep \/ Outside

Spec == Init /\ [][Next]_vars

\* A running call is driven by its goroutine; nothing obliges the operator,
\* the model's good answers, or a restart.
FairSpec == Spec /\ WF_vars(RunStep)

-----------------------------------------------------------------------------
Phases == {"idle", "start", "loop", "head", "model", "review", "more", "deny",
           "finish", "finished", "yielding", "blocking", "exec", "began", "ran",
           "answer", "converge", "release"}

\* Every variable has its type.
TypeOK ==
    /\ task \in [state : {"ready", "in_progress", "blocked", "done"},
                 attempts : 0 .. MaxSlices, retries : 0 .. MaxRetries]
    /\ ops \in [OpId -> Op]
    /\ saved \in Checkpoint /\ cp \in Checkpoint
    /\ pc \in Phases /\ iter \in 0 .. MaxIterations /\ got \in Answer
    /\ outcome \in {"none", "yield", "deadline", "blocked", "error", "cancelled",
                   "session", "done"}
    /\ active \in BOOLEAN /\ booted \in BOOLEAN
    /\ effects \in [OpId -> Nat] /\ retried \in [OpId -> Nat]
    /\ faults \in 0 .. MaxFaults /\ decisions \in 0 .. MaxDecisions

\* A tool call that is not replay safe runs at most once, plus once for each
\* repetition the operator allowed, whatever crashes, cancellations and failed
\* writes happen around it (docs/long-task-reliability.md, recovery rules).
AtMostOnce ==
    \A i \in OpId : ops[i].call \notin ReplaySafe => effects[i] <= 1 + retried[i]

AnsweredIds == {a.id : a \in saved.answered}

\* Ledger and transcript agree: an operation in the ledger is answered in the
\* checkpoint a restart loads, or it is the very next call of that checkpoint,
\* so recovery meets it before anything else can run.
OnlyNextCallIsOpen ==
    \A i \in Recorded : \/ i \in AnsweredIds /\ ops[i].state = "completed"
                        \/ saved.pending # << >> /\ Head(saved.pending).id = i

\* The ledger never answers one call with the record of another: a call waiting
\* in the checkpoint, or answered by it, has no record or a record of its own.
\* The exception is a save cut between the calls of a batch and its number: the
\* next batch is named after the same number and meets the first one's records.
LedgerAnswersItsOwnCall ==
    ~ saved.unnumbered =>
        \A p \in saved.answered \cup {saved.pending[j] : j \in DOMAIN saved.pending} :
            ops[p.id].state # "absent" => ops[p.id].call = p.call

\* Every tool message of the durable transcript has a recorded result.
TranscriptIsRecorded ==
    \A a \in saved.answered : ops[a.id].state = "completed"

\* A call is skipped only when it has already been answered twice with one and
\* the same result ("this read-only call already returned the same result").
SkippedAfterEqualResults ==
    RepeatLimit > 1 /\ ~ saved.unnumbered =>
        \A s \in saved.skipped : \E a, b \in saved.answered :
            /\ a # b /\ a.call = s.call /\ b.call = s.call
            /\ ops[a.id].result = ops[b.id].result

\* A verified checkpoint has nothing pending and its proof holds against the
\* ledger, through crashes and new slices; a finished task has one.  The proof is
\* missing only when a batch lost its number: its answer counts as one given
\* without tools and is not reviewed (ToolWorkIsReviewed).
VerifiedMeansProven ==
    /\ saved.verdict = "complete" =>
          saved.pending = << >> /\ (saved.unnumbered \/ ProofHolds(saved.assessed))
    /\ task.state = "done" => saved.verdict = "complete"

\* "A verified checkpoint can finish after a crash without another model request
\* or another side effect": nothing runs any more, and the verdict is kept unless
\* a batch lost its number, when its proof may fail and be dropped.
VerifiedIsFinal ==
    [][saved.verdict = "complete" =>
          /\ UNCHANGED << ops, effects >>
          /\ saved'.verdict = "complete" \/ saved.unnumbered]_vars

\* "Tasks with tool observations receive the independent completion review":
\* a task with recorded operations is done only on a proof about all of them.
ToolWorkIsReviewed ==
    task.state = "done" /\ Recorded # {} => ProofHolds(saved.assessed)

\* The promise of the operation ledger, stated by itself in OperationLedger.
Ledger == INSTANCE OperationLedger WITH
    Id      <- OpId,
    call    <- [i \in OpId |-> ops[i].call],
    record  <- [i \in OpId |-> ops[i].result],
    runs    <- effects,
    allowed <- retried

\* Every step of the task is a step of the abstract ledger or leaves it alone.
LedgerImplemented == Ledger!Spec
=============================================================================
