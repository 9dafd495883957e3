# Verification of lucky-agent

This directory holds TLA+ models of the agent runtime in `agent/`, the TLC
configurations that check them and TLAPS proofs about them. `PROJECT.json` lists the
parts of the system, the runs, the source lines every definition stands for, the known
disagreements between code and documents, and the hazards the properties are aimed at.

Contents: [the system](#1-the-system) · [modules](#2-modules) · [runs](#3-runs) ·
[fairness](#4-fairness) · [proofs](#5-proofs) · [disagreements](#6-disagreements) ·
[what is not modelled](#7-what-is-not-modelled) · [plan](#8-plan).

## 1. The system

lucky-agent is one Go process that answers user turns with a language model and tools.
A turn either runs as a *chat turn* (an in-memory loop over one session) or as a
*durable task* (a loop whose every transition is on disk, so that it survives restarts).
Around them run goroutines for subagents, schedules, heartbeats, recaps and recall.

| Component | Files | State it keeps | Operations | Talks to |
|---|---|---|---|---|
| Checkpoint journal | `checkpoint_journal.go` | anchor in the task record (a snapshot and the name of a log), the log, the writer's baseline | encode, append, rotate, load, adopt | task queue, durable loop |
| Durable loop | `durable_loop.go` | checkpoint (transcript, pending calls, batch number, counters, verdict) | step, tool batch, save, verdict | journal, operation ledger, session, provider, tools |
| Completion verifier | `completion_verifier.go` | none | proof of a verdict against the ledger | durable loop, provider |
| Foreground runner, recovery | `foreground.go`, `foreground_recovery.go` | which session is taken, the queue file and the copies of it in memory | open, list, continue, resolve, slice loop, resumption at startup | task queue, durable loop |
| Task queue, ledger | external library (`autonomy`) | task records, budgets, operation records | claim, finish, block, begin/finish/resolve an operation | all of the above |
| Chat turn | `loop.go`, `loop_execution.go`, `loop_finalizer.go`, `agent.go` | counters of the turn, transcript | question, round, tool batch, stop, final answer, simple chat | session, provider, tools, memory gate |
| Streaming turn | `stream.go`, `event_adapter.go` | event channel, the answer so far, the calls in hand | as the chat turn, event by event | provider, session, gateway |
| Tool batch | `loop_execution.go`, `tool_execution_detailed.go`, `hitl.go`, `credential_form.go` | groups, workers, open questions to the user | screen, launch, ask, run, collect | turns, tools, user |
| Memory gate, repeated failures | `memory_gate.go`, `failure_repeat.go` | required tools, what was attempted, counters per call and target | block a final text, run the required tools, skip, stop | chat turn, streaming turn |
| Session lifecycle | `session_lifecycle.go` | registered calls, tombstones of sessions | begin, check, cancel | turns, host |
| Context planning | `context_planner.go`, `context_projection.go`, `request_budget.go`, `tool_schema_budget.go` | none beyond a turn's messages | build, cut to the window, select schemas, cut the request | session, turns |
| Context cache | `context_cache.go` | entries with a time to live, order of use | look up, store, evict | context planning |
| Compaction | `compact_session.go`, `compact_auto.go` | segments of the session, failures | decide, summarize, check, append | session, provider |
| Models | `models.go`, `profile_provider.go`, `provider_snapshot.go`, `agent.go` | saved configuration, live provider, catalog | switch, profile, reload, discover, snapshot | every turn |
| Messages to a child | `delegate_message.go` | a queue per running child | send, drain, give back | subagents, the child's loop |
| Subagents | `subagent_delegate.go`, `delegate_queue.go`, `delegate_worktree.go` | records of children, checkouts | delegate, cancel, wait, finish | child loops, git, worker queue |
| Scheduled tasks | `cron_*.go` | jobs in memory and on disk | add, change, archive, fire, record | store, loops, gateways |
| Heartbeat, notifications | `heartbeat/`, `autonomy_notifications.go` | ticker, reporter goroutine | start, stop, trigger, close | host |
| Recap, recall | `session_recap.go`, `memory_recall_timeout.go` | pending jobs, slots; a goroutine past its deadline | queue, take, answer; search, read, give up | sessions, memory |
| Story mode | `story_mode.go` | a file per session | enter, advance, leave, capture | turns, durable memory |
| The rest | prompts, routing, media, plugins, packaging | none that outlives a call | text in, text out | |

What makes each part correct, and what is hard about it:

* **Checkpoint journal.** After any crash a restart finds the last acknowledged
  checkpoint or a prefix of the next save. Hard: one save is several lines, a line may
  be cut or lose its newline, the log and the record that names it are two files, and a
  later slice continues a journal another process wrote.
* **Durable task.** A side effect happens at most once, the ledger and the transcript
  agree, a task is done only with a proof, and a call always returns its session. Hard:
  a crash, a cancellation or a failed write between any two of about thirty steps and
  between the lines of one save, and an operator who decides about operations whose
  outcome nobody knows.
* **Foreground recovery.** A task is resumed once and no result is lost. Hard: the
  recovery and a user's turn each write back a whole copy of the queue file.
* **Chat turn.** The provider accepts a transcript only if every tool call is answered,
  in order; a turn is answered once; what the memory gate requires happens before the
  answer; the turn ends. Hard: nine ways to stop, counters that are reset at different
  places, session writes that fail in the middle of a batch, and a host that deletes or
  cancels the session at any moment.
* **Streaming turn.** One terminal event, after everything else, and what it claims is
  stored. Hard: the channel is bounded, its reader may leave, and some sends wait for
  room where others give up.
* **Tool batch.** Nothing runs that the guard, the user or the sandbox refused, the
  desktop is used alone, answers come in the order of the calls. Hard: calls side by
  side, hooks that rewrite what was approved, a deadline during a question.
* **Context planning and compaction.** No call loses its result, what is pinned is sent,
  summaries tile the history. Hard: three cuts with different priorities, and a
  compaction that summarizes while the session goes on.
* **Models.** A turn is answered by the model it says it is. Hard: switches, reloads and
  discovery overlap, each save may fail before or after the live swap.
* **Messages to a child, subagents.** An accepted message reaches the child, work in a
  checkout can be found. Hard: status, queue and cancellation are read in separate steps.
* **Scheduled tasks.** A job runs only when saved, and not for ever. Hard: memory and disk
  apart after a failed save, jobs removed while they run, a run cut by a restart.
* **Heartbeat, recap, recall.** What was stopped is quiet, the last turn is recapped, a
  recall cut short does not look whole. Hard: goroutines that outlive their caller.
* **Story mode.** A character has the story's tool alone, and the memory tools when the
  user asks to save something; otherwise its words stay out of memory. Hard: the file is
  read three times in a turn and anyone may write it in between.

`hazards` in `PROJECT.json` gives the line at which each of these bites.

## 2. Modules

| Module | Models | How state and actions correspond to the code |
|---|---|---|
| `CheckpointDelta` | `diffCheckpoint`, `applyCheckpointEvent`, `replayCheckpointJournal` as operators | a checkpoint is a message sequence, a pending sequence and scalar fields; a diff is at most three events |
| `CheckpointJournal` | `checkpointWriter` driven by `save` | `store` is the record, `logs` the directory; `CreateLog`, `SwapLog`, `EncodeDifference`, `WriteLine`, `LinesSynced`, `Persist` are the system calls of one save in their order; `WriteFails`, `PersistFails`, `Crash` may come between any two and cut a line, or only its newline (`unended`), when the next append goes on in the same line (`Joined`); `Resume` loads and adopts |
| `KeptCheckpoint` | the promise of the checkpoint store, abstractly | one checkpoint is kept; a save moves it from the last acknowledged one to the new one, may break off half way, and may lose what is kept while it is under way |
| `OperationLedger` | the promise of the ledger, abstractly | an operation is named, run, recorded, and may be allowed once more |
| `DurableTask` | `runForeground`, `runForegroundTask`, `runDurableLoop`, `executeDurablePending`, the verifier, resumption at startup | `task`, `ops`, `saved` are on disk; `cp`, `pc`, `got` belong to the slice; one action per branch between two writes. `Crash` forgets the slice; `SaveFails` and `SaveDies` keep any of the lines of the save under way (`Torn`). `LedgerImplemented` is the refinement of `OperationLedger` |
| `ForegroundRecovery` | `ResumeForeground` beside turns of the same session | `file` is the queue on disk, `user.queue` and `recovery.queue` the copies in memory; every change of a copy writes all of it. A slice is one step |
| `ChatTurn` | `chatWithSessionInput`, `RunWithProviderSnapshot`, `processToolCallBatch`, `processDirectResponse`, the memory gate, `Finalize`, the simple chat, `beginSessionCall`, `CancelSession` | `phase` is the place in the turn; `memory` is `loopRuntimeState`; `sess` keeps what later readers of the transcript depend on. One action per kind of response and per store that may fail |
| `StreamTurn` | the goroutine of `ChatWithSessionStreamForSession`, `streamNativeAttempt`, `streamSimulated`, the event adapter | `out` is what the goroutine still has to send, `buffer` the channel; a send that may be given up is `soft`. `adapter` reads until the context ends |
| `ToolBatch` | `executeToolCallsOrdered` and everything a call passes on the way to its tool | `at[i]` is the place of call i: approval, question, credential form, execution; `groups` (a sequence of sets of calls) and `serial` (the calls the caller runs itself) are the plan of the batch; the clock runs only while a deadline can matter |
| `ContextCache` | `contextMessageCache` and its use in `BuildInput` | the read lock and the write lock are two actions; `version` of a subject (a session and a text) stands for what the key digests, `rest` for what it leaves out (older messages and memories, replaced documents), an aside for a turn's scope and attachments |
| `ContextFit` | history, window and request cuts, schema selection | a message is its kind and size, and its place in the conversation, so that order and pairing can be stated |
| `Compaction` | the automatic and the manual compaction | raw messages are positions; `Read`, `Summarize`, `Backup`, `Check`, `Append_` are the steps of `compactSessionWithProvider` between which the session goes on |
| `ModelConfig` | `SwitchModelKind`, `ReloadConfig`, `RefreshChatModels`, profiles, snapshots | `saved`, `edited` are the manager's, `live` the agent's, `turnOf` a turn's snapshot; each caller goes through copy, apply, save in the code's order |
| `ParentMessages` | `handleSubagentMessage`, `parentMessageQueue`, `drainParentMessagesAfterToolRound` | the unlocked steps of a message call are separate actions, the queue's locked operations one action each |
| `Delegation` | `delegate` calls, the child's checkout, `executeQueuedDelegate` | `handler` is the call, `child` the goroutine, `tree` what git sees of the checkout, `unseen` the tasks with work it does not see, `told` what the result says, `stuck` a removal that failed and was reported done |
| `CronJobs` | `AddCronJob`, the cron tool, `mutateCronJob`, runs and their messages, `recordCronRun`, restart | `jobs` is the engine, `store` the disk; an add is the steps between which a run may start; a change and its save, a failed step and its undo, a run and the save of its record are two steps each. A job has a schedule and, beside it, the kind its metadata call it |
| `Heartbeat` | `heartbeat.Service`, the reporter, `Close` | one action between two lock operations; a channel pair is named by its start |
| `MemoryRecall` | `recallTimeoutStore.Recall` and `runRecall` | `search`, `opened`, `delivery` belong to the goroutine, `recaller` to the caller, `expired` is the context |
| `Recaps` | the recap service | a turn saves its question (`AskTurn`) and its answer (`FinishTurn`), or fails in between; `version` counts what the session holds, `pending` is one job per session, `worker` its goroutine, two of which hold a slot |
| `StoryMode` | the turn policy, the story tool, the capture | `story` is the file; each look of a turn at it is an action; `reach` is which tools the policy left: all, the story's, or also the memory tools |
| `DurableTaskProofs`, `ChatTurnProofs`, `StreamTurnProofs`, `TurnPartsProofs`, `ContextProofs`, `ContextFitProofs`, `ServiceProofs`, `CronProofs` | proofs | see 5 |
| `MC*` | instances and compositions for TLC | see below |

**Compositions.** `MCServices`, `MCContexts` and `MCWaiting` put components that share no
state in the code into one run. A variable `focus` chooses the component a behaviour
follows; the others stay where they start. This is no interleaving of the components and
shows nothing about any: it lets one run answer the same question ("what do the services
promise", "what is the model shown", "who waits for whom") of several. Components that do
interact are in one module: the task, its ledger and its recovery in `DurableTask`; turn,
gate, lifecycle and fallback in `ChatTurn`; heartbeat, reporter and `Close` in `Heartbeat`;
turn, adapter and gateway in `StreamTurn`; batch, approval and question in `ToolBatch`.

Operators whose comment begins with *Faulty:* are mistakes the code could have made
(a dropped guard, a missing reset, a swapped order). No specification uses them; each
one stands beside the definition it spoils, and putting it in that place makes one
property fail, which shows that the property depends on that line of the code.

**Abstractions.** Tool calls, results and messages are members of small sets; wording,
token counts and rendering are left out (`ContextFit` keeps sizes). In `DurableTask` a save
is one step that, when it fails or the process dies, keeps any of its lines: messages, then
calls, then fields. `CheckpointJournal` opens it up and shows what that step relies on,
stated in `KeptCheckpoint`: a restart finds the old or the new checkpoint, or part of the
way between. `DurableTask` assumes that a line once kept stays kept; the two ways in which
the journal loses one (a removed log, a joined line) are in section 6 and outside it. What
the ledger does is a library: `BeginOperation` returns the record it finds, of which the
loop looks at the state alone. Libraries (task queue, scheduler,
delegate manager, window fitter, session store, configuration manager) are modelled from
their use; `map` marks them external. In `ContextFit` a segment covers whole turns: which
messages it covers is the compaction library's choice. A round in which the desktop was
only observed again keeps the frame it has and adds a note instead
(`loop_execution.go:493-498`); `ToolRound` leaves that branch out and takes the earlier
frames away in every round. In `ParentMessages` the list of messages a drain holds is one
sequence across its iterations; its flag (`delegate_message.go:77-94`) is left out, since
only the child's own loop drains its queue, one round after the other. In `ChatTurn` a call that
fails too often is counted by call, where the code counts by tool, kind of failure and
path; search evidence is counted up to three, the highest threshold the code compares it
with. In `StoryMode` the file keeps only whether the story is active.

## 3. Runs

| Run | Bounds, and why they are enough | Shows |
|---|---|---|
| `DurableTask` | 2 batches of one call, 2 slices and 1 retry per budget, 2 faults, 2 decisions: an operation can crash, be allowed again and crash again | at most once, ledger and transcript, proven and final verdict, refinement of the ledger |
| `DurableTaskBatch` | a gated task of 2 batches of 2 calls, 1 slice, 1 fault, repeat limit 2: four calls are needed before one can be skipped | `SkippedAfterEqualResults` |
| `ChatTurn` | 4 rounds, batches of up to 2 of a searching and an observing call, limits of 1 and 2, one failed write, deletion and cancellation at any step. Four rounds are the fewest that reach repetition after a reset, the forced synthesis after it, and the answer at the limit | six properties, below |
| `StreamTurn` | a channel of 2 events, 2 rounds, 2 chunks, one failed write, cancellation, expiry and a leaving reader at any step: the channel fills inside a round and between rounds | `OneTerminalEvent`, `DoneIsStored`, `StreamEnds` |
| `Contexts` | cache: 2 builders, 2 subjects, 2 entries; fitting: window of 9, schemas of 1, 2 and 4, 2 past turns or summaries, 2 rounds of up to 2 results; compaction: 2 at once, 3 messages, 1 rewrite; models: 2 changes at once, 2 setbacks; journal: 4 saves, a snapshot every 2, one fault (two rotations, a fault in any system call, a slice that resumes after it) | what the model is shown and what a restart finds |
| `Services` | messages: 3 calls, limit 1, 2 failed writes; schedules: three requests that overlap, or two with a failed save, or four runs with a failed save and a restart, or an add, a pause and a resume of one job, with runs to use up its retries twice; heartbeat: 2 closers, 2 starters; delegation: one task; recovery: 2 records, 3 turns; tools: batches of 3 that mix kinds, 2 with a deadline; story: 2 turns, one failed write | what each service promises beside a turn |
| `Waiting` | a gated task of 1 batch and 2 slices with 1 fault; a recall of 2 hits; 3 sessions and 2 runners for the 2 recap slots, 5 messages: two answered turns and a question more, and with three sessions one has to wait | who waits is served |
| `CheckpointJournalLoss` | 3 saves, a snapshot every 2, one fault | 6.1 |
| `CronDelivery` | one job | 6.2 |
| `DurableTaskTorn` | as `DurableTask` | 6.3 |
| `ContextOrder` | as `Contexts`, one past turn, with images | 6.4 |
| `ModelMismatch` | one change, one turn; the trace needs no change | 6.5 |

`Contexts` shows no image read by a tool (its `Extras` leave "image" out): with one beside
another the order of the messages is lost (6.4), and with it the pairing of calls and
results. The theorems about `ContextFit` have the same hypothesis.

The properties, by what they would catch:

* *Durable task.* `AtMostOnce`, `OnlyNextCallIsOpen`, `LedgerAnswersItsOwnCall`,
  `VerifiedMeansProven`, `VerifiedIsFinal`, `SkippedAfterEqualResults`, and
  `LedgerImplemented`; `TaskReleasesSession`: a call returns and gives its session back.
  A save that was cut between the calls of a batch and its number (`unnumbered`) is the
  exception of four of them: names are used twice then, results of other calls are
  counted as repeats, and a proof may be missing or be dropped again (6.3, 6.7).
  `RecoveryIsExact`: unless a turn held the session between the reading of the queue and
  its claim, no task starts again, nobody works beside another, no result is lost.
* *Journal.* `NothingLostWithLogIntact`: what a restart reads is the last acknowledged
  checkpoint or further, as long as the named log exists and none of its lines was joined
  to one that had lost its newline (6.6).
* *Chat turn.* `TranscriptInOrder`: the calls that wait for a result are exactly those of
  the batch in hand, in its order, unless a write was lost. `LostWriteEndsTurn`: after a
  lost write no model is asked, no tool runs and no success is reported. *With one round
  only this fails*: the gate remembers the lost write for the next round, there is none,
  and the caller sees "max iterations reached" and starts the simple chat, against
  `docs/session-reliability.md:31-32`. `AnswerSawChecks`: the loop's answer was written
  after the model had the results of every required tool, and the notice of what could
  not run (the simple chat does not pass the gate at all). `DeletedTurnIsCancelled`: once a
  deletion and the cancellation after it are through, no turn works with a live context.
  `AnsweredOnce`, `TurnEnds`.
* *Streaming.* `OneTerminalEvent`, `DoneIsStored` (question, answer and every result are in
  the session when the reader is told "done"), `StreamEnds` (while the gateway reads).
* *Tools.* `DesktopRunsAlone`, `OnlyAllowedRuns` (also after every rewriting by a hook; for
  a credential never by `AutoApprove`), `ResultsTellWhatRan`, `AskEndsBeforeDeadline`.
* *Context.* `ServedMatchesRequest`, `ExchangesWhole`, `RefusedOnlyForWhatIsPinned`,
  `SegmentsTileHistory`.
* *Models.* `SavedIsActive`, `DiscoveredIsKept`.
* *Services.* `AcceptedIsKept` (messages reach the child), `CheckoutIsKeptAndNamed`,
  `RunsOnlySavedJobs`, `OneShotRunsBounded`, `DuplicatesNeedOverlap`, `QuiescentIsSaved`,
  `ClosedIsQuiet`, `StoryIsSealed`, `LatestTurnIsRecapped`, `PendingIsServed`,
  `RecallIsWhole`.

Several of these name an exception (`torn`, `raced`, `contended`, `apart`, `readEarly`,
`overlapped`, `disturbed`, `unnumbered`, `orphaned`, `stuck`, ...): a history variable that
records the one interleaving in which the code gives no promise. It makes the property
exact, since the models reach both sides of it; the windows themselves are listed as
hazards.

`CHECK_DEADLOCK FALSE` appears where the system may rest: a finished or blocked task, a
finished child, an idle service. `ChatTurn` has an explicit `Done` step instead.

## 4. Fairness

* `ChatTurn!Fairness` and `StreamTurn!StreamFairness` are weak fairness of the turn, and of
  the adapter, as a whole. The Go scheduler runs a runnable goroutine, provider calls and
  tools are bounded by contexts with deadlines, and file writes return. The host may
  delete and cancel or do neither; cancelling for ever does not keep a turn from its end.
  The reader of a stream may leave, and `StreamEnds` then promises nothing.
* `MCWaiting!WaitingFairness` asks of the component in focus what its module states:
  of a task weak fairness of `RunStep`, the steps of the goroutine that owns it (nothing
  of the operator, of restarts or of what the model answers, so `TaskReleasesSession`
  rests on the iteration and slice budgets alone); of a recall, that its caller runs, and
  nothing of the search; of recaps, that their goroutines run and the model request ends
  (it has a deadline), and strong fairness of `TakeSlot`, since a Go channel serves the
  goroutines that wait for it in their order.

Safety runs use no fairness. `ToolBatch` assumes that a timer's goroutine is late by less
than the code's margin before the turn's deadline, and that no desktop tool is marked
parallel safe (`BatchesAssumption`).

## 5. Proofs

All theorems hold for every value of the constants that satisfies the named assumption of
their module: `TaskAssumption`, `TurnAssumption`, `StreamAssumption`,
`BatchesAssumption`, `RecallAssumption`, `RecapAssumption`, `CacheAssumption`,
`CompactionAssumption`, `ModelAssumption`, `JournalAssumption` and `RejectedAssumption`,
`FitAssumption`, `ForegroundAssumption`, `StoryAssumption`, `HeartAssumption`, `CronAssumption`,
`LimitAssumption`, `BoundAssumption` and `NamesAssumption`. They say no more than that
bounds are numbers, limits are positive, sets contain what they must and special values
("no anchor", "rejected") are none of the ordinary ones; `BatchesAssumption` adds the two
facts at the end of section 4. TLC evaluates each of them in a run.

No safety property is inductive as it stands; each inductive invariant below was checked
by TLC on the module's run before it was proved.

**`DurableTaskProofs`.** `Invariance` proves `IInv` inductive; `TypeCorrect`,
`ToolsRunAtMostOnce`, `LedgerMatchesTranscript`, `TranscriptHasRecords` and
`RecordsAreNotMixedUp` follow. At-most-once is not inductive by itself: that a tool is not
started twice depends on the ledger record found before it, on the record being of this
call, and on the checkpoint that names the call being the one a restart loads. `IInv` says
so in parts: `WellNamed` (calls of a checkpoint have fresh, increasing names, unless a batch
lost its number), `Agrees` (the ledger holds what the checkpoint answered, and at most its
next call), `RecordInv` (a record is complete when it has a result), `EffectInv` (runs are
covered by permissions, one in reserve before a repetition) and `PcInv` (what the slice
holds in hand at each place). Two lemmas, `SaveKeeps` and `StopKeeps`, cover the two ways
any step of the loop ends, so most actions are one line; of a save that fails or dies,
`TornLines` shows that it leaves a `Sound` checkpoint whichever of its lines are kept.
`ImplementsLedger` maps every step to a step of `OperationLedger` or a stutter, under the
same invariant.

The other properties rest on `IInv` and an invariant of their own. For
`VerdictsAreProven` and `VerdictsAreFinal`, `VerifiedInv` says at which places a verified
checkpoint can be; the lemma behind it is that nothing changes the ledger once the
checkpoint is verified, since an operation that a restart could settle would contradict
the proof. For `SkipsAreEarned`, `RepeatInv` carries two equal results of a call from the
ledger into the digests and the repeats of the checkpoint, and from there to the skip;
that a record once answered never changes (`AnsweredStay`) makes it last. The three
theorems, and `RecordsAreNotMixedUp`, have the exception their properties state: a batch
that lost its number (`unnumbered`). At most once, the agreement of ledger and transcript
and the refinement hold without it.

**`ContextProofs`, the journal.** The replay of a log is a function over the number of its
lines, and the library's induction theorems cannot be used here. `SetInduction` replaces
them: it states induction for a *set* of numbers and is proved from the theorem that a
finite set has no injection into a proper part of itself. From it follow `ReplaySteps` and
`ReplayAppend` (what one line and what several lines more do) and `DifferencesReplay`: what
`diffCheckpoint` writes between any two checkpoints, replayed on the first, is the second.
`JournalInv` then says for each place of a save (`RunPlace`, `SavePlace`, `SwapPlace`,
`AppendPlace`, `PersistPlace`) which checkpoint the anchor and the complete lines stand for,
and how much of the difference is written; a crash may cut the line being written, which a
replay then ignores, or only its newline, which leaves a complete line that the next append
will spoil. `AckedSavesSurvive` follows: with the named log present and no line joined to
another, no crash or failed write at any of these places loses an acknowledged save, and a
resumed slice goes on from there, any number of times.

`ImplementsStore` says the same as a refinement, without the condition that the log is
intact: anchors, logs and lines implement `KeptCheckpoint`. What a restart would find is
`kept`, or `Lost` when the log the record names is gone or has joined lines. `SwapLog` and
the append behind a missing newline are the steps that may lose it, both inside a save;
`WriteLine` otherwise moves `kept` along the difference, `Persist` acknowledges, a fault
breaks the save off and leaves `kept`, however the line was cut.
To `JournalInv` it adds `AnchorPlace`, that an anchor about to be stored is there
already or names a log just made, and the lemma `PartReplays`, that no beginning of a
difference is refused. TLC checked the same formula, on the instance of
`CheckpointJournalLoss`, before the proof; no run repeats it.

**`StreamTurnProofs`.** `TurnsEndOnce` and `DoneTurnsAreStored` for any capacity and any
number of rounds, chunks and failed writes. `StreamInv` has what was told to the reader at
each place of the goroutine (`Told`: one terminal event is under way, went out, or was
given up, and nothing follows it) and what is stored there (`Kept`). What a round may come
to is one predicate, `Sound`; each branch of the code is a lemma that reaches it.

**`TurnPartsProofs`.** `RecallsAreWhole`: the notes handled are those before the hit read
next, so that an outcome without error holds all. `LatestTurnsAreRecapped`: on a session
where no two turns ended at once, the latest answer is still in a turn's hands, waits in the
queue, is asked about, or is what the recap tells, as long as no question followed it; a
question that did makes the request out of date, and its own answer brings a new one. For
batches of any length, `OnlyAllowedCallsRun`, `QuestionsEndEarly`, `DesktopCallsRunAlone`
and `ResultsAreTrue`. `CallIsScreened` says per call that it is past the questions only with
the consent it needs; `PlanIsSound` to `DesktopGroups` say how the groups of the plan follow
one another; `ResultsInv` says that the n-th result gathered is that of the n-th call the
screening left, whichever of two routes it took.

**`ContextProofs`.** `CacheServesWhatWasAsked`: an entry, and every copy of it in a
builder's hands, was built from the version of its key, but for subjects that changed under
a build; and from an aside that was asked for, and from what the key leaves out as it was at
some time (`rest`), so that the two kinds of wrong hit are the only others.
`BoundariesTileHistory`: a compaction under way has chosen a prefix of what it read, and
what it read was there. `SavedModelAnswers` and `DiscoveriesOutliveChanges`: as long as the
saved and the live configuration are not known to be apart, one change at most is under way
and it knows how to bring them together again (`Converging`).

**`ContextFitProofs`.** `ExchangesStayWhole` and `PinnedIsSentOrRefused`, for any schemas,
sizes, budgets, histories and rounds. The code has no function that keeps a call with its
results: each cut relies on where it may cut. `Whole` says it of a sequence of messages
(every result behind its call with only results of that call between, every call
answered), and the proof shows it of every operation in the code's order: a tail that
starts at a question (`FitTailIs`), summaries before it (`BuildHistoryIs`), the fitter
(`FitIs`), the request (`FitRequestIs`). Dropping whole units keeps `Whole`
(`EmbeddedIsWhole`); putting an image back does not by itself. `PlaceIsSafe` is the
argument that it does for one image: `restoreHeldMessages` takes what was dropped to have
stood in front, so the image moves to the front by the number of messages that went
behind it; but those go last, and when one has gone so much has that the image comes
before everything. It needs `Conversation` (behind an image stand only rounds of the turn;
instructions stand once), which `FitWindowIs` shows every step keeps; two images would
break it. For the second theorem, `PinnedIs` shows that what is pinned are whole exchanges
and all that is critical to the fitter, and `SelectionsAre` that the schemas chosen leave
room for it. The recursive functions of the model (`Ascending`, `Cost`) are unfolded by
existence lemmas on top of `SetInduction`.

**`ServiceProofs`.** `RecoveryDoesNotRepeat`: the copy of the queue of whoever holds the
session is the file, and the file keeps what was accepted and done. `StoryStaysSealed`: what
a turn knows of the story file by the look it took last (`LooksAgree`), also when it keeps
the memory tools or its own leave failed. `CheckoutsAreKeptAndNamed`, one task at a time
(`Stage`, `Told`; a step touches one task, `Apart`). `ClosedStaysQuiet`: behind `closeOnce`
one call works at a time, a loop lives between its start and the close of its channel, and a
reporter is cancelled or its cancel is kept for the `Close` that comes. `MessagesAreKept`
and `QueueStaysBounded`, for any number of calls, any limit and any number of failed writes:
the invariant adds what a drain holds (`DrainShape`), which call has found which queue
(`BoxShape`: a queue is named after the call that made it, so an abandoned one is never
found again), and the bound while messages are out (`MessagesBounded`).

**`CronProofs`.** `OnlySavedJobsRun` (`GateIsTheirs`: an open gate is of a saved job, or of
one whose add has not returned), `OneShotRunsEnd`, `OneJobPerIntent` (an intent nobody
contended for has one job, in the engine and in the store, and one request) and
`RestIsSaved` (unless the last save failed, the store has what the engine has, but for
jobs a save is still to come for, and those a failed add took back: a change and its save
are two steps with any number of others between). An earlier form of `OneShotRunsBounded` counted a
resume as one more run; the proof did not go through, and rightly: a resumed job has all
its retries again. TLC shows it now that `Services` has an instance with a resume, and the
bound is the retry limit for each time it was scheduled, and one for each restart and
lost save. It is stated for jobs with a one-time schedule: the kind alone, which the
caller may set, bounds nothing (6.8).

**`ChatTurnProofs`.** Every safety property of `ChatTurn` for any calls, batches, limits
and failed writes; two of them, `NoWorkAfterALostWrite` and `ToolsRunStoredCalls`, for
turns of more than one round only, which is exactly where they hold (section 3). None
is inductive as it stands. Types come first, with `BatchShape` (a batch is in hand only
while its tools run and are recorded). On it rest six invariants, one for each question,
proved one after the other so that each stays small: `CancelInv` (a turn that works is
registered, so a sweep either finds it or came before its check of the tombstone);
`AnswerInv` (nothing is answered before the end); `GateInv` (between question and answer
the model knows what the gate has, and a round at the limit is asked only when nothing
blocks); `LostInv` (the gate runs its tools in the first round only, so the round that
sees a lost write exists); `OpenInv` (what waits for a result is the rest of the batch);
`StaleInv` (the rounds without news never exceed the rounds the loop has counted, save
for a call whose news is about to be noted). `GateInv` uses `AnswerInv`, and
`ToolsRunStoredCalls` combines `LostInv` with `OpenInv`.

The type invariants, `TranscriptIsRecorded`, `QueueBounded`, `StaleRoundsBounded` and
`RunsStoredCalls` are proved and therefore in no run.

Only model-checked: liveness (`TaskReleasesSession`, `TurnEnds`, `StreamEnds`,
`PendingIsServed`), for which the prover has no rule; of `Recaps` the bound of its
numbers (`RecapTypeOK`), which a TLC bound alone keeps; and of `ContextCache` that the
order of eviction is a sequence of keys (`CacheTypeOK`), on which no other property
depends.

## 6. Disagreements

With a run that shows them:

1. **A crash during log rotation loses acknowledged saves** (`checkpoint_journal.go:442`,
   `CheckpointJournalLoss`). `writeSnapshot` removes the old log before the record names
   the new one. A restart in between reads the missing log as empty and goes on from the
   old snapshot; `durable_loop.go:64-65` promises that every transition is persisted
   before the loop advances.
2. **A one-shot job whose command succeeded runs again** when its result could not be
   delivered (`cron_task_runtime.go:72`, `CronDelivery`), against `cron_tools.go:204-206`.
3. **A task with tool work may finish without its review** (`durable_loop.go:268`,
   `DurableTaskTorn`): a batch's calls and its number are two lines of a save, and a save
   cut between them leaves calls that count as no batch, against `durable_loop.go:266-267`.
4. **Held-out images come back at another place** (`loop.go:1589`, `ContextOrder`): the
   restoration counts what the trim removed as if it had all stood at the front. Of two
   images the later may be lost, since the restoration ends at the first index that finds
   no text (`loop.go:1603`).
5. **A snapshot may pair one model's provider with another's name**
   (`profile_provider.go:57`, `ModelMismatch`), against `provider_snapshot.go:17`: a turn
   that the router sent to another model, and that is a chat or a tool task, is given a
   provider of the configured model under the routed name. Nobody switches anything.

Without one:

6. A last line that lost only its newline is taken for whole (`checkpoint_journal.go:165`);
   what the next slice appends goes on in the same line and is lost with it at the
   restart after that. This is the exception of `NothingLostWithLogIntact`. And an adopted
   journal may have no log (`checkpoint_journal.go:462`): after the crash of 1 every save
   that appends fails.
7. After the cut of 3 the next batch reuses the names of the first (`durable_loop.go:382`),
   and a call meets the record of another. A mutating call can be skipped as repeated
   (`durable_loop.go:730`), against `durable_loop.go:722-724`; so can a failing one whose
   result comes from the ledger (`durable_loop.go:537`).
8. A job whose metadata call it one_shot while its schedule is an interval runs without
   end (`cron_identity.go:122`), against `cron_tools.go:91-93`; a job whose add failed may
   be in the store through another caller's save (`cron_http.go:71`).
9. The cache key leaves out a turn's scope and attachments, older messages and memories
   and replaced documents (`context_planner.go:583`): turns that differ only in these are
   served each other's context.
10. A checkout that could not be deleted may be reported as removed
    (`delegate_worktree.go:325`); files git ignores, and commits HEAD has left, do not
    count as work and go with the checkout.
11. An accepted message may be dropped when the child has passed its last tool round
    (`delegate_message.go:193`); the comment at `delegate_message.go:25-26` says nothing is.
12. A cancelled turn may be answered by the simple chat (`agent.go:544`): a cancellation
    during the last round does not show in the error the loop returns.
13. Words said in a story are captured like others when the model left it in the same
    turn (`agent.go:890`); a work request that cannot write the story file runs with all
    tools under the character's prompt (`story_mode.go:577`).
14. A model discovered while the catalog is being replaced is dropped (`agent.go:264`).

Smaller ones, seen while modelling. *Turns:* the lost write in the only round (section 3);
the fallback stores the question a second time; the disjunct of the repetition test that
looks at `ToolOnlyIterationLimit` can never decide (`loop.go:1004`), so
`docs/task/la-agent-task-convergence.md` section 7 promises a stop that only repeated calls
get; two equal fetches in one batch are both skipped and neither is made
(`tool_execution_detailed.go:60`); serial calls of a batch still start after a cancellation
(`loop_execution.go:450-452`); native text shown before a disabled text tool call is sent
again (`stream.go:994-1000`); the "[Loaded image]" message (`loop_execution.go:510`) becomes
the pinned latest user message. *Tasks:* the recovery reads its queue before it claims the
session (`foreground_recovery.go:97` and `:165`), although the comment at `:66` says it
starts only the unfinished foreground tasks. *Schedules:* archiving hides every job of the
key, active ones included (`cron_tools.go:331-333`), and the tool cannot add the intent
again; a removed job whose task waits is still executed, and its outcome recorded on a job
added again under the same name. *Delegation:* the first messages of two callers may race
for the queue (`delegate_message.go:100`); `docs/tools/delegate/delegate.md:81` and
`execution_services.go:150` differ. *Streams:* a turn whose reader has left may wait for
ever on a full channel, since the adapter stops reading (`event_adapter.go:75`) and most
sends are plain (`stream.go:1275`); the comment at `event_adapter.go:58-60` speaks of the
adapter alone, so this contradicts nothing, and `StreamEnds` asks for a reader that stays.
*Recaps:* a session whose last question was never answered keeps its old recap. *Others:* a
recall that timed out is observed twice (`memory_recall_timeout.go:134` says once);
`docs/compact-rebuildability.md:19-21` admits that check and append of a compaction are not
atomic; overlapping switches can leave one model on disk and another active, and a saved
switch whose apply fails stays saved; a story file that was cut off cannot be read, and a
stale advance re-activates a story that was left; `ParallelSummarize` (`loop.go:1954-2087`,
unused) labels the halves in the order of their arrival.

## 7. What is not modelled

* In `DurableTask`: prompt assembly, compaction of the transcript, result rehydration, the
  artifact guard, time (a deadline is an outcome the slice may have at any time), two
  slices of one task at once.
* In `ChatTurn`: hooks, approval, the exploration handoff, the `computer_act` directive,
  several turns of one session at once, the background work after the answer. In
  `StreamTurn` whether the calls of a round repeat is free, since `ChatTurn` has those
  counters; the reassembly of chunks is wording.
* In `ToolBatch`: sandbox selection, the rendering of results, hooks that run after a tool.
* In `ContextCache`: the scope, the attachments and all that the key leaves out are
  distinguished only as far as to tell a right hit from a wrong one.
* In `ContextFit`: system prompt, memory, retrieval and skill messages (one "system" message
  stands for what is pinned of them), the scores by which schemas are ranked.
* In `Compaction`: what a summary says; whether it is accepted is a choice. The heuristics
  that shorten results by their shape are pure functions on text.
* In `ParentMessages`: the second child that a resumption makes. In `Delegation`: roles and
  the narrowing of their limits, collaboration rounds.
* In `CronJobs`: schedule parsing, the rendering and splitting of messages; in `ModelConfig`:
  the endpoints of kinds other than chat.
* Whole components, each with its reason in `PROJECT.json`: turn input and task
  finalization, inspection and history tools, tool intent and metrics, memory maintenance,
  collaboration and roles, agent assembly, prompts and presentation (text in, text out);
  plugins, sandbox, scripts and packaging (they start processes).

## 8. Plan

What is left is a proof about answers: `ChatTurn` and `StreamTurn` as two ways to implement
one abstract specification of a question that is answered once, or not at all when the
session is gone.
