------------------------------- MODULE ChatTurn -------------------------------
(***************************************************************************)
(* One interactive turn: chatWithSessionInput of agent/agent.go, the loop  *)
(* RunWithProviderSnapshot of agent/loop.go with its tool batches, its     *)
(* stop conditions and the memory gate of agent/memory_gate.go, the final  *)
(* answer of agent/loop_finalizer.go, and the simple chat that replaces a  *)
(* failed loop.  Beside the turn runs the host, which may delete the       *)
(* session and cancel its calls (agent/session_lifecycle.go) at any step.  *)
(*                                                                         *)
(* The transcript of the session is kept as what later readers depend on:  *)
(* how often the question is in it, the tool calls that wait for their     *)
(* result, and the number of answers.  The model and the tools answer      *)
(* anything; a session write may fail.  Texts, token counts, the context   *)
(* window, hooks and the approval dialogue are left out.                   *)
(***************************************************************************)
EXTENDS Integers, Sequences, FiniteSets, SequencesExt

CONSTANTS
    Calls,             \* tool calls: a name with its canonical arguments
    Fetches,           \* those that fetch a target and count as search evidence
    Observes,          \* those that only take a screenshot
    Results,           \* what a tool may return
    BadResults,        \* the results failureRepeatKey recognises
    None,              \* no result yet
    Skipped,           \* the text "Skipped duplicate ..."
    Foreground,        \* loopCfg.Foreground: no simple chat after a failed loop
    MaxIterations,     \* loopCfg.MaxIterations
    RepeatLimit,       \* loopCfg.RepeatToolCallLimit
    ToolOnlyLimit,     \* loopCfg.ToolOnlyIterationLimit
    DuplicateLimit,    \* loopCfg.DuplicateFetchLimit
    FailureLimit,      \* failureRepeatLimit
    ObserveLimit,      \* computerObserveOnlyLimit
    EmptyRetries,      \* maxEmptyResponseRetries
    GateTools,         \* the sets of tools a turn's memory route may require
    MaxBatch,          \* bound: calls of one model response
    MaxFaults          \* bound: failed session writes

ASSUME TurnAssumption ==
    /\ Fetches \subseteq Calls /\ Observes \subseteq Calls
    /\ BadResults \subseteq Results /\ Results # {}
    /\ None \notin Results /\ Skipped \notin Results /\ None # Skipped
    /\ Foreground \in BOOLEAN
    /\ {MaxIterations, RepeatLimit, ToolOnlyLimit, DuplicateLimit, ObserveLimit}
           \subseteq Nat \ {0}
    /\ {FailureLimit, EmptyRetries, MaxBatch, MaxFaults} \subseteq Nat
    /\ GateTools \subseteq SUBSET Calls /\ IsFiniteSet(Calls)

VARIABLES
    phase,      \* where the turn is
    mode,       \* "loop", or "simple" once the simple chat has taken over
    round,      \* result.Iterations
    atLimit,    \* synthesizeAtLimit of this round
    memory,     \* loopRuntimeState
    gate,       \* memoryToolGate
    batch,      \* the tool calls being executed, and whether the gate asked for them
    results,    \* their results that are not stored yet
    ran,        \* result.ToolCalls is not empty
    sess,       \* the session: transcript and tombstone
    call,       \* sessionCalls entry of the turn and its context
    outcome,    \* what the caller gets
    faults,     \* failed session writes so far
    hist        \* history that only the properties read

vars == <<phase, mode, round, atLimit, memory, gate, batch, results, ran, sess,
          call, outcome, faults, hist>>

Evidence == 0 .. 3      \* only the thresholds 2 and 3 are told apart

NoBatch == [calls |-> <<>>, silent |-> FALSE, gate |-> FALSE, news |-> {}]

Init ==
    /\ phase = "start" /\ mode = "loop" /\ round = 0 /\ atLimit = FALSE
    /\ memory = [repeat |-> [c \in Calls |-> 0], last |-> [c \in Calls |-> None],
                 failures |-> [c \in Calls |-> 0], urls |-> [c \in Calls |-> 0],
                 evidence |-> 0, forced |-> FALSE, silent |-> 0, looks |-> 0,
                 empty |-> 0, err |-> FALSE]
    /\ \E need \in GateTools, unavailable \in BOOLEAN :
           gate = [required |-> need, unavailable |-> unavailable,
                   attempted |-> {}, synthesis |-> FALSE]
    /\ batch = NoBatch /\ results = <<>> /\ ran = FALSE
    /\ sess = [questions |-> 0, open |-> <<>>, answers |-> 0, deleted |-> FALSE]
    /\ call = [registered |-> FALSE, cancelled |-> FALSE]
    /\ outcome = "none" /\ faults = 0
    /\ hist = [seen |-> {}, told |-> FALSE, stale |-> [c \in Calls |-> 0],
               swept |-> FALSE, lost |-> FALSE]

-----------------------------------------------------------------------------
(* The session.  A write fails when the handle was deleted, or by a fault. *)

MayFail == sess.deleted \/ faults < MaxFaults

Failed ==
    /\ MayFail
    /\ faults' = IF sess.deleted THEN faults ELSE faults + 1
    /\ hist' = [hist EXCEPT !.lost = TRUE]

\* The loop or the simple chat returns: finish() forgets the call.  After a
\* loop that failed for another reason than the session or its context, the
\* simple chat starts over.
End(why) ==
    /\ call' = [call EXCEPT !.registered = FALSE]
    /\ batch' = NoBatch /\ results' = <<>>
    /\ IF why = "other" /\ mode = "loop" /\ ~Foreground
       THEN phase' = "start" /\ mode' = "simple" /\ UNCHANGED outcome
       ELSE phase' = "ended" /\ outcome' = why /\ UNCHANGED mode
    /\ UNCHANGED <<round, atLimit>>

-----------------------------------------------------------------------------
(* beginSessionCall: the call is registered before the handle is checked.  *)

Register ==
    /\ phase = "start"
    /\ phase' = "registered"
    /\ call' = [registered |-> TRUE, cancelled |-> FALSE]
    /\ UNCHANGED <<mode, round, atLimit, memory, gate, batch, results, ran, sess,
                   outcome, faults, hist>>

\* Faulty: only the context is looked at.
HistoryOfContext == IF call.cancelled THEN "stopped" ELSE "ok"

\* checkSessionHistory: the context first, then the tombstone.
History == CASE call.cancelled -> "stopped"
             [] ~call.cancelled /\ sess.deleted -> "session"
             [] OTHER -> "ok"

CheckHandle ==
    /\ phase = "registered"
    /\ IF History = "ok"
       THEN /\ phase' = IF mode = "loop" THEN "prepare" ELSE "asked"
            /\ UNCHANGED <<mode, round, atLimit, batch, results, call, outcome>>
       ELSE End(History)
    /\ UNCHANGED <<memory, gate, ran, sess, faults, hist>>

\* Classification, compaction and context are done; the question is stored.
StoreQuestion ==
    /\ phase = "prepare"
    /\ \/ /\ ~sess.deleted
          /\ sess' = [sess EXCEPT !.questions = @ + 1]
          /\ phase' = "reason"
          /\ UNCHANGED <<mode, round, atLimit, batch, results, call, outcome,
                         faults, hist>>
       \/ /\ Failed
          /\ End("session")
          /\ UNCHANGED sess
    /\ UNCHANGED <<memory, gate, ran>>

-----------------------------------------------------------------------------
(* The memory gate.                                                        *)

Unmet(g) == g.required \ g.attempted

\* nextToolCalls, with one call for each missing tool.  Their order does not
\* matter here.
Orders(S) == {cs \in [1 .. Cardinality(S) -> S] : ToSet(cs) = S}

\* shouldBlockFinal
Blocking(g) == Unmet(g) # {} \/ (g.unavailable /\ ~g.synthesis)

\* markExecuted
Attempted(g, cs) == [g EXCEPT !.attempted = @ \cup (cs \cap g.required)]

\* executeMemoryGateForLoop, first half: it either stores a request for the
\* tools that are missing, or only asks for a synthesis.
EnforceGate ==
    \/ /\ Unmet(gate) = {}
       /\ gate' = [gate EXCEPT !.synthesis = TRUE]
       /\ phase' = "reason"
       /\ batch' = NoBatch
       /\ UNCHANGED <<memory, sess, faults, hist>>
    \/ /\ Unmet(gate) # {} /\ ~sess.deleted
       /\ \E cs \in Orders(Unmet(gate)) :
              /\ sess' = [sess EXCEPT !.open = @ \o cs]
              /\ batch' = [NoBatch EXCEPT !.calls = cs, !.gate = TRUE]
       /\ phase' = "execute"
       /\ UNCHANGED <<memory, gate, faults, hist>>
    \/ /\ Unmet(gate) # {} /\ Failed
       /\ memory' = [memory EXCEPT !.err = TRUE]
       /\ phase' = "reason"
       /\ batch' = NoBatch
       /\ UNCHANGED <<gate, sess>>

\* Where the code asks the gate and goes on with the next round.
GateStep ==
    /\ phase = "gate"
    /\ IF Blocking(gate)
       THEN EnforceGate
       ELSE /\ phase' = "reason" /\ batch' = NoBatch
            /\ UNCHANGED <<memory, gate, sess, faults, hist>>
    /\ UNCHANGED <<mode, round, atLimit, results, ran, call, outcome>>

-----------------------------------------------------------------------------
(* Reason: the model is asked, at most MaxIterations times.                *)

Synthesizes == round = MaxIterations - 1 /\ ran /\ ~Blocking(gate)

RoundsLeft == round < MaxIterations

Reason ==
    /\ phase = "reason" /\ RoundsLeft
    /\ IF memory.err
       THEN End("session") /\ UNCHANGED hist
       ELSE IF History # "ok"
       THEN End(History) /\ UNCHANGED hist
       ELSE /\ phase' = "asked"
            /\ round' = round + 1
            /\ atLimit' = Synthesizes
            /\ hist' = [hist EXCEPT !.seen = gate.attempted, !.told = gate.synthesis]
            /\ UNCHANGED <<mode, batch, results, call, outcome>>
    /\ UNCHANGED <<memory, gate, ran, sess, faults>>

\* Faulty: the turn waits until the session is saved.
RunOutUntilSaved ==
    /\ phase = "reason" /\ round = MaxIterations
    /\ ~sess.deleted /\ End("other")
    /\ UNCHANGED <<memory, gate, ran, sess, faults, hist>>

\* No round is left.  With or without a gate that is an error, and the
\* session is saved first.
RunOut ==
    /\ phase = "reason" /\ round = MaxIterations
    /\ \/ ~sess.deleted /\ End("other") /\ UNCHANGED <<faults, hist>>
       \/ Failed /\ End("session")
    /\ UNCHANGED <<memory, gate, ran, sess>>

\* The provider fails.  A cancelled context and a deadline are told apart
\* from the other errors.
ModelFails ==
    /\ phase = "asked"
    /\ \E why \in IF call.cancelled THEN {"stopped"} ELSE {"stopped", "other"} :
           End(why)
    /\ UNCHANGED <<memory, gate, ran, sess, faults, hist>>

\* Faulty: a failed save is not a session error.
FinalizeSaveErrorLost ==
    \/ /\ ~sess.deleted
       /\ sess' = [sess EXCEPT !.answers = @ + 1]
       /\ \/ End("answered") /\ UNCHANGED <<faults, hist>>
          \/ Failed /\ End("other")
    \/ Failed /\ End("session") /\ UNCHANGED sess

\* Finalize: the answer is stored and the session saved; either may fail.
Finalize ==
    /\ \/ /\ ~sess.deleted
          /\ sess' = [sess EXCEPT !.answers = @ + 1]
          /\ \/ End("answered") /\ UNCHANGED <<faults, hist>>
             \/ Failed /\ End("session")
       \/ /\ Failed
          /\ End("session")
          /\ UNCHANGED sess

\* A response at the limit that is empty or asks for tools is replaced by a
\* list of the tool results.
AnswerAtLimit ==
    /\ phase = "asked" /\ mode = "loop" /\ atLimit
    /\ Finalize
    /\ UNCHANGED <<memory, gate, ran>>

\* A response without tool calls: the gate first, then processDirectResponse.
\* The artifact guard may block a text.
ReplyText ==
    /\ phase = "asked" /\ mode = "loop"
    /\ IF Blocking(gate)
       THEN EnforceGate /\ UNCHANGED <<mode, round, atLimit, results, call, outcome>>
       ELSE /\ memory' = [memory EXCEPT !.empty = 0]
            /\ \/ Finalize
               \/ /\ phase' = "reason"
                  /\ UNCHANGED <<mode, round, atLimit, batch, results, sess, call,
                                 outcome, faults, hist>>
            /\ UNCHANGED gate
    /\ UNCHANGED ran

ReplyEmpty ==
    /\ phase = "asked" /\ mode = "loop" /\ ~atLimit
    /\ IF Blocking(gate)
       THEN EnforceGate /\ UNCHANGED <<mode, round, atLimit, results, call, outcome>>
       ELSE /\ UNCHANGED gate
            /\ IF memory.empty < EmptyRetries
               THEN /\ memory' = [memory EXCEPT !.empty = @ + 1]
                    /\ phase' = "reason"
                    /\ UNCHANGED <<mode, round, atLimit, batch, results, sess, call,
                                   outcome, faults, hist>>
               ELSE Finalize /\ UNCHANGED memory
    /\ UNCHANGED ran

-----------------------------------------------------------------------------
(* Act: processToolCallBatch.                                              *)

Count(c, cs) == Cardinality({i \in DOMAIN cs : cs[i] = c})

\* A batch of screenshots only, with no action.
ObserveOnly(cs) == ToSet(cs) \cap Observes # {}

\* What the response itself changes, before its calls are looked at.
Heard(cs, silent) ==
    [memory EXCEPT !.empty = 0,
                   !.silent = IF silent THEN @ + 1 ELSE 0,
                   !.looks = IF ObserveOnly(cs) THEN @ + 1 ELSE 0]

FailedTooOften(m, c) == m.failures[c] >= FailureLimit

\* Every call counts towards repetition, except those that failed too often.
Counted(m, cs) ==
    LET more(f, S) == [c \in Calls |-> IF c \in S /\ ~FailedTooOften(m, c)
                                       THEN f[c] + Count(c, cs) ELSE f[c]]
    IN [m EXCEPT !.repeat = more(@, Calls), !.urls = more(@, Fetches)]

FailureStopped(m, cs) == \E c \in ToSet(cs) : FailedTooOften(m, c)

\* allRepeated: m is before the counting, which each call sees one by one.
AllRepeated(m, cs) ==
    \A c \in ToSet(cs) : FailedTooOften(m, c) \/ m.repeat[c] + 1 >= RepeatLimit

Quiet(m, silent) == silent \/ m.silent >= ToolOnlyLimit

Repeats(m, cs, silent) ==
    Quiet(m, silent) /\ (FailureStopped(m, cs) \/ AllRepeated(m, cs))

\* Repetition with search results at hand asks once for a synthesis instead.
MaySynthesize(m, cs) == ~FailureStopped(m, cs) /\ ~m.forced /\ m.evidence > 0

\* The request is stored before anything runs.
StoreCalls(cs, silent) ==
    \/ /\ ~sess.deleted
       /\ sess' = [sess EXCEPT !.open = @ \o cs]
       /\ batch' = [NoBatch EXCEPT !.calls = cs, !.silent = silent]
       /\ phase' = "execute"
       /\ UNCHANGED <<mode, round, atLimit, results, call, outcome, faults, hist>>
    \/ /\ Failed
       /\ End("session")
       /\ UNCHANGED sess

ReplyCalls(cs, silent) ==
    /\ phase = "asked" /\ mode = "loop" /\ ~atLimit
    /\ LET m == Heard(cs, silent)
           next(p) == /\ phase' = p
                      /\ UNCHANGED <<mode, round, atLimit, batch, results, sess, call,
                                     outcome, faults, hist>>
       IN IF m.looks >= ObserveLimit
          THEN memory' = m /\ next("stop")
          ELSE IF ~Repeats(m, cs, silent)
          THEN memory' = Counted(m, cs) /\ StoreCalls(cs, silent)
          ELSE IF MaySynthesize(m, cs)
          THEN memory' = [Counted(m, cs) EXCEPT !.forced = TRUE] /\ next("gate")
          ELSE memory' = Counted(m, cs) /\ next("stop")
    /\ UNCHANGED <<gate, ran>>

\* A stop text ends the turn, unless the gate still blocks.
StopStep ==
    /\ phase = "stop"
    /\ IF Blocking(gate)
       THEN EnforceGate /\ UNCHANGED <<mode, round, atLimit, results, call, outcome>>
       ELSE Finalize /\ UNCHANGED <<memory, gate>>
    /\ UNCHANGED ran

-----------------------------------------------------------------------------
(* The tools run, all of a batch before the first result is stored.        *)

Duplicate(c) == c \in Fetches /\ memory.urls[c] > DuplicateLimit

\* Faulty: a skipped fetch yields no result at all.
ExecuteDropsSkipped ==
    /\ phase = "execute"
    /\ \E rs \in [1 .. Len(batch.calls) -> Results \cup {Skipped}] :
          /\ \A i \in DOMAIN rs : (rs[i] = Skipped) <=> Duplicate(batch.calls[i])
          /\ results' = SelectSeq(rs, LAMBDA r : r # Skipped)
    /\ gate' = IF batch.gate THEN Attempted(gate, ToSet(batch.calls)) ELSE gate
    /\ phase' = "record"
    /\ UNCHANGED <<mode, round, atLimit, memory, batch, ran, sess, call, outcome, faults, hist>>

Execute ==
    /\ phase = "execute"
    /\ \E rs \in [1 .. Len(batch.calls) -> Results \cup {Skipped}] :
          /\ \A i \in DOMAIN rs : (rs[i] = Skipped) <=> Duplicate(batch.calls[i])
          /\ results' = rs
    /\ gate' = IF batch.gate THEN Attempted(gate, ToSet(batch.calls)) ELSE gate
    /\ phase' = "record"
    /\ UNCHANGED <<mode, round, atLimit, memory, batch, ran, sess, call, outcome, faults, hist>>

\* isUsefulSearchEvidence, which a skipped fetch also passes.
Useful(c, r) == c \in Fetches /\ r \notin BadResults

News(c, r) == memory.last[c] # r

\* What a result leaves in the loop's memory; the gate's own calls neither
\* reset the repetition nor count as failures.
Noted(c, r) ==
    LET seen == [memory EXCEPT
                   !.last[c] = r,
                   !.evidence = IF Useful(c, r) /\ @ < 3 THEN @ + 1 ELSE @]
    IN IF batch.gate THEN seen
       ELSE [seen EXCEPT
               !.repeat[c] = IF News(c, r) THEN 0 ELSE @,
               !.failures[c] = IF r \in BadResults THEN @ + 1 ELSE @]

\* shouldForceSearchSynthesis
EnoughEvidence(m) == (m.evidence >= 3 /\ m.silent >= 1) \/ (m.evidence >= 2 /\ m.silent >= 2)

\* maybeAppendSearchSynthesisMessage
Synthesis(m) == [m EXCEPT !.forced = @ \/ EnoughEvidence(m)]

\* A tool message answers the first call that is open.
Answer(c) ==
    [sess EXCEPT !.open = IF @ # <<>> /\ Head(@) = c THEN Tail(@) ELSE @]

\* For each call, the silent rounds spent on it alone since it last had news.
Stale(b) ==
    [c \in Calls |-> IF c \notin ToSet(b.calls) THEN hist.stale[c]
                     ELSE IF c \in b.news THEN 0
                     ELSE IF b.silent /\ ToSet(b.calls) = {c} THEN hist.stale[c] + 1
                     ELSE hist.stale[c]]

StoreResult(c, b, m) ==
    /\ ~sess.deleted
    /\ sess' = Answer(c)
    /\ results' = Tail(results)
    /\ IF Len(results) > 1
       THEN /\ batch' = b /\ phase' = "record" /\ memory' = m
            /\ UNCHANGED hist
       ELSE /\ batch' = NoBatch
            /\ IF b.gate
               THEN phase' = "synthesis" /\ memory' = m /\ UNCHANGED hist
               ELSE /\ phase' = "gate" /\ memory' = Synthesis(m)
                    /\ hist' = [hist EXCEPT !.stale = Stale(b)]
    /\ UNCHANGED <<mode, round, atLimit, call, outcome, faults>>

\* Faulty: the gate forgets that its result was not stored.
LoseResultForgotten(m) ==
    /\ Failed
    /\ memory' = m
    /\ IF batch.gate
       THEN /\ phase' = "reason" /\ batch' = NoBatch /\ results' = <<>>
            /\ UNCHANGED <<mode, round, atLimit, call, outcome>>
       ELSE End("session")
    /\ UNCHANGED sess

\* A failed write ends the loop at once in a batch of the model; in a batch
\* of the gate it is only remembered, for the next round to see.
LoseResult(m) ==
    /\ Failed
    /\ memory' = [m EXCEPT !.err = TRUE]
    /\ IF batch.gate
       THEN /\ phase' = "reason" /\ batch' = NoBatch /\ results' = <<>>
            /\ UNCHANGED <<mode, round, atLimit, call, outcome>>
       ELSE End("session")
    /\ UNCHANGED sess

Record ==
    /\ phase = "record"
    /\ LET c == batch.calls[Len(batch.calls) - Len(results) + 1]
           r == Head(results)
       IN /\ gate' = IF batch.gate THEN gate ELSE Attempted(gate, {c})
          /\ \/ StoreResult(c, [batch EXCEPT !.news = IF News(c, r) THEN @ \cup {c} ELSE @], Noted(c, r))
             \/ LoseResult(Noted(c, r))
    /\ ran' = TRUE

\* Faulty: the text that was held back is the answer after all.
PromptThenFinish ==
    /\ phase = "synthesis"
    /\ gate' = [gate EXCEPT !.synthesis = TRUE]
    /\ phase' = "stop"
    /\ UNCHANGED <<mode, round, atLimit, memory, batch, results, ran, sess, call,
                   outcome, faults, hist>>

\* The gate's tools have run: their results go to the model with a prompt.
PromptSynthesis ==
    /\ phase = "synthesis"
    /\ gate' = [gate EXCEPT !.synthesis = TRUE]
    /\ phase' = "reason"
    /\ UNCHANGED <<mode, round, atLimit, memory, batch, results, ran, sess, call,
                   outcome, faults, hist>>

-----------------------------------------------------------------------------
(* The simple chat: one model call without tools; question and answer are  *)
(* stored after it.                                                        *)

SimpleReply ==
    /\ phase = "asked" /\ mode = "simple"
    /\ \/ /\ ~sess.deleted
          /\ sess' = [sess EXCEPT !.questions = @ + 1, !.answers = @ + 1]
          /\ \/ End("answered") /\ UNCHANGED <<faults, hist>>
             \/ Failed /\ End("session")
       \/ /\ Failed /\ End("session")
          /\ \/ ~sess.deleted /\ sess' = [sess EXCEPT !.questions = @ + 1]
             \/ UNCHANGED sess
    /\ UNCHANGED <<memory, gate, ran>>

-----------------------------------------------------------------------------
(* The host: deletes the session, and cancels its calls after a deletion   *)
(* or on its own.                                                          *)

DeleteSession ==
    /\ ~sess.deleted
    /\ sess' = [sess EXCEPT !.deleted = TRUE]
    /\ UNCHANGED <<phase, mode, round, atLimit, memory, gate, batch, results, ran,
                   call, outcome, faults, hist>>

CancelSession ==
    /\ call' = [call EXCEPT !.cancelled = @ \/ call.registered]
    /\ hist' = [hist EXCEPT !.swept = @ \/ sess.deleted]
    /\ UNCHANGED <<phase, mode, round, atLimit, memory, gate, batch, results, ran,
                   sess, outcome, faults>>

Batches == UNION {[1 .. n -> Calls] : n \in 1 .. MaxBatch}

TurnStep ==
    \/ Register \/ CheckHandle \/ StoreQuestion
    \/ Reason \/ RunOut \/ ModelFails
    \/ AnswerAtLimit \/ ReplyText \/ ReplyEmpty
    \/ \E cs \in Batches, silent \in BOOLEAN : ReplyCalls(cs, silent)
    \/ StopStep \/ GateStep
    \/ Execute \/ Record \/ PromptSynthesis
    \/ SimpleReply

Done == phase = "ended" /\ UNCHANGED vars

Next == TurnStep \/ DeleteSession \/ CancelSession \/ Done

\* The model answers within its timeout and the tools return, so the turn
\* never rests before its end; the host need not do anything.
Fairness == WF_vars(TurnStep)

Spec == Init /\ [][Next]_vars /\ Fairness

-----------------------------------------------------------------------------
(* Properties.                                                             *)

Phases == {"start", "registered", "prepare", "reason", "asked", "gate", "stop",
           "execute", "record", "synthesis", "ended"}

\* Between the check of the handle and the end of the loop.
Working == phase \in Phases \ {"start", "registered", "ended"}

Memories == [repeat : [Calls -> Nat], last : [Calls -> Results \cup {None, Skipped}],
           failures : [Calls -> Nat], urls : [Calls -> Nat], evidence : Evidence,
           forced : BOOLEAN, silent : Nat, looks : Nat, empty : 0 .. EmptyRetries,
           err : BOOLEAN]

Gates == [required : GateTools, unavailable : BOOLEAN,
         attempted : SUBSET Calls, synthesis : BOOLEAN]

BatchSet == [calls : Seq(Calls), silent : BOOLEAN, gate : BOOLEAN, news : SUBSET Calls]

Sessions == [questions : Nat, open : Seq(Calls), answers : Nat, deleted : BOOLEAN]

Ghost == [seen : SUBSET Calls, told : BOOLEAN, stale : [Calls -> Nat],
            swept : BOOLEAN, lost : BOOLEAN]

\* The types of the variables; the rounds stay within MaxIterations.
TypeOK ==
    /\ phase \in Phases /\ mode \in {"loop", "simple"}
    /\ round \in 0 .. MaxIterations /\ atLimit \in BOOLEAN
    /\ memory \in Memories /\ gate \in Gates /\ batch \in BatchSet
    /\ results \in Seq(Results \cup {Skipped})
    /\ ran \in BOOLEAN
    /\ sess \in Sessions
    /\ call \in [registered : BOOLEAN, cancelled : BOOLEAN]
    /\ outcome \in {"none", "answered", "session", "stopped", "other"}
    /\ faults \in 0 .. MaxFaults
    /\ hist \in Ghost

\* The provider protocol of the transcript: the calls that wait for a result
\* are those of the batch in hand, in its order; nothing else is ever left
\* open unless a write failed, so the model never meets an unanswered call.
TranscriptInOrder ==
    \/ hist.lost
    \/ sess.open = CASE phase = "execute" -> batch.calls
                     [] phase = "record" -> SubSeq(batch.calls,
                            Len(batch.calls) - Len(results) + 1, Len(batch.calls))
                     [] OTHER -> <<>>

\* A tool runs only when the session already holds its request: a restart
\* finds every call that may have had an effect.
RunsStoredCalls ==
    [][Execute => \E k \in 0 .. Len(sess.open) :
                      SubSeq(sess.open, k + 1, Len(sess.open)) = batch.calls]_vars

\* The loop answers only with text the model wrote, or a stop it reached,
\* after the results of every required tool were in its context, and after it
\* was told of the tools that could not run.
AnswerSawChecks ==
    mode = "loop" /\ sess.answers > 0 =>
        /\ gate.required \subseteq hist.seen
        /\ gate.unavailable => hist.told

\* A lost session write ends the turn: no model is asked, no tool runs and no
\* success is reported after it, by the loop or by the simple chat.
LostWriteEndsTurn ==
    hist.lost => phase \in {"reason", "ended"} /\ outcome # "answered"

\* Once a deletion and the cancellation after it are through, no turn works
\* on the session with a live context, however they interleave with the start
\* of the turn.
DeletedTurnIsCancelled == hist.swept /\ Working => call.cancelled

\* A turn is answered at most once, and exactly once when it reports success.
AnsweredOnce ==
    /\ sess.answers <= 1
    /\ outcome = "answered" => sess.answers = 1
    /\ mode = "simple" /\ phase # "ended" => sess.answers = 0

\* A model that asks for one call over and over, without a word, gets the
\* result it already has fewer than RepeatLimit times, whatever other calls,
\* gate runs and remarks come in between.
StaleRoundsBounded == \A c \in Calls : hist.stale[c] < RepeatLimit

\* Every turn ends.
TurnEnds == <>(phase = "ended")
=============================================================================
