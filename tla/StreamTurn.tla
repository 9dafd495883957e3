------------------------------ MODULE StreamTurn ------------------------------
(***************************************************************************)
(* A turn that streams: ChatWithSessionStreamForSession and its goroutine, *)
(* the native and the simulated rounds, the answer after an interruption,  *)
(* and the adapter that forwards the events to a gateway.  The goroutine   *)
(* sends on a channel of bounded length; a plain send waits for room, a    *)
(* send by sendForegroundEvent also gives up when the context ends.  The   *)
(* adapter reads until the channel is closed or the caller's context ends. *)
(*                                                                         *)
(* What the model and the tools answer is free, and so is what the pattern *)
(* of the calls says (ChatTurn has those counters).  Usage, reasoning and  *)
(* the texts of notices are left out.                                      *)
(*                                                                         *)
(* src/agent/stream.go, event_adapter.go, memory_gate.go                   *)
(***************************************************************************)
EXTENDS Integers, Sequences, FiniteSets

CONSTANTS
    Capacity,       \* places in the events channel
    MaxRounds,      \* loopCfg.MaxIterations
    MaxChunks,      \* bound: chunks with text in one attempt
    MaxEmpty,       \* maxEmptyResponseRetries
    MaxWriteFaults  \* bound: failed session writes

ASSUME StreamAssumption ==
    /\ Capacity \in Nat /\ MaxRounds \in Nat \ {0}
    /\ MaxChunks \in Nat /\ MaxEmpty \in Nat /\ MaxWriteFaults \in Nat

VARIABLES
    at,         \* where the goroutine is
    mode,       \* native or simulated
    remaining,  \* rounds left, this one included
    tries,      \* soft retries used: of the turn when native, else of the round
    heard,      \* chunks of text received in this attempt
    shown,      \* those of them sent to the reader
    empties,    \* state.emptyResponseRetries
    cited,      \* state.citationToolCalls is not empty
    gate,       \* the memory gate
    waiting,    \* state.pendingDelegateTaskIDs is not empty
    batch,      \* tool calls whose result is not stored, and who asked for them
    out,        \* events the goroutine is sending, in order
    buffer,     \* events in the channel
    sent,       \* history: terminal events that were sent, and what they said
    cause,      \* why the turn's context ended
    caller,     \* the caller's context
    adapter,    \* the adapter: reading, or gone
    registered, \* sessionCalls entry and sandbox snapshot of the turn
    stored,     \* the session
    answer,     \* what finalizeStream is about to store
    writeFaults

turnVars == <<mode, remaining, tries, heard, shown, empties, cited, gate, waiting, batch>>
channelVars == <<buffer, sent>>
hostVars == <<cause, caller, adapter>>
streamVars == <<at, turnVars, out, channelVars, hostVars, registered, stored, answer, writeFaults>>

StreamCall == {"search", "delegate", "wait"}
NoBatch == [calls |-> {}, gate |-> FALSE]

Plain(kind) == [kind |-> kind, soft |-> FALSE]
Soft(kind) == [kind |-> kind, soft |-> TRUE]

StreamInit ==
    /\ at = "begin" /\ mode \in {"native", "simulated"} /\ remaining = MaxRounds
    /\ tries = 0 /\ heard = 0 /\ shown = 0 /\ empties = 0 /\ cited = FALSE
    /\ gate \in [missing : BOOLEAN, unavailable : BOOLEAN, told : {FALSE}]
    /\ waiting = FALSE /\ batch = NoBatch
    /\ out = <<>> /\ buffer = 0
    /\ sent = [last |-> "none", more |-> FALSE, dropped |-> FALSE]
    /\ cause = "none" /\ caller = "live" /\ adapter = "reading"
    /\ registered = FALSE
    /\ stored = [question |-> FALSE, open |-> {}, answer |-> "none"]
    /\ answer = "none" /\ writeFaults = 0

-----------------------------------------------------------------------------
(* The channel and the host.                                               *)

\* events <- e
Send ==
    /\ out # <<>> /\ buffer < Capacity
    /\ buffer' = buffer + 1 /\ out' = Tail(out)
    /\ LET kind == Head(out).kind
       IN sent' = [sent EXCEPT !.more = @ \/ sent.last # "none",
                               !.last = IF kind \in {"done", "error"} THEN kind ELSE @]
    /\ UNCHANGED <<at, turnVars, hostVars, registered, stored, answer, writeFaults>>

\* sendForegroundEvent gives up.
Drop ==
    /\ out # <<>> /\ Head(out).soft /\ cause # "none"
    /\ out' = Tail(out)
    /\ sent' = [sent EXCEPT !.dropped = TRUE]
    /\ UNCHANGED <<at, turnVars, buffer, hostVars, registered, stored, answer, writeFaults>>

\* ToTurnChatEventStream forwards an event, or leaves when its context ended.
Receive ==
    /\ adapter = "reading" /\ buffer > 0
    /\ buffer' = buffer - 1
    /\ UNCHANGED <<at, turnVars, out, sent, hostVars, registered, stored, answer, writeFaults>>

Leave ==
    /\ adapter = "reading" /\ caller # "live"
    /\ adapter' = "gone"
    /\ UNCHANGED <<at, turnVars, out, channelVars, cause, caller, registered, stored,
                   answer, writeFaults>>

\* The caller's context is cancelled or runs out, or the session's calls are
\* cancelled.  The first cause counts.
EndContext(why) ==
    /\ IF why = "session" THEN registered /\ UNCHANGED caller
                          ELSE caller = "live" /\ caller' = why
    /\ cause = "none" \/ why # "session"
    /\ cause' = IF cause = "none" THEN why ELSE cause
    /\ UNCHANGED <<at, turnVars, out, channelVars, adapter, registered, stored, answer, writeFaults>>

-----------------------------------------------------------------------------
(* The goroutine.  It takes a step when its sends are through.             *)

Quiet == UNCHANGED <<channelVars, hostVars>>
Still == UNCHANGED <<registered, stored, answer, writeFaults>>
Step(p) == at = p /\ out = <<>>

Go(p, es) == at' = p /\ out' = es

EndWith(kind) == Go("ended", <<Plain(kind)>>)

\* A write to the session succeeds with this effect, or fails and the turn
\* ends with an error.
Write(effect, p, es) ==
    \/ stored' = effect /\ Go(p, es) /\ UNCHANGED writeFaults
    \/ /\ writeFaults < MaxWriteFaults /\ writeFaults' = writeFaults + 1
       /\ EndWith("error") /\ UNCHANGED stored

\* The call is registered and then refused when its context has ended; it is
\* refused, too, when the session is deleted or no provider or sandbox is there.
\* A refused call starts no goroutine.
BeginSessionCall ==
    /\ Step("begin")
    /\ \/ cause = "none" /\ registered' = TRUE /\ Go("prepare", <<>>)
       \/ Go("closed", <<>>) /\ UNCHANGED registered
    /\ UNCHANGED <<turnVars, stored, answer, writeFaults>> /\ Quiet

\* A durable turn runs elsewhere; its outcome is the only event here.
RunForeground ==
    /\ Step("prepare")
    /\ \E kind \in {"done", "error"} :
          /\ Go("ended", <<Soft(kind)>>)
          /\ stored' = IF kind = "done" THEN [stored EXCEPT !.question = TRUE, !.answer = "model"]
                                        ELSE stored
    /\ gate' = [missing |-> FALSE, unavailable |-> FALSE, told |-> FALSE]
    /\ UNCHANGED <<mode, remaining, tries, heard, shown, empties, cited, waiting, batch,
                   registered, answer, writeFaults>> /\ Quiet

StoreQuestion ==
    /\ Step("prepare")
    /\ \/ /\ stored' = [stored EXCEPT !.question = TRUE]
          /\ Go("ask", <<Plain("info")>>) /\ UNCHANGED writeFaults
       \/ /\ writeFaults < MaxWriteFaults /\ writeFaults' = writeFaults + 1
          /\ Go("ended", <<Soft("error")>>) /\ UNCHANGED stored
    /\ UNCHANGED <<turnVars, registered, answer>> /\ Quiet

\* shouldBlockFinal
Blocking == gate.missing \/ (gate.unavailable /\ ~gate.told)

\* synthesizeAtLimit
AtLimit == remaining = 1 /\ cited /\ ~waiting /\ ~Blocking

\* A chunk of the provider's stream.  Its text goes out at once, with what was
\* held before, unless the answer may not be final or the text looks like the
\* start of a tool call.
Chunk(held) ==
    /\ Step("ask") /\ mode = "native" /\ heard < MaxChunks
    /\ heard' = heard + 1
    /\ IF AtLimit \/ Blocking \/ waiting \/ held
       THEN shown' = shown /\ Go("ask", <<>>)
       ELSE shown' = heard + 1 /\ Go("ask", <<Plain("text")>>)
    /\ UNCHANGED <<mode, remaining, tries, empties, cited, gate, waiting, batch>>
    /\ Still /\ Quiet

\* Faulty: the rounds are not counted.
NextRoundUncounted(m) ==
    /\ mode' = m /\ UNCHANGED remaining
    /\ tries' = IF m = "native" THEN tries ELSE 0
    /\ heard' = 0 /\ shown' = 0
    /\ Go("ask", <<Plain("info")>>)
    /\ UNCHANGED <<stored, answer, writeFaults>>

\* The next round; only a round of tools stays native.
NextRound(m) ==
    /\ mode' = m /\ remaining' = remaining - 1
    /\ tries' = IF m = "native" THEN tries ELSE 0
    /\ heard' = 0 /\ shown' = 0
    /\ Go("ask", <<Plain("info")>>)
    /\ UNCHANGED <<stored, answer, writeFaults>>

\* After these events, finalizeStream stores an answer of this kind.
Finalize(kind, es) ==
    /\ answer' = kind /\ Go("finalize", es)
    /\ UNCHANGED <<mode, remaining, tries, heard, shown, stored, writeFaults>>

\* finalizeStreamAfterInterruption: an error when the session's calls were
\* cancelled, a notice when the caller cancelled, else one more request.
TurnInterrupted(err) ==
    \/ cause = "session" /\ EndWith("error") /\ UNCHANGED answer
    \/ cause = "cancelled" /\ answer' = "notice" /\ Go("finalize", <<>>)
    \/ cause \in {"none", "expired"} /\ answer' = err /\ Go("synthesis", <<>>)

\* retryOnce and chatLoopIterationWithSoftRetry: only a timeout of the round
\* itself, and only while nothing was shown.
MayRetry(err) == err = "timeout" /\ cause = "none" /\ tries = 0 /\ shown = 0

\* The request fails, or its stream breaks or ends without a terminal chunk.
AskFails(err) ==
    /\ Step("ask")
    /\ IF MayRetry(err)
       THEN /\ tries' = 1 /\ heard' = 0
            /\ Go("ask", <<Soft("info")>>) /\ UNCHANGED answer
       ELSE TurnInterrupted(err) /\ UNCHANGED <<tries, heard>>
    /\ UNCHANGED <<mode, remaining, shown, empties, cited, gate, waiting, batch,
                   registered, stored, writeFaults>> /\ Quiet

\* A native stream is complete, but the context of its round has ended.
TooLate ==
    /\ Step("ask") /\ mode = "native"
    /\ TurnInterrupted("timeout")
    /\ UNCHANGED <<turnVars, registered, stored, writeFaults>> /\ Quiet

\* One more request without tools, on a context of its own.
Synthesize ==
    /\ Step("synthesis")
    /\ \/ answer' = "synthesis" /\ Go("finalize", <<>>)
       \/ answer = "timeout" /\ answer' = "notice" /\ Go("finalize", <<>>)
       \/ answer = "other" /\ answer' = "none" /\ EndWith("error")
    /\ UNCHANGED <<turnVars, registered, stored, writeFaults>> /\ Quiet

-----------------------------------------------------------------------------
(* Responses without tools.                                                *)

\* What is left to do once the gate does not block.
GoOn == batch' = NoBatch /\ UNCHANGED gate

\* continueAfterStreamMemoryGate: the missing tools are asked for and run, or
\* the model is told what could not run.  It is told after the tools, too.
AskForTools ==
    /\ batch' = [calls |-> {"search"}, gate |-> TRUE]
    /\ Write([stored EXCEPT !.open = {"search"}], "run", <<Plain("info")>>)
    /\ UNCHANGED <<mode, remaining, tries, heard, shown, gate, answer>>

TellModel ==
    /\ gate' = [gate EXCEPT !.told = TRUE] /\ batch' = NoBatch
    /\ IF remaining > 1 THEN NextRound("simulated") ELSE Finalize("notice", <<>>)

EnforceGate == IF gate.missing THEN AskForTools ELSE TellModel

\* continueAfterPendingDelegateTasks
CollectDelegates ==
    IF remaining > 1 THEN NextRound("simulated") ELSE Finalize("notice", <<>>)

\* Text that was not shown chunk by chunk.
Rest == IF mode = "simulated" \/ heard > shown THEN <<Plain("text")>> ELSE <<>>

\* The artifact guard may refuse the text, for another round or for a notice.
ReplyText ==
    /\ Step("ask") /\ (mode = "simulated" \/ heard > 0)
    /\ IF Blocking THEN EnforceGate /\ UNCHANGED empties
       ELSE /\ GoOn
            /\ IF waiting THEN CollectDelegates /\ UNCHANGED empties
               ELSE /\ empties' = 0
                    /\ \/ Finalize("model", Rest)
                       \/ remaining > 1 /\ NextRound("simulated")
                       \/ remaining = 1 /\ Finalize("notice", Rest)
    /\ UNCHANGED <<cited, waiting, registered>> /\ Quiet

\* Nothing but blanks, or calls of disabled tools.
ReplyEmpty ==
    /\ Step("ask") /\ ~AtLimit
    /\ IF Blocking THEN EnforceGate /\ UNCHANGED empties
       ELSE /\ GoOn
            /\ IF waiting THEN CollectDelegates /\ UNCHANGED empties
               ELSE IF empties < MaxEmpty /\ remaining > 1
               THEN empties' = empties + 1 /\ NextRound("simulated")
               ELSE Finalize("notice", <<>>) /\ UNCHANGED empties
    /\ UNCHANGED <<cited, waiting, registered>> /\ Quiet

\* Calls or nothing at the limit: the tool results are listed instead.
FallBack ==
    /\ Step("ask") /\ AtLimit
    /\ GoOn /\ Finalize("notice", <<Plain("text")>>)
    /\ UNCHANGED <<empties, cited, waiting, registered>> /\ Quiet

-----------------------------------------------------------------------------
(* Responses with tool calls.                                              *)

\* The calls repeat a pattern: screenshots end the turn at once, repetition
\* only when the gate lets it.
ReplyRepeats ==
    /\ Step("ask") /\ ~AtLimit
    /\ empties' = 0
    /\ \/ GoOn /\ Finalize("notice", <<>>)
       \/ Blocking /\ EnforceGate
    /\ UNCHANGED <<cited, waiting, registered>> /\ Quiet

\* The request is stored before anything runs.
ReplyCalls(calls) ==
    /\ Step("ask") /\ ~AtLimit
    /\ empties' = 0
    /\ batch' = [calls |-> calls, gate |-> FALSE]
    /\ Write([stored EXCEPT !.open = calls], "run", <<Plain("info")>>)
    /\ UNCHANGED <<mode, remaining, tries, heard, shown, cited, gate, waiting,
                   registered, answer>> /\ Quiet

\* A result is shown, then stored.  It may name a task that was delegated, or
\* say that all tasks have ended.
ShowResult ==
    /\ Step("run")
    /\ Go("record", <<Plain("info")>>)
    /\ UNCHANGED turnVars /\ Still /\ Quiet

Record(c) ==
    /\ Step("record") /\ c \in batch.calls
    /\ gate' = IF c = "search" THEN [gate EXCEPT !.missing = FALSE] ELSE gate
    /\ Write([stored EXCEPT !.open = @ \ {c}],
             IF batch.calls # {c} THEN "run" ELSE IF batch.gate THEN "tell" ELSE "save", <<>>)
    /\ batch' = [batch EXCEPT !.calls = @ \ {c}]
    /\ cited' = TRUE
    /\ waiting' \in CASE c = "delegate" -> {waiting, TRUE}
                      [] c = "wait" -> {waiting, FALSE}
                      [] OTHER -> {waiting}
    /\ UNCHANGED <<mode, remaining, tries, heard, shown, empties, registered, answer>> /\ Quiet

\* The gate's tools have run.
TellResults ==
    /\ Step("tell") /\ TellModel
    /\ UNCHANGED <<empties, cited, waiting, registered>> /\ Quiet

\* The session is saved and the next round begins, if one is left.
SaveResults ==
    /\ Step("save")
    /\ Write(stored, "next", <<>>)
    /\ UNCHANGED <<turnVars, registered, answer>> /\ Quiet

AfterTools ==
    /\ Step("next")
    /\ IF Blocking THEN EnforceGate
       ELSE /\ GoOn
            /\ \/ remaining > 1 /\ NextRound(mode)
               \/ remaining = 1 /\ waiting /\ Finalize("notice", <<>>)
               \/ /\ remaining = 1 /\ ~waiting /\ EndWith("error")
                  /\ UNCHANGED <<mode, remaining, tries, heard, shown, stored, answer, writeFaults>>
    /\ UNCHANGED <<empties, cited, waiting, registered>> /\ Quiet

-----------------------------------------------------------------------------
(* The end: the answer is stored and saved, the channel closed, the call   *)
(* and the snapshot given back.                                            *)

\* Faulty: an answer that could not be stored is reported.
StoreAnswerOrNot ==
    /\ Step("finalize") /\ Go("report", <<>>)
    /\ stored' \in {stored, [stored EXCEPT !.answer = answer]}
    /\ UNCHANGED <<turnVars, registered, answer, writeFaults>> /\ Quiet

StoreAnswer ==
    /\ Step("finalize")
    /\ Write([stored EXCEPT !.answer = answer], "report", <<>>)
    /\ UNCHANGED <<turnVars, registered, answer>> /\ Quiet

\* Faulty: the reader is told before the session is saved.
ReportThenSave ==
    /\ Step("report")
    /\ \/ Go("ended", <<Plain("done")>>) /\ UNCHANGED writeFaults
       \/ /\ writeFaults < MaxWriteFaults /\ writeFaults' = writeFaults + 1
          /\ Go("ended", <<Plain("done"), Plain("error")>>)
    /\ UNCHANGED <<turnVars, registered, stored, answer>> /\ Quiet

ReportAnswer ==
    /\ Step("report")
    /\ Write(stored, "ended", <<Plain("done")>>)
    /\ UNCHANGED <<turnVars, registered, answer>> /\ Quiet

Finish ==
    /\ Step("ended")
    /\ registered' = FALSE /\ Go("closed", <<>>)
    /\ UNCHANGED <<turnVars, stored, answer, writeFaults>> /\ Quiet

Turn ==
    \/ Send \/ Drop
    \/ BeginSessionCall \/ RunForeground \/ StoreQuestion
    \/ \E held \in BOOLEAN : Chunk(held)
    \/ \E err \in {"timeout", "other"} : AskFails(err)
    \/ TooLate \/ Synthesize
    \/ ReplyText \/ ReplyEmpty \/ FallBack \/ ReplyRepeats
    \/ \E calls \in SUBSET StreamCall \ {{}} : ReplyCalls(calls)
    \/ ShowResult \/ \E c \in StreamCall : Record(c)
    \/ TellResults \/ SaveResults \/ AfterTools
    \/ StoreAnswer \/ ReportAnswer \/ Finish

Adapter == Receive \/ Leave
Host == \E why \in {"cancelled", "expired", "session"} : EndContext(why)

StreamNext == Turn \/ Adapter \/ Host

\* The model and the tools answer, and the gateway keeps calling the adapter.
StreamFairness == WF_streamVars(Turn) /\ WF_streamVars(Adapter)

StreamSpec == StreamInit /\ [][StreamNext]_streamVars /\ StreamFairness

-----------------------------------------------------------------------------

StreamTypeOK ==
    /\ at \in {"begin", "prepare", "ask", "synthesis", "run", "record", "tell", "save",
               "next", "finalize", "report", "ended", "closed"}
    /\ mode \in {"native", "simulated"} /\ remaining \in 1..MaxRounds
    /\ tries \in 0..1 /\ heard \in 0..MaxChunks /\ shown \in 0..heard
    /\ empties \in 0..MaxEmpty
    /\ cited \in BOOLEAN /\ waiting \in BOOLEAN /\ registered \in BOOLEAN
    /\ gate \in [missing : BOOLEAN, unavailable : BOOLEAN, told : BOOLEAN]
    /\ batch \in [calls : SUBSET StreamCall, gate : BOOLEAN]
    /\ out \in Seq([kind : {"info", "text", "done", "error"}, soft : BOOLEAN])
    /\ buffer \in 0..Capacity
    /\ sent \in [last : {"none", "done", "error"}, more : BOOLEAN, dropped : BOOLEAN]
    /\ cause \in {"none", "cancelled", "expired", "session"}
    /\ caller \in {"live", "cancelled", "expired"}
    /\ adapter \in {"reading", "gone"}
    /\ stored \in [question : BOOLEAN, open : SUBSET StreamCall,
                   answer : {"none", "notice", "model", "synthesis"}]
    /\ answer \in {"none", "notice", "model", "synthesis", "timeout", "other"}
    /\ writeFaults \in 0..MaxWriteFaults

\* A reader that stays to the end meets exactly one terminal event, and
\* nothing after it, whichever of the many exits the turn takes.  Only an
\* event that may be given up can be missing, once the context has ended.
OneTerminalEvent ==
    /\ ~sent.more
    /\ at = "closed" /\ stored.question /\ ~sent.dropped => sent.last # "none"

\* When the reader is told the turn is done, the session holds the question,
\* the answer, and the result of every tool call in it.
DoneIsStored ==
    sent.last = "done" =>
        stored.question /\ stored.open = {} /\ stored.answer # "none"

\* While the gateway reads, every turn ends and gives its call back.  When it
\* has left, a plain send waits for room that nobody makes, and the turn may stay.
StreamEnds == registered ~> (~registered \/ adapter = "gone")
=============================================================================
