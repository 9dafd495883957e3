------------------------------- MODULE Recaps -------------------------------
(***************************************************************************)
(* The recap service: after a turn one sentence about the session is asked *)
(* of the model in the background.  Turns of one session are coalesced,    *)
(* two model requests run at once, and closing waits for a bounded time.   *)
(* Every message that is saved makes what was read before it out of date,  *)
(* also the question of a turn that has no answer in the end; the messages *)
(* of tools count as its question's.                                       *)
(*                                                                         *)
(* src/agent/session_recap.go                                              *)
(***************************************************************************)
EXTENDS Integers, FiniteSets, Functions

CONSTANTS
    Session,
    Runner,         \* goroutines that run turns
    MaxMessages     \* bound: questions and answers, of all sessions

ASSUME RecapAssumption == Session # {} /\ MaxMessages \in Nat

VARIABLES
    version,        \* the session's last message, its RecapSnapshot version
    answered,       \* the last of them that is an answer
    recap,          \* the message the stored recap goes up to, 0 for none
    turn,           \* where each turn goroutine stands
    pending,        \* the coalesced job of each session, 0 for none
    worker,         \* the session's run goroutine
    running,        \* sessions marked as having one
    closed, cancelled,
    overlapped,     \* history: sessions answered while a turn held a snapshot
    failed          \* history: sessions a model request failed for

recapVars == <<version, answered, recap, turn, pending, worker, running, closed,
               cancelled, overlapped, failed>>

Slots == 2          \* the capacity of recapService.slots

Version == 0..MaxMessages
IdleTurn == [at |-> "idle", sess |-> CHOOSE s \in Session : TRUE, version |-> 0]
NoWorker == [at |-> "none", version |-> 0]

RecapTypeOK ==
    /\ version \in [Session -> Version] /\ answered \in [Session -> Version] /\ recap \in [Session -> Version]
    /\ turn \in [Runner -> [at: {"idle", "asked", "done", "snapshot"}, sess: Session, version: Version]]
    /\ pending \in [Session -> Version]
    /\ worker \in [Session -> [at: {"none", "take", "slot", "chat"}, version: Version]]
    /\ running \subseteq Session
    /\ closed \in BOOLEAN /\ cancelled \in BOOLEAN
    /\ overlapped \subseteq Session /\ failed \subseteq Session

RecapInit ==
    /\ version = [s \in Session |-> 0] /\ answered = version /\ recap = version
    /\ pending = version
    /\ turn = [t \in Runner |-> IdleTurn]
    /\ worker = [s \in Session |-> NoWorker]
    /\ running = {} /\ closed = FALSE /\ cancelled = FALSE
    /\ overlapped = {} /\ failed = {}

-----------------------------------------------------------------------------
(* A turn and, when its answer is saved, queueSessionRecap.                *)

\* The question is saved.
AskTurn(t, s) ==
    /\ turn[t].at = "idle" /\ SumFunction(version) < MaxMessages
    /\ version' = [version EXCEPT ![s] = @ + 1]
    /\ turn' = [turn EXCEPT ![t] = [at |-> "asked", sess |-> s, version |-> 0]]
    /\ UNCHANGED <<answered, recap, pending, worker, running, closed, cancelled, overlapped,
                   failed>>

\* The turn fails or is cancelled, or its answer cannot be saved.
FailTurn(t) ==
    /\ turn[t].at = "asked" /\ turn' = [turn EXCEPT ![t] = IdleTurn]
    /\ UNCHANGED <<version, answered, recap, pending, worker, running, closed, cancelled,
                   overlapped, failed>>

FinishTurn(t) ==
    LET s == turn[t].sess IN
    /\ turn[t].at = "asked" /\ SumFunction(version) < MaxMessages
    /\ version' = [version EXCEPT ![s] = @ + 1]
    /\ answered' = [answered EXCEPT ![s] = version[s] + 1]
    /\ turn' = [turn EXCEPT ![t].at = "done"]
    /\ overlapped' = IF \E u \in Runner : turn[u].at = "snapshot" /\ turn[u].sess = s
                     THEN overlapped \cup {s} ELSE overlapped
    /\ UNCHANGED <<recap, pending, worker, running, closed, cancelled, failed>>

\* enqueue reads the transcript before it takes the lock; a transcript that does
\* not end with an answer makes no job.
TakeSnapshot(t) ==
    LET s == turn[t].sess IN
    /\ turn[t].at = "done"
    /\ turn' = [turn EXCEPT ![t] =
                   IF answered[s] # version[s] THEN IdleTurn
                   ELSE [at |-> "snapshot", sess |-> s, version |-> version[s]]]
    /\ UNCHANGED <<version, answered, recap, pending, worker, running, closed, cancelled,
                   overlapped, failed>>

\* Faulty: a job that waits is not replaced.
EnqueueBehind(t) ==
    LET s == turn[t].sess IN
    /\ turn[t].at = "snapshot"
    /\ turn' = [turn EXCEPT ![t] = IdleTurn]
    /\ pending' = IF closed \/ pending[s] # 0 THEN pending
                  ELSE [pending EXCEPT ![s] = turn[t].version]
    /\ running' = IF closed THEN running ELSE running \cup {s}
    /\ worker' = IF closed \/ s \in running THEN worker
                 ELSE [worker EXCEPT ![s].at = "take"]
    /\ UNCHANGED <<version, answered, recap, closed, cancelled, overlapped, failed>>

\* Under the lock: a closed service takes nothing, otherwise the job replaces
\* the one that waits, and a goroutine is started unless the session has one.
Enqueue(t) ==
    LET s == turn[t].sess IN
    /\ turn[t].at = "snapshot"
    /\ turn' = [turn EXCEPT ![t] = IdleTurn]
    /\ pending' = IF closed THEN pending ELSE [pending EXCEPT ![s] = turn[t].version]
    /\ running' = IF closed THEN running ELSE running \cup {s}
    /\ worker' = IF closed \/ s \in running THEN worker
                 ELSE [worker EXCEPT ![s].at = "take"]
    /\ UNCHANGED <<version, answered, recap, closed, cancelled, overlapped, failed>>

-----------------------------------------------------------------------------
(* The goroutine of a session: recapService.run.                           *)

\* Faulty: the goroutine leaves without saying so.
TakeJobSilently(s) ==
    /\ worker[s].at = "take"
    /\ pending' = [pending EXCEPT ![s] = 0]
    /\ worker' = [worker EXCEPT ![s] = IF pending[s] = 0 THEN NoWorker
                                       ELSE [at |-> "slot", version |-> pending[s]]]
    /\ UNCHANGED <<version, answered, recap, turn, running, closed, cancelled, overlapped, failed>>

\* It takes the waiting job, or leaves and says so, under one lock.
TakeJob(s) ==
    /\ worker[s].at = "take"
    /\ pending' = [pending EXCEPT ![s] = 0]
    /\ IF pending[s] = 0
       THEN worker' = [worker EXCEPT ![s] = NoWorker] /\ running' = running \ {s}
       ELSE /\ worker' = [worker EXCEPT ![s] = [at |-> "slot", version |-> pending[s]]]
            /\ UNCHANGED running
    /\ UNCHANGED <<version, answered, recap, turn, closed, cancelled, overlapped, failed>>

TakeSlot(s) ==
    /\ worker[s].at = "slot"
    /\ Cardinality({x \in Session : worker[x].at = "chat"}) < Slots
    /\ worker' = [worker EXCEPT ![s].at = "chat"]
    /\ UNCHANGED <<version, answered, recap, turn, pending, running, closed, cancelled,
                   overlapped, failed>>

\* The service was cancelled: the goroutine returns and leaves its mark.
GiveUp(s) ==
    /\ worker[s].at = "slot" /\ cancelled
    /\ worker' = [worker EXCEPT ![s] = NoWorker]
    /\ UNCHANGED <<version, answered, recap, turn, pending, running, closed, cancelled,
                   overlapped, failed>>

\* The model answers, fails or times out.  UpdateRecap refuses a text about a
\* transcript that has grown since.
RecapAnswer(s) ==
    /\ worker[s].at = "chat"
    /\ \E good \in {TRUE, FALSE} :
        /\ good => ~cancelled
        /\ recap' = IF good /\ worker[s].version = version[s]
                    THEN [recap EXCEPT ![s] = version[s]] ELSE recap
        /\ failed' = IF good THEN failed ELSE failed \cup {s}
    /\ worker' = [worker EXCEPT ![s] = [at |-> "take", version |-> 0]]
    /\ UNCHANGED <<version, answered, turn, pending, running, closed, cancelled, overlapped>>

-----------------------------------------------------------------------------
(* close: no more jobs, a bounded wait for the goroutines, then cancel.    *)

Close ==
    /\ ~closed /\ closed' = TRUE
    /\ UNCHANGED <<version, answered, recap, turn, pending, worker, running, cancelled,
                   overlapped, failed>>

Cancel ==
    /\ closed /\ ~cancelled /\ cancelled' = TRUE
    /\ UNCHANGED <<version, answered, recap, turn, pending, worker, running, closed,
                   overlapped, failed>>

RecapTurn(t) == \/ \E s \in Session : AskTurn(t, s)
                \/ FailTurn(t) \/ FinishTurn(t) \/ TakeSnapshot(t) \/ Enqueue(t)

RecapRun(s) == TakeJob(s) \/ TakeSlot(s) \/ GiveUp(s) \/ RecapAnswer(s)

RecapNext == (\E t \in Runner : RecapTurn(t)) \/ (\E s \in Session : RecapRun(s)) \/ Close \/ Cancel

\* The goroutines run; a model request ends after 20 seconds at the latest;
\* goroutines blocked on the channel of slots get one in order of arrival.
RecapFairness ==
    \A s \in Session :
        /\ WF_recapVars(TakeJob(s) \/ RecapAnswer(s) \/ GiveUp(s))
        /\ SF_recapVars(TakeSlot(s))

RecapSpec == RecapInit /\ [][RecapNext]_recapVars /\ RecapFairness

-----------------------------------------------------------------------------
(* Properties.                                                             *)

RecapIsQuiet(s) ==
    /\ pending[s] = 0 /\ worker[s].at = "none" /\ ~closed
    /\ \A t \in Runner : turn[t].at = "idle" \/ turn[t].sess # s

\* When nothing is under way for a session that ends with an answer, its recap
\* tells of that answer: coalescing drops older turns only, a question that made a
\* request out of date brings a new one with its answer, and no turn is forgotten
\* between a goroutine that leaves and one that is not started.  A session whose
\* last question was never answered keeps the recap it has, or none.  Excepted
\* are sessions answered while another turn held its snapshot, where the older one
\* may replace the newer, and sessions a model request failed for.
LatestTurnIsRecapped ==
    \A s \in Session \ (overlapped \cup failed) :
        RecapIsQuiet(s) /\ answered[s] = version[s] => recap[s] = version[s]

\* A job that waits is taken up by a goroutine, or the service is cancelled,
\* although only two sessions are served at a time.
PendingIsServed ==
    \A s \in Session : pending[s] # 0 ~> (pending[s] = 0 \/ cancelled)
=============================================================================
