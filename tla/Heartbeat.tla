------------------------------ MODULE Heartbeat ------------------------------
(***************************************************************************)
(* The heartbeat service, the reporter of worker results, and the Close of *)
(* an agent that ends both.  Close has two forms: with shared components   *)
(* it runs once behind a sync.Once, without them every call runs all of it.*)
(*                                                                         *)
(* src/agent/heartbeat/service.go, heartbeat_tools.go,                     *)
(* autonomy_notifications.go, agent.go (Close, startAutonomy)              *)
(***************************************************************************)
EXTENDS Integers, FiniteSets

CONSTANTS
    Closer,         \* calls of Close
    Starter,        \* calls of StartAutonomy
    Trigger,        \* turns that call the heartbeat trigger tool
    MaxStarts,      \* bound: starts of the heartbeat service
    MaxTicks,       \* bound: ticks begun
    MaxResults      \* bound: worker results

\* A turn is not the number of a loop.
ASSUME HeartAssumption ==
    /\ MaxStarts \in Nat /\ MaxTicks \in Nat /\ MaxResults \in Nat
    /\ IsFiniteSet(Starter) /\ Trigger \cap 1..MaxStarts = {}

VARIABLES
    shared,         \* a.components is set: Close runs behind closeOnce
    running,        \* Service.running
    chan,           \* the number of the service's stopCh/doneCh pair, 0 for nil
    stopped,        \* stop channels that are closed
    ended,          \* done channels that are closed
    starts,
    beat,           \* the loop goroutine of each pair: none, wait or tick
    tick,           \* where each tick stands, by who runs it
    ticks,
    closer,         \* where each Close stands, with the pair Stop has read
    once,           \* closeOnce
    autonomy,       \* the autonomy kit is started
    starter,        \* where each StartAutonomy stands
    reporter,       \* goroutines of the reporter, numbered
    cancel,         \* autonomyResultsCancel: the reporter it cancels, 0 for nil
    cancelled,      \* reporters that are cancelled
    results,        \* worker results left to report
    panicked,       \* close of a closed channel
    overlapped,     \* history: two runs of Stop were in progress at once
    reopened        \* history: something was started while or after closing

heartVars == <<shared, running, chan, stopped, ended, starts, beat, tick, ticks,
               closer, once, autonomy, starter, reporter, cancel, cancelled,
               results, panicked, overlapped, reopened>>

serviceVars == <<running, chan, stopped, ended, starts, beat>>
reporterVars == <<autonomy, starter, reporter, cancel, cancelled, results>>

Pair == 1..MaxStarts
Ticker == Pair \cup Trigger     \* the loop of a pair, or a tool call
Reporter == 1..Cardinality(Starter)

HeartTypeOK ==
    /\ shared \in BOOLEAN /\ running \in BOOLEAN
    /\ chan \in 0..MaxStarts /\ starts \in 0..MaxStarts
    /\ stopped \subseteq Pair /\ ended \subseteq Pair
    /\ beat \in [Pair -> {"none", "wait", "tick"}]
    /\ tick \in [Ticker -> {"none", "decide", "execute", "notify"}]
    /\ ticks \in 0..MaxTicks
    /\ closer \in [Closer -> [at: {"idle", "enter", "reporter", "stop", "close",
                                   "wait", "clear", "returned"}, pair: 0..MaxStarts]]
    /\ once \in {"free", "held", "done"}
    /\ autonomy \in BOOLEAN
    /\ starter \in [Starter -> {"idle", "report", "done"}]
    /\ reporter \in [Reporter -> {"none", "wait", "notify"}]
    /\ cancel \in {0} \cup Reporter /\ cancelled \subseteq Reporter
    /\ results \in 0..MaxResults
    /\ panicked \in BOOLEAN /\ overlapped \in BOOLEAN /\ reopened \in BOOLEAN

Closing == \E c \in Closer : closer[c].at # "idle"
Stopping(c) == closer[c].at \in {"close", "wait", "clear"}

HeartInit ==
    /\ shared \in BOOLEAN
    /\ running = FALSE /\ chan = 0 /\ stopped = {} /\ ended = {} /\ starts = 0
    /\ beat = [p \in Pair |-> "none"]
    /\ tick = [x \in Ticker |-> "none"] /\ ticks = 0
    /\ closer = [c \in Closer |-> [at |-> "idle", pair |-> 0]] /\ once = "free"
    /\ autonomy = FALSE /\ starter = [s \in Starter |-> "idle"]
    /\ reporter = [r \in Reporter |-> "none"] /\ cancel = 0 /\ cancelled = {}
    /\ results = 0
    /\ panicked = FALSE /\ overlapped = FALSE /\ reopened = FALSE

-----------------------------------------------------------------------------
(* The service.                                                            *)

\* Start refuses a service that runs.
Start ==
    /\ starts < MaxStarts /\ ~running
    /\ running' = TRUE /\ starts' = starts + 1 /\ chan' = starts'
    /\ beat' = [beat EXCEPT ![starts'] = "wait"]
    /\ reopened' = (reopened \/ Closing)
    /\ UNCHANGED <<shared, stopped, ended, tick, ticks, closer, once, panicked,
                   overlapped>>
    /\ UNCHANGED reporterVars

\* The ticker fires: select may prefer it to a closed stop channel.
Tick(p) ==
    /\ beat[p] = "wait" /\ ticks < MaxTicks
    /\ beat' = [beat EXCEPT ![p] = "tick"]
    /\ tick' = [tick EXCEPT ![p] = "decide"] /\ ticks' = ticks + 1
    /\ UNCHANGED <<shared, running, chan, stopped, ended, starts, closer, once,
                   panicked, overlapped, reopened>>
    /\ UNCHANGED reporterVars

\* The tool runs a tick of its own, beside the loop's, stopped or not.
TriggerNow(t) ==
    /\ tick[t] = "none" /\ ticks < MaxTicks
    /\ tick' = [tick EXCEPT ![t] = "decide"] /\ ticks' = ticks + 1
    /\ UNCHANGED <<shared, closer, once, panicked, overlapped, reopened>>
    /\ UNCHANGED serviceVars /\ UNCHANGED reporterVars

\* A tick goes on to its next step or ends: no file or nothing in it, "skip",
\* an error, an empty response.  It looks at no stop channel on the way.
TickStep(x) ==
    /\ \/ tick[x] = "decide" /\ \E s \in {"execute", "none"} : tick' = [tick EXCEPT ![x] = s]
       \/ tick[x] = "execute" /\ \E s \in {"notify", "none"} : tick' = [tick EXCEPT ![x] = s]
       \/ tick[x] = "notify" /\ tick' = [tick EXCEPT ![x] = "none"]
    /\ beat' = IF x \in Pair /\ tick'[x] = "none" THEN [beat EXCEPT ![x] = "wait"] ELSE beat
    /\ UNCHANGED <<shared, running, chan, stopped, ended, starts, ticks, closer,
                   once, panicked, overlapped, reopened>>
    /\ UNCHANGED reporterVars

LoopEnds(p) ==
    /\ beat[p] = "wait" /\ p \in stopped
    /\ beat' = [beat EXCEPT ![p] = "none"] /\ ended' = ended \cup {p}
    /\ UNCHANGED <<shared, running, chan, stopped, starts, tick, ticks, closer,
                   once, panicked, overlapped, reopened>>
    /\ UNCHANGED reporterVars

-----------------------------------------------------------------------------
(* The reporter of worker results.                                         *)

\* startAutonomy starts the kit unless it is started, then the reporter.
StartAutonomy(s) ==
    /\ starter[s] = "idle"
    /\ autonomy' = TRUE /\ starter' = [starter EXCEPT ![s] = "report"]
    /\ reopened' = (reopened \/ Closing)
    /\ UNCHANGED <<shared, tick, ticks, closer, once, reporter, cancel, cancelled,
                   results, panicked, overlapped>>
    /\ UNCHANGED serviceVars

\* startAutonomyResultReporter: one reporter while its cancel is kept.
StartReporter(s) ==
    /\ starter[s] = "report"
    /\ starter' = [starter EXCEPT ![s] = "done"]
    /\ IF cancel # 0 THEN UNCHANGED <<reporter, cancel>>
       ELSE \E r \in Reporter :
            /\ reporter[r] = "none" /\ r \notin cancelled
            /\ \A q \in 1..r - 1 : q \in cancelled
            /\ reporter' = [reporter EXCEPT ![r] = "wait"] /\ cancel' = r
    /\ reopened' = (reopened \/ Closing)
    /\ UNCHANGED <<shared, tick, ticks, closer, once, autonomy, cancelled, results,
                   panicked, overlapped>>
    /\ UNCHANGED serviceVars

WorkerResult ==
    /\ autonomy /\ results < MaxResults /\ results' = results + 1
    /\ UNCHANGED <<shared, tick, ticks, closer, once, autonomy, starter, reporter,
                   cancel, cancelled, panicked, overlapped, reopened>>
    /\ UNCHANGED serviceVars

\* consumeAutonomyResults: a result, or the end of a cancelled reporter, in
\* any order; a notification is sent to its end or to its 15 seconds.
Consume(r) ==
    /\ \/ /\ reporter[r] = "wait" /\ results > 0 /\ results' = results - 1
          /\ reporter' = [reporter EXCEPT ![r] = "notify"]
       \/ /\ reporter[r] = "notify" /\ UNCHANGED results
          /\ reporter' = [reporter EXCEPT ![r] = "wait"]
       \/ /\ reporter[r] = "wait" /\ r \in cancelled /\ UNCHANGED results
          /\ reporter' = [reporter EXCEPT ![r] = "none"]
    /\ UNCHANGED <<shared, tick, ticks, closer, once, autonomy, starter, cancel,
                   cancelled, panicked, overlapped, reopened>>
    /\ UNCHANGED serviceVars

-----------------------------------------------------------------------------
(* Close.                                                                  *)

Enter(c) ==
    /\ closer[c].at = "idle"
    /\ closer' = [closer EXCEPT ![c].at = "enter"]
    /\ reopened' = (reopened \/ \E s \in Starter : starter[s] = "report")
    /\ UNCHANGED <<shared, tick, ticks, once, panicked, overlapped>>
    /\ UNCHANGED serviceVars /\ UNCHANGED reporterVars

\* closeOnce.Do: the first call runs it, the others wait for its end.
TakeOnce(c) ==
    /\ closer[c].at = "enter" /\ shared /\ once # "held"
    /\ closer' = [closer EXCEPT ![c].at = IF once = "free" THEN "reporter" ELSE "returned"]
    /\ once' = IF once = "free" THEN "held" ELSE once
    /\ UNCHANGED <<shared, tick, ticks, panicked, overlapped, reopened>>
    /\ UNCHANGED serviceVars /\ UNCHANGED reporterVars

\* Without components the reporter is stopped only with a started kit.
SkipOnce(c) ==
    /\ closer[c].at = "enter" /\ ~shared
    /\ closer' = [closer EXCEPT ![c].at = IF autonomy THEN "reporter" ELSE "stop"]
    /\ UNCHANGED <<shared, tick, ticks, once, panicked, overlapped, reopened>>
    /\ UNCHANGED serviceVars /\ UNCHANGED reporterVars

\* stopAutonomyResultReporter cancels and does not wait; the direct form then
\* stops the kit, the other leaves the kit to whoever owns the components.
StopReporter(c) ==
    /\ closer[c].at = "reporter"
    /\ closer' = [closer EXCEPT ![c].at = "stop"]
    /\ cancelled' = IF cancel = 0 THEN cancelled ELSE cancelled \cup {cancel}
    /\ cancel' = 0
    /\ autonomy' = (autonomy /\ shared)
    /\ UNCHANGED <<shared, tick, ticks, once, starter, reporter, results, panicked,
                   overlapped, reopened>>
    /\ UNCHANGED serviceVars

CloseFinished(c) ==
    /\ closer' = [closer EXCEPT ![c].at = "returned"]
    /\ once' = IF shared THEN "done" ELSE once

\* Stop reads the channels under the lock ...
ReadChannels(c) ==
    /\ closer[c].at = "stop"
    /\ IF running
       THEN /\ closer' = [closer EXCEPT ![c] = [at |-> "close", pair |-> chan]]
            /\ UNCHANGED once
       ELSE CloseFinished(c)
    /\ overlapped' = (overlapped \/ \E d \in Closer \ {c} : Stopping(d))
    /\ UNCHANGED <<shared, tick, ticks, panicked, reopened>>
    /\ UNCHANGED serviceVars /\ UNCHANGED reporterVars

\* ... and closes one without it: a second close panics.
CloseChannel(c) ==
    /\ closer[c].at = "close"
    /\ IF closer[c].pair \in stopped
       THEN panicked' = TRUE /\ UNCHANGED <<closer, stopped>>
       ELSE /\ closer' = [closer EXCEPT ![c].at = "wait"]
            /\ stopped' = stopped \cup {closer[c].pair} /\ UNCHANGED panicked
    /\ UNCHANGED <<shared, running, chan, ended, starts, beat, tick, ticks, once,
                   overlapped, reopened>>
    /\ UNCHANGED reporterVars

\* Faulty: Stop does not wait for the loop.
AwaitNothing(c) ==
    /\ closer[c].at = "wait"
    /\ closer' = [closer EXCEPT ![c].at = "clear"]
    /\ UNCHANGED <<shared, tick, ticks, once, panicked, overlapped, reopened>>
    /\ UNCHANGED serviceVars /\ UNCHANGED reporterVars

AwaitLoop(c) ==
    /\ closer[c].at = "wait" /\ closer[c].pair \in ended
    /\ closer' = [closer EXCEPT ![c].at = "clear"]
    /\ UNCHANGED <<shared, tick, ticks, once, panicked, overlapped, reopened>>
    /\ UNCHANGED serviceVars /\ UNCHANGED reporterVars

ClearChannels(c) ==
    /\ closer[c].at = "clear"
    /\ running' = FALSE /\ chan' = 0 /\ CloseFinished(c)
    /\ UNCHANGED <<shared, stopped, ended, starts, beat, tick, ticks, panicked,
                   overlapped, reopened>>
    /\ UNCHANGED reporterVars

CloseStep(c) == \/ Enter(c) \/ TakeOnce(c) \/ SkipOnce(c) \/ StopReporter(c)
                \/ ReadChannels(c) \/ CloseChannel(c) \/ AwaitLoop(c) \/ ClearChannels(c)

HeartNext ==
    /\ ~panicked
    /\ \/ Start \/ WorkerResult
       \/ \E p \in Pair : Tick(p) \/ LoopEnds(p)
       \/ \E t \in Trigger : TriggerNow(t)
       \/ \E x \in Ticker : TickStep(x)
       \/ \E s \in Starter : StartAutonomy(s) \/ StartReporter(s)
       \/ \E r \in Reporter : Consume(r)
       \/ \E c \in Closer : CloseStep(c)

HeartSpec == HeartInit /\ [][HeartNext]_heartVars

-----------------------------------------------------------------------------
(* Properties.                                                             *)

\* After any Close has returned no heartbeat loop is alive, so that no tick
\* but a tool call's is in progress, and every reporter is cancelled, unless
\* something was started while closing: also when two calls of Close overlap.
\* Such calls close the stop channel twice only on an agent without components;
\* one after the other, or behind closeOnce, they never do.
ClosedIsQuiet ==
    /\ (~reopened /\ \E c \in Closer : closer[c].at = "returned") =>
         /\ \A p \in Pair : beat[p] = "none" /\ tick[p] = "none"
         /\ \A r \in Reporter : reporter[r] # "none" => r \in cancelled
    /\ panicked => overlapped /\ ~shared
=============================================================================
