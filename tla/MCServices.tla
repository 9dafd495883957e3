---------------------------- MODULE MCServices ----------------------------
(***************************************************************************)
(* The services beside a turn, checked by one run.  They share no state in *)
(* the code, so a behaviour follows one of them, the one that is `focus`,  *)
(* and leaves the others where they start.                                 *)
(***************************************************************************)
EXTENDS ParentMessages, CronJobs, Heartbeat, Delegation, ForegroundRecovery, ToolBatch,
        StoryMode

CONSTANTS c1, c2, c3, j1, j2, k1, s1, s2, t1, t2, none

VARIABLE focus

Focus == {"messages", "cron", "heartbeat", "delegation", "recovery", "tools", "story"}

\* An add, a pause and a resume, with runs enough to use up the retries twice:
\* for one caller and its job alone.
ResumeBound == [requests |-> 3, runs |-> 4, faults |-> 0, crashes |-> 0]

\* Three requests that overlap; two of them and a save that fails; the runs of
\* one request's job, with such a save and a restart; or a job that is resumed.
\* Kinds other than the schedule's, and jobs that go with their run, are left to
\* the behaviours of at most two requests.
MCBounds == {[requests |-> 3, runs |-> 1, faults |-> 0, crashes |-> 0],
             [requests |-> 2, runs |-> 1, faults |-> 1, crashes |-> 0],
             [requests |-> 1, runs |-> 4, faults |-> 1, crashes |-> 1],
             ResumeBound}

\* Batches of three calls that mix what runs side by side, what waits for the
\* user and what uses the desktop; two of them under a deadline.
Called(calls, mixed, approve, screened, sandboxed, deadline) ==
    [calls |-> calls, mixed |-> mixed, auto |-> approve, guarded |-> screened,
     hooked |-> screened, restricted |-> sandboxed, deadline |-> deadline]

IdleBatch == Called(<<"lookup", "plugin", "lookup">>, TRUE, TRUE, FALSE, FALSE, 0)

MCBatches ==
    {Called(<<"observe", "lookup", "plugin">>, m, a, TRUE, FALSE, 0) : m, a \in BOOLEAN}
    \cup {Called(<<"act", "lookup", "shell">>, TRUE, a, s, FALSE, 0) : a, s \in BOOLEAN}
    \cup {Called(<<"secret", "plugin", "lookup">>, m, a, FALSE, r, 0) : m, a, r \in BOOLEAN}
    \cup {Called(<<"lookup", "form", "lookup">>, TRUE, FALSE, TRUE, FALSE, 0), IdleBatch}
    \cup {Called(<<"ask", "lookup", "ask">>, m, TRUE, FALSE, FALSE, d)
            : m \in BOOLEAN, d \in {0, 6}}

\* One start is enough for a service that does nothing.
Parked(s, still) == focus = s \/ still

ServicesInit ==
    /\ focus \in Focus
    /\ Init /\ Parked("messages", box = NoBox)
    /\ CronInit /\ Parked("cron", engineOn /\ bound.crashes = 1)
    /\ HeartInit /\ Parked("heartbeat", shared)
    /\ DelegationInit
    /\ ForegroundInit /\ Parked("recovery", file = Nothing)
    /\ BatchInit /\ Parked("tools", batch = IdleBatch /\ \A i \in Index : args[i] = "plain")
    /\ StoryInit
    /\ Parked("story", story = "none" /\ hasCard /\ \A t \in StoryTurn : want[t] = "play")

\* The other services stay where they are.
Alone(s) ==
    /\ focus = s /\ UNCHANGED focus
    /\ IF s = "messages" THEN TRUE ELSE UNCHANGED vars
    /\ IF s = "cron" THEN TRUE ELSE UNCHANGED cronVars
    /\ IF s = "heartbeat" THEN TRUE ELSE UNCHANGED heartVars
    /\ IF s = "delegation" THEN TRUE ELSE UNCHANGED delegationVars
    /\ IF s = "recovery" THEN TRUE ELSE UNCHANGED foregroundVars
    /\ IF s = "tools" THEN TRUE ELSE UNCHANGED batchVars
    /\ IF s = "story" THEN TRUE ELSE UNCHANGED storyVars

ServicesNext ==
    \/ Alone("messages") /\ Next
    \/ /\ Alone("cron") /\ CronNext
       /\ bound = ResumeBound => request'[c2] = request[c2] /\ DOMAIN jobs' \subseteq {j1}
       /\ bound.requests > 2 =>
             \A c \in Caller : /\ request'[c].kind = KindOf(request'[c].schedule)
                               /\ ~request'[c].once
    \/ Alone("heartbeat") /\ HeartNext
    \/ Alone("delegation") /\ DelegationNext
    \/ Alone("recovery") /\ ForegroundNext
    \/ Alone("tools") /\ BatchNext
    \/ Alone("story") /\ StoryNext

servicesVars == <<focus, vars, cronVars, heartVars, delegationVars, foregroundVars,
                  batchVars, storyVars>>

ServicesSpec == ServicesInit /\ [][ServicesNext]_servicesVars
=============================================================================
