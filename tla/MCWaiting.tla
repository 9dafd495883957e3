----------------------------- MODULE MCWaiting -----------------------------
(***************************************************************************)
(* Three that wait, checked for what must happen: the session of a durable *)
(* task, a recall with a deadline, the recaps.  As in MCServices a         *)
(* behaviour follows one of them, the one that is `focus`; fairness is     *)
(* asked of that one alone.                                                *)
(***************************************************************************)
EXTENDS DurableTask, MemoryRecall, Recaps

CONSTANTS inspect, post, good, error, none, s1, s2, s3, r1, r2

VARIABLE focus

Focus == {"task", "recall", "recap"}

WaitingInit ==
    /\ focus \in Focus
    /\ Init /\ RecallInit /\ RecapInit

\* The others stay where they are.
Alone(s) ==
    /\ focus = s /\ UNCHANGED focus
    /\ IF s = "task" THEN TRUE ELSE UNCHANGED vars
    /\ IF s = "recall" THEN TRUE ELSE UNCHANGED recallVars
    /\ IF s = "recap" THEN TRUE ELSE UNCHANGED recapVars

WaitingNext ==
    \/ Alone("task") /\ Next
    \/ Alone("recall") /\ RecallNext
    \/ Alone("recap") /\ RecapNext

waitingVars == <<focus, vars, recallVars, recapVars>>

\* FairSpec, RecallFairness and RecapFairness, of the one that moves:
\* WF_v(Alone(s) /\ A) asks nothing of the others.
WaitingFairness ==
    /\ WF_waitingVars(Alone("task") /\ RunStep)
    /\ WF_waitingVars(Alone("recall") /\ (TakeOutcome \/ TimeOut))
    /\ \A s \in Session :
         /\ WF_waitingVars(Alone("recap") /\ (TakeJob(s) \/ RecapAnswer(s) \/ GiveUp(s)))
         /\ SF_waitingVars(Alone("recap") /\ TakeSlot(s))

WaitingSpec == WaitingInit /\ [][WaitingNext]_waitingVars /\ WaitingFairness

\* A foreground call of a durable task always returns and gives its session
\* back: slices are bounded by iterations, runs by the budget.
TaskReleasesSession == (focus = "task" /\ active) ~> ~active
=============================================================================
