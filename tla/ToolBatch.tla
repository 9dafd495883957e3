------------------------------ MODULE ToolBatch ------------------------------
(***************************************************************************)
(* One round's tool calls.  The guard and the hooks screen them first; what *)
(* is left runs side by side or one after the other, each call through the *)
(* approval the user may have to give; the results come back in the order  *)
(* of the calls.  Only ask_user counts time: its wait must end before the  *)
(* turn's own deadline does.                                               *)
(*                                                                         *)
(* src/agent/loop_execution.go, tool_execution_detailed.go,                *)
(* tool_execution_guard.go, hitl.go, credential_form.go                    *)
(***************************************************************************)
EXTENDS Integers, Sequences, FiniteSets

CONSTANTS
    Batches,        \* the batches: tools called, and how the turn runs them
    Safe,           \* tools registered as ParallelSafe
    AskLimit,       \* askUserWaitTimeout
    Margin,         \* what ask_user leaves of the turn's time
    MaxTime         \* bound: the clock

Tool == {"lookup", "plugin", "shell", "secret", "observe", "act", "ask", "form"}
Arguments == {"plain", "barred"}    \* what the turn's guard lets pass, or not

Desktop == {"observe", "act"}       \* isComputerUseToolName
Interactive == {"shell", "act", "secret"}   \* requiresInteractiveApproval
ByPermission == {"plugin"}          \* plugin and MCP tools with PermApprove
AlwaysAsked == {"secret"}           \* requiresCredentialToolApproval

\* calls: the tools called; mixed: safe calls may run beside others; auto:
\* AutoApprove; guarded, hooked: a guard, hooks are there; restricted: the
\* sandbox is; deadline: the turn's, 0 for none.
Batch == [calls : Seq(Tool), mixed : BOOLEAN, auto : BOOLEAN, guarded : BOOLEAN,
          hooked : BOOLEAN, restricted : BOOLEAN, deadline : Nat]

ASSUME BatchesAssumption ==
    /\ Batches \subseteq Batch
    /\ Safe \subseteq Tool \ Desktop    \* a desktop tool is never ParallelSafe
    /\ Margin \in Nat \ {0} /\ AskLimit \in Nat \ {0} /\ MaxTime \in Nat

VARIABLES
    batch,
    args,           \* the arguments of each call, as the hooks left them
    pc,             \* screen, launch, run or returned
    blocked,        \* calls the guard or a hook refused
    groups,         \* what is still to run: sets of calls, one after the other
    serial,         \* calls of the running group left to the caller itself
    at,             \* where each call stands
    auto,           \* the call's own AutoApprove
    until,          \* when ask_user stops waiting
    allowed,        \* the user has allowed this very call
    ran,            \* how often the call's effect took place
    result,         \* what each call returned
    arrived,        \* calls of the group in the order they ended
    gathered,       \* calls that ran, in the order their results are kept
    answers,        \* what the batch returns
    clock,
    turnCancelled

batchVars == <<batch, args, pc, blocked, groups, serial, at, auto, until, allowed,
               ran, result, arrived, gathered, answers, clock, turnCancelled>>

Index == DOMAIN batch.calls
HasDesktop(s) == \E i \in s : batch.calls[i] \in Desktop
Active(i) == at[i] \notin {"idle", "done"}
TurnDone == turnCancelled \/ (batch.deadline > 0 /\ clock >= batch.deadline)

\* What a call may have returned: nothing, that it did its work, that it was
\* refused or dropped before it did any, or an error in the midst of it.
Outcome == {"", "ok", "duplicate", "refused", "denied", "unanswered", "no reply", "error"}

BatchTypeOK ==
    /\ batch \in Batches
    /\ args \in [Index -> Arguments]
    /\ pc \in {"screen", "launch", "run", "returned"}
    /\ blocked \subseteq Index
    /\ groups \in Seq(SUBSET Index) /\ serial \subseteq Index
    /\ at \in [Index -> {"idle", "enter", "approve", "ask", "form", "run", "confirm",
                         "rerun", "done"}]
    /\ auto \in [Index -> BOOLEAN] /\ until \in [Index -> 0..(MaxTime + AskLimit)]
    /\ allowed \in [Index -> BOOLEAN] /\ ran \in [Index -> 0..1]
    /\ result \in [Index -> Outcome]
    /\ clock \in 0..MaxTime /\ turnCancelled \in BOOLEAN

BatchInit ==
    /\ batch \in Batches
    /\ args \in [Index -> Arguments]
    /\ ~batch.guarded => \A i \in Index : args[i] = "plain"
    /\ pc = "screen" /\ blocked = {} /\ groups = <<>> /\ serial = {}
    /\ at = [i \in Index |-> "idle"] /\ auto = [i \in Index |-> batch.auto]
    /\ until = [i \in Index |-> 0] /\ allowed = [i \in Index |-> FALSE]
    /\ ran = [i \in Index |-> 0] /\ result = [i \in Index |-> ""]
    /\ arrived = <<>> /\ gathered = <<>> /\ answers = <<>>
    /\ clock = 0 /\ turnCancelled = FALSE

-----------------------------------------------------------------------------
(* Screening.                                                              *)

Blocks(a) == batch.guarded /\ a = "barred"

\* Faulty: what a hook rewrote is not judged again.
StopsOnce(i, refused, rewritten) ==
    Blocks(args[i]) \/ (batch.hooked /\ i \in refused)

\* A hook sees what the guard let pass; what it rewrites is judged again.
Stops(i, refused, rewritten) ==
    \/ Blocks(args[i])
    \/ batch.hooked /\ (i \in refused \/ Blocks(rewritten[i]))

\* Faulty: only the calls that are left decide.
GroupedAsLeft(survivors) == <<survivors>>

\* The n-th of these calls, in their order.
Nth(calls, n) == {i \in calls : Cardinality({j \in calls : j <= i}) = n}

\* What is left of a batch whose desktop call was blocked runs one at a time.
Grouped(survivors) ==
    IF HasDesktop(Index) /\ ~HasDesktop(survivors)
    THEN [n \in 1..Cardinality(survivors) |-> Nth(survivors, n)]
    ELSE <<survivors>>

Screen ==
    /\ pc = "screen"
    /\ \E refused \in SUBSET Index, rewritten \in [Index -> Arguments] :
         /\ ~batch.hooked => refused = {} /\ rewritten = args
         /\ blocked' = {i \in Index : Stops(i, refused, rewritten)}
         /\ args' = [i \in Index |-> IF i \in blocked' THEN args[i] ELSE rewritten[i]]
    /\ groups' = Grouped(Index \ blocked')
    /\ result' = [i \in Index |-> IF i \in blocked' THEN "refused" ELSE ""]
    /\ pc' = "launch"
    /\ UNCHANGED <<batch, serial, at, auto, until, allowed, ran, arrived, gathered,
                   answers, clock, turnCancelled>>

-----------------------------------------------------------------------------
(* Running a group.                                                        *)

\* Calls that get a goroutine: the safe ones where safe calls may mix with
\* others, else all of them or none.
SideBySide(g) ==
    IF batch.mixed /\ ~HasDesktop(Index)
    THEN {i \in g : batch.calls[i] \in Safe}
    ELSE IF \A i \in g : batch.calls[i] \in Safe THEN g ELSE {}

Launch ==
    /\ pc = "launch" /\ groups # <<>>
    /\ LET together == SideBySide(Head(groups))
       IN /\ at' = [i \in Index |-> IF i \in together THEN "enter" ELSE at[i]]
          /\ serial' = Head(groups) \ together
    /\ pc' = "run"
    /\ UNCHANGED <<batch, args, blocked, groups, auto, until, allowed, ran, result,
                   arrived, gathered, answers, clock, turnCancelled>>

\* The caller runs the others itself, in their order, without a look at a
\* cancelled turn.
StartSerial ==
    /\ pc = "run"
    /\ \E i \in serial :
         /\ \A j \in serial : i <= j
         /\ at[i] = "idle" /\ at' = [at EXCEPT ![i] = "enter"]
    /\ UNCHANGED <<batch, args, pc, blocked, groups, serial, auto, until, allowed, ran,
                   result, arrived, gathered, answers, clock, turnCancelled>>

\* Faulty: the results stay in the order in which the calls ended.
SortedByEnd(s) == s

\* The results of a group arrive as the calls end, and are sorted by the calls.
Sorted(s) ==
    LET calls == {s[n] : n \in DOMAIN s}
    IN [n \in DOMAIN s |-> CHOOSE i \in calls : i \in Nth(calls, n)]

Collect ==
    /\ pc = "run" /\ serial = {} /\ Len(arrived) = Cardinality(Head(groups))
    /\ gathered' = gathered \o Sorted(arrived)
    /\ arrived' = <<>> /\ groups' = Tail(groups) /\ pc' = "launch"
    /\ UNCHANGED <<batch, args, blocked, serial, at, auto, until, allowed, ran, result,
                   answers, clock, turnCancelled>>

\* The gathered results fill, one by one, the places no blocked call holds.
Place(i) == IF i \in blocked THEN i ELSE gathered[Cardinality((1..i) \ blocked)]

Merge ==
    /\ pc = "launch" /\ groups = <<>>
    /\ answers' = [i \in Index |-> [call |-> Place(i), text |-> result[Place(i)]]]
    /\ pc' = "returned"
    /\ UNCHANGED <<batch, args, blocked, groups, serial, at, auto, until, allowed, ran,
                   result, arrived, gathered, clock, turnCancelled>>

-----------------------------------------------------------------------------
(* One call.                                                               *)

batchState == <<batch, args, pc, blocked, groups, gathered, answers>>

Ends(i, r) ==
    /\ at' = [at EXCEPT ![i] = "done"] /\ result' = [result EXCEPT ![i] = r]
    /\ arrived' = Append(arrived, i)
    /\ serial' = serial \ {i}

GoesTo(i, s) == at' = [at EXCEPT ![i] = s] /\ UNCHANGED <<result, arrived, serial>>

\* AutoApprove spares the question, except for a tool that uses a credential.
NeedsApproval(i) ==
    /\ ~batch.auto \/ batch.calls[i] \in AlwaysAsked
    /\ batch.calls[i] \in Interactive \cup ByPermission

\* Faulty: ask_user waits for as long as the turn lasts.
AskToTheEnd ==
    IF batch.deadline = 0 THEN AskLimit
    ELSE IF batch.deadline <= clock THEN 0
    ELSE IF batch.deadline - clock < AskLimit THEN batch.deadline - clock
    ELSE AskLimit

\* What ask_user may wait, 0 when the turn is about to end.
AskBudget ==
    IF batch.deadline = 0 THEN AskLimit
    ELSE IF batch.deadline - clock <= Margin THEN 0
    ELSE IF batch.deadline - clock - Margin < AskLimit
         THEN batch.deadline - clock - Margin
         ELSE AskLimit

EnterCall(i) ==
    LET tool == batch.calls[i]
    IN /\ at[i] = "enter"
       /\ \/ tool = "lookup" /\ Ends(i, "duplicate") /\ UNCHANGED until
          \/ tool = "plugin" /\ batch.restricted /\ Ends(i, "refused") /\ UNCHANGED until
          \/ tool = "ask" /\ AskBudget = 0 /\ Ends(i, "no reply") /\ UNCHANGED until
          \/ /\ tool = "ask" /\ AskBudget > 0 /\ GoesTo(i, "ask")
             /\ until' = [until EXCEPT ![i] = clock + AskBudget]
          \/ /\ tool = "form" /\ UNCHANGED until
             /\ GoesTo(i, "form") \/ Ends(i, "refused")     \* the fields are not valid
          \/ /\ tool \notin {"ask", "form"} /\ UNCHANGED until
             /\ ~(tool = "plugin" /\ batch.restricted)
             /\ GoesTo(i, IF NeedsApproval(i) THEN "approve" ELSE "run")
       /\ UNCHANGED batchState /\ UNCHANGED <<auto, allowed, ran, clock, turnCancelled>>

\* The user allows or denies the call that waits: before it runs, or because
\* the gateway stopped it.  The call does not ask a second time.
Allow(i) ==
    /\ at[i] \in {"approve", "confirm"}
    /\ GoesTo(i, IF at[i] = "approve" THEN "run" ELSE "rerun")
    /\ auto' = [auto EXCEPT ![i] = TRUE] /\ allowed' = [allowed EXCEPT ![i] = TRUE]
    /\ UNCHANGED batchState /\ UNCHANGED <<until, ran, clock, turnCancelled>>

Deny(i) ==
    /\ at[i] \in {"approve", "confirm", "ask", "form"}
    /\ Ends(i, "denied")
    /\ UNCHANGED batchState /\ UNCHANGED <<auto, until, allowed, ran, clock, turnCancelled>>

\* The wait ends without an answer: the turn's end, or the broker's limit.
Unanswered(i) ==
    /\ at[i] \in {"approve", "confirm", "form"}
    /\ Ends(i, "unanswered")
    /\ UNCHANGED batchState /\ UNCHANGED <<auto, until, allowed, ran, clock, turnCancelled>>

\* The user replies to ask_user.
Reply(i) ==
    /\ at[i] = "ask"
    /\ Ends(i, "ok") /\ ran' = [ran EXCEPT ![i] = @ + 1]
    /\ UNCHANGED batchState /\ UNCHANGED <<auto, until, allowed, clock, turnCancelled>>

\* ask_user's own limit: no reply, unless the turn has ended too by then.
AskTimesOut(i) ==
    /\ at[i] = "ask" /\ clock >= until[i]
    /\ Ends(i, IF TurnDone THEN "unanswered" ELSE "no reply")
    /\ UNCHANGED batchState /\ UNCHANGED <<auto, until, allowed, ran, clock, turnCancelled>>

\* The end of the turn is passed on to the detached wait.
AskStops(i) ==
    /\ at[i] = "ask" /\ TurnDone
    /\ Ends(i, "unanswered")
    /\ UNCHANGED batchState /\ UNCHANGED <<auto, until, allowed, ran, clock, turnCancelled>>

\* A submitted secret is stored, or the store refuses it.  A binding that fails
\* afterwards does not take it back.
Submit(i) ==
    /\ at[i] = "form"
    /\ \/ Ends(i, "ok") /\ ran' = [ran EXCEPT ![i] = @ + 1]
       \/ Ends(i, "refused") /\ UNCHANGED ran
    /\ UNCHANGED batchState /\ UNCHANGED <<auto, until, allowed, clock, turnCancelled>>

\* The gateway runs the tool: it works, it fails before or after it had its
\* effect, or the gateway wants the user's consent, which it does not ask of a
\* call that has AutoApprove.
Execute(i) ==
    /\ at[i] \in {"run", "rerun"}
    /\ \/ \E r \in {"ok", "error"} : Ends(i, r) /\ ran' = [ran EXCEPT ![i] = @ + 1]
       \/ Ends(i, "error") /\ UNCHANGED ran
       \/ at[i] = "run" /\ ~auto[i] /\ GoesTo(i, "confirm") /\ UNCHANGED ran
    /\ UNCHANGED batchState /\ UNCHANGED <<auto, until, allowed, clock, turnCancelled>>

-----------------------------------------------------------------------------
(* The turn.                                                               *)

CancelTurn ==
    /\ pc \in {"launch", "run"} /\ ~turnCancelled
    /\ turnCancelled' = TRUE
    /\ UNCHANGED <<batch, args, pc, blocked, groups, serial, at, auto, until, allowed,
                   ran, result, arrived, gathered, answers, clock>>

\* Time passes where a deadline makes it matter.  A timer's goroutine is not
\* late by as much as the margin.
Pass ==
    /\ pc \in {"launch", "run"} /\ batch.deadline > 0 /\ clock < MaxTime
    /\ \A i \in Index : at[i] = "ask" => clock + 1 < until[i] + Margin
    /\ clock' = clock + 1
    /\ UNCHANGED <<batch, args, pc, blocked, groups, serial, at, auto, until, allowed,
                   ran, result, arrived, gathered, answers, turnCancelled>>

CallNext(i) ==
    \/ EnterCall(i) \/ Allow(i) \/ Deny(i) \/ Unanswered(i) \/ Reply(i) \/ AskTimesOut(i)
    \/ AskStops(i) \/ Submit(i) \/ Execute(i)

BatchNext ==
    \/ Screen \/ Launch \/ StartSerial \/ Collect \/ Merge \/ CancelTurn \/ Pass
    \/ \E i \in Index : CallNext(i)

BatchSpec == BatchInit /\ [][BatchNext]_batchVars

-----------------------------------------------------------------------------
(* Properties.                                                             *)

\* A batch in which the model asked for the desktop never has two calls under
\* way at once, also when the desktop call itself was blocked.
DesktopRunsAlone ==
    HasDesktop(Index) => Cardinality({i \in Index : Active(i)}) <= 1

\* A tool has its effect only with arguments the guard passes, after every
\* rewriting by a hook, and where the user must consent, after an allow that was
\* given to that very call; AutoApprove never stands for it with a credential.
OnlyAllowedRuns ==
    \A i \in Index : ran[i] > 0 =>
        /\ i \notin blocked /\ ~Blocks(args[i])
        /\ batch.calls[i] \in AlwaysAsked => allowed[i]
        /\ batch.calls[i] \in Interactive \cup ByPermission /\ ~batch.auto => allowed[i]
        /\ batch.calls[i] = "plugin" => ~batch.restricted

\* The batch answers its calls one for one and in their order, whatever was
\* blocked and whichever ended first, and no answer contradicts what the tool did:
\* a success means one effect, a refusal or a missing answer means none.
ResultsTellWhatRan ==
    pc = "returned" =>
        /\ Len(answers) = Len(batch.calls)
        /\ \A i \in Index :
             /\ answers[i].call = i /\ answers[i].text # "" /\ ran[i] <= 1
             /\ answers[i].text = "ok" => ran[i] = 1
             /\ answers[i].text \notin {"ok", "error"} => ran[i] = 0

\* The turn's deadline never turns a missing reply into a failed call: ask_user
\* gives up before it, whatever ran first in the batch.
AskEndsBeforeDeadline ==
    \A i \in Index :
        batch.calls[i] = "ask" /\ result[i] = "unanswered" => turnCancelled
=============================================================================
