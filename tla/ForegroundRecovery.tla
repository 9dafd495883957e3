------------------------- MODULE ForegroundRecovery -------------------------
(***************************************************************************)
(* The resumption of foreground tasks when the host starts, beside turns   *)
(* of the same session.  Both open the session's queue file, each with a   *)
(* copy in memory that is written back whole.  What one slice does is in   *)
(* DurableTask; here a task runs in one step between its claim and finish. *)
(*                                                                         *)
(* src/agent/foreground_recovery.go, foreground.go                         *)
(***************************************************************************)
EXTENDS Integers, FiniteSets

CONSTANTS
    Record,         \* foreground tasks of the session
    MaxUserTurns    \* bound: turns of the user

ASSUME ForegroundAssumption == MaxUserTurns \in Nat

VARIABLES
    file,           \* the queue file
    active,         \* who has the session: foregroundActive
    user,           \* the user's turn: its queue and the task it runs
    recovery,       \* ResumeForeground and its goroutine
    userTurns,
    finished,       \* history: tasks that have been done
    again,          \* history: tasks started after they were done
    admitted,       \* history: tasks some turn has accepted
    readEarly       \* history: a turn opened the file between its reading by
                    \* the recovery and the claim of the session

foregroundVars == <<file, active, user, recovery, userTurns, finished, again,
                    admitted, readEarly>>

State == {"absent", "ready", "running", "blocked", "done"}
Queue == [Record -> State]
Nothing == [r \in Record |-> "absent"]
None == "none"

ForegroundTypeOK ==
    /\ file \in Queue
    /\ active \in {"none", "user", "recovery"}
    /\ user \in [at: {"idle", "opened", "running"}, queue: Queue, task: Record \cup {None}]
    /\ recovery \in [at: {"off", "loaded", "claimed", "running", "over"}, queue: Queue,
                     left: SUBSET Record, task: Record \cup {None}]
    /\ userTurns \in 0..MaxUserTurns
    /\ finished \subseteq Record /\ again \subseteq Record /\ admitted \subseteq Record
    /\ readEarly \in BOOLEAN

IdleUser == [at |-> "idle", queue |-> Nothing, task |-> None]

\* A restart finds tasks that a crash left ready or running, and old ones.
ForegroundInit ==
    /\ file \in [Record -> {"absent", "ready", "running", "done"}]
    /\ active = "none" /\ user = IdleUser
    /\ recovery = [at |-> "off", queue |-> Nothing, left |-> {}, task |-> None]
    /\ userTurns = 0
    /\ finished = {r \in Record : file[r] = "done"}
    /\ again = {} /\ admitted = {r \in Record : file[r] # "absent"}
    /\ readEarly = FALSE

\* EnablePersistence: what was running is ready again, in memory and on disk.
Loaded(q) == [r \in Record |-> IF q[r] = "running" THEN "ready" ELSE q[r]]

Runs(r) == again' = IF r \in finished THEN again \cup {r} ELSE again

-----------------------------------------------------------------------------
(* A turn of the user: runForeground.                                      *)

\* Faulty: the turn does not ask whether the session is taken.
OpenTakenSession ==
    /\ user.at = "idle" /\ userTurns < MaxUserTurns
    /\ active' = "user" /\ userTurns' = userTurns + 1
    /\ user' = [at |-> "opened", task |-> None, queue |-> Loaded(file)]
    /\ file' = user'.queue
    /\ readEarly' = (readEarly \/ recovery.at = "loaded")
    /\ UNCHANGED <<recovery, finished, again, admitted>>

\* One turn or one recovery holds a session.  A ready task with an operation
\* nobody has confirmed is blocked.
OpenForeground ==
    /\ user.at = "idle" /\ active = "none" /\ userTurns < MaxUserTurns
    /\ active' = "user" /\ userTurns' = userTurns + 1
    /\ \E unsure \in SUBSET {r \in Record : file[r] = "running"} :
        user' = [at |-> "opened", task |-> None, queue |->
            [r \in Record |-> IF r \in unsure THEN "blocked" ELSE Loaded(file)[r]]]
    /\ file' = user'.queue
    /\ readEarly' = (readEarly \/ recovery.at = "loaded")
    /\ UNCHANGED <<recovery, finished, again, admitted>>

\* It continues an unfinished task or adds one, and claims it; or it only lists
\* tasks, and ends.
TakeTask ==
    /\ user.at = "opened"
    /\ \/ \E r \in Record :
            /\ user.queue[r] # "done"
            /\ user' = [user EXCEPT !.at = "running", !.task = r, !.queue[r] = "running"]
            /\ admitted' = admitted \cup {r} /\ Runs(r)
            /\ UNCHANGED active
       \/ user' = IdleUser /\ active' = "none" /\ UNCHANGED <<admitted, again>>
    /\ file' = IF user'.at = "running" THEN user'.queue ELSE file
    /\ UNCHANGED <<recovery, userTurns, finished, readEarly>>

\* The task is done, or interrupted and kept.
EndTurn ==
    /\ user.at = "running"
    /\ \E s \in {"done", "ready", "blocked"} :
        /\ file' = [user.queue EXCEPT ![user.task] = s]
        /\ finished' = IF s = "done" THEN finished \cup {user.task} ELSE finished
    /\ user' = IdleUser /\ active' = "none"
    /\ UNCHANGED <<recovery, userTurns, again, admitted, readEarly>>

-----------------------------------------------------------------------------
(* The recovery at startup.                                                *)

\* ResumeForeground reads the file and lists the ready tasks of the allowed
\* sources; the session is claimed later, by the goroutine.
ReadQueue ==
    /\ recovery.at = "off"
    /\ \E allowed \in SUBSET Record :
        recovery' = [at |-> "loaded", queue |-> Loaded(file), task |-> None,
                     left |-> {r \in allowed : Loaded(file)[r] = "ready"}]
    /\ file' = Loaded(file)
    /\ readEarly' = (readEarly \/ active = "user")
    /\ UNCHANGED <<active, user, userTurns, finished, again, admitted>>

\* A session someone holds is left to them.
ClaimSession ==
    /\ recovery.at = "loaded"
    /\ IF active = "none"
       THEN active' = "recovery" /\ recovery' = [recovery EXCEPT !.at = "claimed"]
       ELSE UNCHANGED active /\ recovery' = [recovery EXCEPT !.at = "over"]
    /\ UNCHANGED <<file, user, userTurns, finished, again, admitted, readEarly>>

\* The state of a task is looked up in the queue that was read.
ResumeTask ==
    /\ recovery.at = "claimed"
    /\ \E r \in recovery.left :
        /\ recovery.queue[r] = "ready"
        /\ recovery' = [recovery EXCEPT !.at = "running", !.task = r, !.left = @ \ {r},
                                        !.queue[r] = "running"]
        /\ Runs(r)
    /\ file' = recovery'.queue
    /\ UNCHANGED <<active, user, userTurns, finished, admitted, readEarly>>

TaskEnds ==
    /\ recovery.at = "running"
    /\ \E s \in {"done", "ready", "blocked"} :
        /\ recovery' = [recovery EXCEPT !.at = "claimed", !.task = None,
                                        !.queue[recovery.task] = s]
        /\ finished' = IF s = "done" THEN finished \cup {recovery.task} ELSE finished
    /\ file' = recovery'.queue
    /\ UNCHANGED <<active, user, userTurns, again, admitted, readEarly>>

\* After the last task, or when the host's context has ended.
ReleaseSession ==
    /\ recovery.at = "claimed"
    /\ recovery' = [recovery EXCEPT !.at = "over"] /\ active' = "none"
    /\ UNCHANGED <<file, user, userTurns, finished, again, admitted, readEarly>>

ForegroundNext == \/ OpenForeground \/ TakeTask \/ EndTurn \/ ReadQueue
                  \/ ClaimSession \/ ResumeTask \/ TaskEnds \/ ReleaseSession

ForegroundSpec == ForegroundInit /\ [][ForegroundNext]_foregroundVars

-----------------------------------------------------------------------------
(* Properties.                                                             *)

\* Unless a turn held the session between the reading of the queue and its
\* claim, the recovery is exact: no task is started again after it was done,
\* nobody works on a session another works on, and the file keeps every task
\* that was accepted and every result.
RecoveryIsExact ==
    ~readEarly =>
        /\ again = {}
        /\ ~(user.at = "running" /\ recovery.at = "running")
        /\ \A r \in admitted : file[r] # "absent"
        /\ \A r \in finished : file[r] = "done"
=============================================================================
