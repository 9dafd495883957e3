----------------------------- MODULE Delegation -----------------------------
(***************************************************************************)
(* Delegating a task to a child: the checks before a task is made, the     *)
(* child's own checkout, the end of the child, and a task that goes        *)
(* through the durable queue instead.  The delegate manager, the task      *)
(* queue and git are external.                                             *)
(*                                                                         *)
(* src/agent/delegate_worktree.go, execution_services.go,                  *)
(* subagent_delegate.go, delegate_queue.go                                 *)
(***************************************************************************)
EXTENDS Integers

CONSTANTS
    Task            \* calls of action=delegate, each its task

VARIABLES
    handler,        \* the tool call's handler
    mode,           \* "none", "worktree" (isolation), or "queue"
    child,          \* the executor's goroutine
    outcome,        \* the task, as the manager reports it
    book,           \* a.worktrees: tasks with a remembered parent
    cwd,            \* the child session's directory
    tree,           \* the child's checkout, as git sees it
    childErr,       \* the child has ended with an error
    told,           \* what the result says about the checkout
    queued,         \* the task in the durable queue
    worked,         \* history: the child has worked in its checkout
    unseen,         \* history: its work left the checkout as git first saw it
    asked,          \* history: cancelled before the child's end was looked at
    stuck           \* history: an external clean-up has failed

delegationVars == <<handler, mode, child, outcome, book, cwd, tree, childErr, told,
                    queued, worked, unseen, asked, stuck>>

DelegationTypeOK ==
    /\ handler \in [Task -> {"new", "refused", "made", "answered"}]
    /\ mode \in [Task -> {"none", "worktree", "queue"}]
    /\ child \in [Task -> {"none", "prepare", "sandbox", "config", "run", "check",
                           "finish", "remove", "report", "poll", "ended"}]
    /\ outcome \in [Task -> {"none", "running", "completed", "failed", "cancelled"}]
    /\ book \subseteq Task
    /\ cwd \in [Task -> {"engine", "request", "parent", "tree"}]
    /\ tree \in [Task -> {"none", "clean", "dirty", "committed"}]
    /\ childErr \in [Task -> BOOLEAN]
    /\ told \in [Task -> {"nothing", "path", "removed"}]
    /\ queued \in [Task -> {"none", "ready", "running", "done", "unverified",
                            "blocked", "cancelled"}]
    /\ worked \subseteq Task /\ unseen \subseteq Task
    /\ asked \subseteq Task /\ stuck \subseteq Task

DelegationInit ==
    /\ handler = [t \in Task |-> "new"] /\ mode = [t \in Task |-> "none"]
    /\ child = [t \in Task |-> "none"] /\ outcome = [t \in Task |-> "none"]
    /\ book = {} /\ cwd = [t \in Task |-> "engine"] /\ tree = [t \in Task |-> "none"]
    /\ childErr = [t \in Task |-> FALSE] /\ told = [t \in Task |-> "nothing"]
    /\ queued = [t \in Task |-> "none"]
    /\ worked = {} /\ unseen = {} /\ asked = {} /\ stuck = {}

Moves(t, from, to) == child[t] = from /\ child' = [child EXCEPT ![t] = to]

-----------------------------------------------------------------------------
(* The tool call.                                                          *)

\* A bad isolation, role or thoroughness, a role with no tool left, or no git
\* checkout: refused before a task exists.
Refuse(t) ==
    /\ handler[t] = "new" /\ handler' = [handler EXCEPT ![t] = "refused"]
    /\ UNCHANGED <<mode, child, outcome, book, cwd, tree, childErr, told, queued,
                   worked, unseen, asked, stuck>>

\* The parent's directory and the role are stamped into the task's context,
\* then the manager makes the task and starts it on a goroutine.
Delegate(t) ==
    /\ handler[t] = "new" /\ handler' = [handler EXCEPT ![t] = "made"]
    /\ \E m \in {"none", "worktree", "queue"} : mode' = [mode EXCEPT ![t] = m]
    /\ child' = [child EXCEPT ![t] = "prepare"]
    /\ outcome' = [outcome EXCEPT ![t] = "running"]
    /\ UNCHANGED <<book, cwd, tree, childErr, told, queued, worked, unseen, asked, stuck>>

\* The handler goes on beside the child: its note may come too late.
Remember(t) ==
    /\ handler[t] = "made" /\ handler' = [handler EXCEPT ![t] = "answered"]
    /\ book' = IF mode[t] = "worktree" THEN book \cup {t} ELSE book
    /\ UNCHANGED <<mode, child, outcome, cwd, tree, childErr, told, queued, worked, unseen,
                   asked, stuck>>

CancelTask(t) ==
    /\ outcome[t] = "running" /\ outcome' = [outcome EXCEPT ![t] = "cancelled"]
    /\ asked' = IF child[t] \in {"finish", "remove", "report"} THEN asked
                ELSE asked \cup {t}
    /\ UNCHANGED <<handler, mode, child, book, cwd, tree, childErr, told, queued,
                   worked, unseen, stuck>>

-----------------------------------------------------------------------------
(* The executor.                                                           *)

\* Without isolation the session is put into the stamped parent; without one, into
\* the directory the request names, if that can be made, or it stays where it is.
ShareWorkspace(t) ==
    /\ mode[t] = "none" /\ Moves(t, "prepare", "config")
    /\ \/ cwd' = [cwd EXCEPT ![t] = "parent"] /\ book' = book \ {t}
       \/ cwd' \in {cwd, [cwd EXCEPT ![t] = "request"]} /\ UNCHANGED book
    /\ UNCHANGED <<handler, mode, outcome, tree, childErr, told, queued, worked, unseen, asked,
                   stuck>>

\* createDelegateWorktree fails, or makes a checkout of the parent's HEAD.
CreateTree(t) ==
    /\ mode[t] = "worktree"
    /\ \/ /\ Moves(t, "prepare", "report") /\ childErr' = [childErr EXCEPT ![t] = TRUE]
          /\ UNCHANGED <<book, cwd, tree>>
       \/ /\ Moves(t, "prepare", "sandbox") /\ tree' = [tree EXCEPT ![t] = "clean"]
          /\ book' = book \ {t} /\ cwd' = [cwd EXCEPT ![t] = "tree"]
          /\ UNCHANGED childErr
    /\ UNCHANGED <<handler, mode, outcome, told, queued, worked, unseen, asked, stuck>>

\* When the sandbox cannot be prepared the new checkout is removed; a failure
\* of that is ignored.
PrepareSandbox(t) ==
    /\ \/ Moves(t, "sandbox", "config") /\ UNCHANGED <<tree, childErr, stuck>>
       \/ /\ Moves(t, "sandbox", "report") /\ childErr' = [childErr EXCEPT ![t] = TRUE]
          /\ \/ tree' = [tree EXCEPT ![t] = "none"] /\ UNCHANGED stuck
             \/ stuck' = stuck \cup {t} /\ UNCHANGED tree
    /\ UNCHANGED <<handler, mode, outcome, book, cwd, told, queued, worked, unseen, asked>>

\* childLoopForDelegate reads the role again: it may be gone.
ConfigureChild(t) ==
    /\ \/ Moves(t, "config", "run") /\ UNCHANGED childErr
       \/ Moves(t, "config", "finish") /\ childErr' = [childErr EXCEPT ![t] = TRUE]
    /\ UNCHANGED <<handler, mode, outcome, book, cwd, tree, told, queued, worked, unseen, asked,
                   stuck>>

\* The child's tools change files or commit.  What git ignores, and commits that
\* HEAD has left again, are work after which git sees nothing new.
ChildWorks(t) ==
    /\ child[t] = "run" /\ tree[t] # "none"
    /\ \E seen \in {"clean", "dirty", "committed"} :
        /\ tree' = [tree EXCEPT ![t] = seen]
        /\ unseen' = IF seen = "clean" THEN unseen \cup {t} ELSE unseen \ {t}
    /\ worked' = worked \cup {t}
    /\ UNCHANGED <<handler, mode, child, outcome, book, cwd, childErr, told, queued,
                   asked, stuck>>

ChildEnds(t) ==
    /\ Moves(t, "run", "check")
    /\ \E e \in BOOLEAN : childErr' = [childErr EXCEPT ![t] = e]
    /\ UNCHANGED <<handler, mode, outcome, book, cwd, tree, told, queued, worked, unseen, asked,
                   stuck>>

\* A cancelled child in a checkout counts as failed, whatever it returned.
CheckCancelled(t) ==
    /\ Moves(t, "check", "finish")
    /\ childErr' = [childErr EXCEPT ![t] =
                        @ \/ (tree[t] # "none" /\ outcome[t] = "cancelled")]
    /\ UNCHANGED <<handler, mode, outcome, book, cwd, tree, told, queued, worked, unseen, asked,
                   stuck>>

\* Faulty: commits are not looked for.
HasUncommitted(t) == tree[t] = "dirty"

\* worktreeHasChanges: git status, and HEAD against the base commit; nothing else
\* of the checkout is looked at.
HasChanges(t) == tree[t] # "clean"

\* finishDelegatedWorktree keeps the checkout also when git does not answer.
FinishTree(t) ==
    /\ \/ tree[t] = "none" /\ Moves(t, "finish", "report") /\ UNCHANGED told
       \/ /\ tree[t] # "none" /\ Moves(t, "finish", "report")
          /\ told' = [told EXCEPT ![t] = "path"]
       \/ /\ tree[t] # "none" /\ ~childErr[t] /\ ~HasChanges(t)
          /\ Moves(t, "finish", "remove") /\ UNCHANGED told
    /\ UNCHANGED <<handler, mode, outcome, book, cwd, tree, childErr, queued, worked, unseen,
                   asked, stuck>>

\* removeDelegateWorktree: when git does not remove the checkout its directory is
\* deleted, and what that gives is not looked at; the checkout counts as removed
\* when git then forgets it.
RemoveTree(t) ==
    /\ Moves(t, "remove", "report")
    /\ \E gone, forgotten \in BOOLEAN :
        /\ tree' = IF gone THEN [tree EXCEPT ![t] = "none"] ELSE tree
        /\ told' = [told EXCEPT ![t] = IF forgotten THEN "removed" ELSE "path"]
        /\ stuck' = IF forgotten /\ ~gone THEN stuck \cup {t} ELSE stuck
    /\ UNCHANGED <<handler, mode, outcome, book, cwd, childErr, queued, worked, unseen, asked>>

\* The manager takes the result; a cancelled task stays cancelled.
ReportChild(t) ==
    /\ Moves(t, "report", "ended")
    /\ outcome' = [outcome EXCEPT ![t] = IF @ # "running" THEN @
                                       ELSE IF childErr[t] THEN "failed" ELSE "completed"]
    /\ UNCHANGED <<handler, mode, book, cwd, tree, childErr, told, queued, worked, unseen, asked,
                   stuck>>

-----------------------------------------------------------------------------
(* executeQueuedDelegate: the task goes to the workers' queue.             *)

\* The queue refuses it, the workers cannot be started (it is blocked), or it
\* is waited for.
Enlist(t) ==
    /\ mode[t] = "queue"
    /\ \/ /\ Moves(t, "prepare", "report") /\ childErr' = [childErr EXCEPT ![t] = TRUE]
          /\ \E q \in {"none", "blocked"} : queued' = [queued EXCEPT ![t] = q]
       \/ /\ Moves(t, "prepare", "poll") /\ queued' = [queued EXCEPT ![t] = "ready"]
          /\ UNCHANGED childErr
    /\ UNCHANGED <<handler, mode, outcome, book, cwd, tree, told, worked, unseen, asked, stuck>>

Worker(t) ==
    /\ \/ queued[t] = "ready" /\ queued' = [queued EXCEPT ![t] = "running"]
       \/ /\ queued[t] = "running"
          /\ \E q \in {"done", "unverified", "blocked", "ready"} :
                queued' = [queued EXCEPT ![t] = q]
    /\ UNCHANGED <<handler, mode, child, outcome, book, cwd, tree, childErr, told, worked, unseen,
                   asked, stuck>>

\* Only a verified result is a success.
Poll(t) ==
    /\ queued[t] \in {"done", "unverified", "blocked"}
    /\ Moves(t, "poll", "report")
    /\ childErr' = [childErr EXCEPT ![t] = queued[t] # "done"]
    /\ UNCHANGED <<handler, mode, outcome, book, cwd, tree, told, queued, worked, unseen, asked,
                   stuck>>

\* The context has ended: the queued task is cancelled, which the pool may
\* refuse, as it does for one that has just ended.
StopWaiting(t) ==
    /\ outcome[t] = "cancelled" /\ Moves(t, "poll", "report")
    /\ childErr' = [childErr EXCEPT ![t] = TRUE]
    /\ \/ /\ queued[t] \in {"ready", "running"} /\ UNCHANGED stuck
          /\ queued' = [queued EXCEPT ![t] = "cancelled"]
       \/ stuck' = stuck \cup {t} /\ UNCHANGED queued
    /\ UNCHANGED <<handler, mode, outcome, book, cwd, tree, told, worked, unseen, asked>>

DelegationNext ==
    \E t \in Task :
        \/ Refuse(t) \/ Delegate(t) \/ Remember(t) \/ CancelTask(t)
        \/ ShareWorkspace(t) \/ CreateTree(t) \/ PrepareSandbox(t) \/ ConfigureChild(t)
        \/ ChildWorks(t) \/ ChildEnds(t) \/ CheckCancelled(t) \/ FinishTree(t) \/ RemoveTree(t)
        \/ ReportChild(t) \/ Enlist(t) \/ Worker(t) \/ Poll(t) \/ StopWaiting(t)

DelegationSpec == DelegationInit /\ [][DelegationNext]_delegationVars

-----------------------------------------------------------------------------
(* Properties.                                                             *)

\* When a child has ended, its checkout is said to be removed only if it did not
\* fail, was not cancelled before its end was looked at, and left no work that git
\* sees; work git does not see goes with the checkout.  Every checkout that still
\* exists is named in the result, so that it can be found, unless its clean-up
\* failed and that was not noticed.
CheckoutIsKeptAndNamed ==
    \A t \in Task : child[t] = "ended" =>
        /\ told[t] = "removed" =>
              /\ t \notin asked /\ outcome[t] # "failed"
              /\ t \in worked => t \in unseen
        /\ tree[t] # "none" => told[t] = "path" \/ t \in stuck
=============================================================================
