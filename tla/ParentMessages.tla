---------------------------- MODULE ParentMessages ----------------------------
(***************************************************************************)
(* Messages a parent session sends to one child while the child runs:      *)
(* agent/delegate_message.go.  A message call reads the child's status,    *)
(* finds (or makes) the agent's queue and adds its text; the child's loop  *)
(* empties the queue after each tool round, into the context of the next   *)
(* model call and into the child's session.                                *)
(*                                                                         *)
(* A call stands for its text: no two calls carry the same one.            *)
(***************************************************************************)
EXTENDS Integers, Sequences, FiniteSets

CONSTANTS Calls,       \* the calls of action=message, from any goroutine
          Limit,       \* parentMessageQueueLimit
          MaxFailed,   \* bound: session writes that fail
          MaxRounds    \* bound: tool rounds of the child

ASSUME LimitAssumption == Limit \in Nat \ {0}
ASSUME BoundAssumption == MaxFailed \in Nat /\ MaxRounds \in Nat

VARIABLES status,    \* the child's task, as the delegate manager reports it
          loop,      \* the child's goroutine
          round,     \* its tool rounds so far
          call,      \* the message calls: where each one is, and its queue
          box,       \* Agent.parentMessagesBox
          byTask,    \* of every queue ever made, what it holds for the child
          taken,     \* what the drain took and has not stored
          context,   \* parent messages in the child's in-memory messages
          session,   \* parent messages in the child's session
          accepted,  \* history: the calls answered "queued", in order
          failed     \* history: session writes that failed

vars == <<status, loop, round, call, box, byTask, taken, context, session,
          accepted, failed>>
childVars == <<status, loop, round, taken, context, session, failed>>
callVars == <<call, box, accepted>>

NoBox == "none"
FirstBox == "first"   \* made by a message to another child, before
Boxes == Calls \cup {FirstBox}

ASSUME NamesAssumption == NoBox \notin Boxes /\ FirstBox \notin Calls

Live == {"pending", "running"}
Finished == {"completed", "failed", "cancelled"}

\* What the queue in use holds for the child.
Queued == IF box = NoBox THEN <<>> ELSE byTask[box]

Init ==
  /\ status = "pending" /\ loop = "waiting" /\ round = 0
  /\ call = [c \in Calls |-> [at |-> "new", box |-> NoBox]]
  /\ box \in {NoBox, FirstBox}
  /\ byTask = [b \in Boxes |-> <<>>]
  /\ taken = <<>> /\ context = <<>> /\ session = <<>>
  /\ accepted = <<>> /\ failed = 0

-----------------------------------------------------------------------------
(* handleSubagentMessage, one call: three unlocked steps, then the lock.   *)

Goes(c, from, to) == /\ call[c].at = from
                     /\ call' = [call EXCEPT ![c].at = to]

\* The status decides between the queue and resume_from.  A resumption makes
\* another task and leaves this queue alone.
ReadStatus(c) ==
  /\ Goes(c, "new", IF status \in Live THEN "live" ELSE "resumed")
  /\ UNCHANGED <<childVars, box, byTask, accepted>>

\* parentMessages() is neither locked nor once-only: the test for nil and the
\* assignment are two steps.
FindBox(c) ==
  /\ box # NoBox
  /\ call[c].at = "live"
  /\ call' = [call EXCEPT ![c] = [at |-> "found", box |-> box]]
  /\ UNCHANGED <<childVars, box, byTask, accepted>>

FindNoBox(c) ==
  /\ box = NoBox
  /\ Goes(c, "live", "making")
  /\ UNCHANGED <<childVars, box, byTask, accepted>>

MakeBox(c) ==
  /\ call[c].at = "making"
  /\ box' = c
  /\ call' = [call EXCEPT ![c] = [at |-> "found", box |-> c]]
  /\ UNCHANGED <<childVars, byTask, accepted>>

Enqueue(c) ==
  LET b == call[c].box IN
  /\ Goes(c, "found", "queued")
  /\ Len(byTask[b]) < Limit
  /\ byTask' = [byTask EXCEPT ![b] = Append(@, c)]
  /\ accepted' = Append(accepted, c)
  /\ UNCHANGED <<childVars, box>>

QueueFull(c) ==
  /\ Goes(c, "found", "full")
  /\ Len(byTask[call[c].box]) >= Limit
  /\ UNCHANGED <<childVars, box, byTask, accepted>>

-----------------------------------------------------------------------------
(* The child's goroutine.                                                  *)

StartChild ==
  /\ loop = "waiting" /\ status = "pending"
  /\ loop' = "model" /\ status' = "running"
  /\ UNCHANGED <<callVars, round, byTask, taken, context, session, failed>>

RunTools ==
  /\ loop = "model" /\ round < MaxRounds
  /\ loop' = "tools" /\ round' = round + 1
  /\ UNCHANGED <<callVars, status, byTask, taken, context, session, failed>>

\* After the tool round.  The drain takes every message at once.  Its flag
\* (beginDrain) is never found set: no other goroutine drains this child.
Take ==
  /\ loop = "tools" /\ Queued # <<>>
  /\ loop' = "draining"
  /\ taken' = byTask[box]
  /\ byTask' = [byTask EXCEPT ![box] = <<>>]
  /\ UNCHANGED <<callVars, status, round, context, session, failed>>

NothingQueued ==
  /\ loop = "tools" /\ Queued = <<>>
  /\ loop' = "model"
  /\ UNCHANGED <<callVars, status, round, byTask, taken, context, session,
                 failed>>

\* The message joins the in-memory messages before it is stored.
Show ==
  /\ loop = "draining" /\ taken # <<>>
  /\ loop' = "storing"
  /\ context' = Append(context, Head(taken))
  /\ UNCHANGED <<callVars, status, round, byTask, taken, session, failed>>

Store ==
  /\ loop = "storing"
  /\ loop' = "draining"
  /\ session' = Append(session, Head(taken))
  /\ taken' = Tail(taken)
  /\ UNCHANGED <<callVars, status, round, byTask, context, failed>>

\* Faulty: what was taken goes behind what came meanwhile.
RestoredBehind(rest, queued) == queued \o rest

\* The message and those after it go back, in front of what came meanwhile.
Restored(rest, queued) == rest \o queued

StoreFails ==
  /\ loop = "storing" /\ failed < MaxFailed
  /\ loop' = "model" /\ failed' = failed + 1
  /\ byTask' = [byTask EXCEPT ![box] = Restored(taken, @)]
  /\ taken' = <<>>
  /\ UNCHANGED <<callVars, status, round, context, session>>

Drained ==
  /\ loop = "draining" /\ taken = <<>>
  /\ loop' = "model"
  /\ UNCHANGED <<callVars, status, round, byTask, taken, context, session,
                 failed>>

\* A final answer or an error ends the loop; the manager learns of it later.
EndLoop ==
  /\ loop \in {"model", "tools"}
  /\ loop' = "ended"
  /\ UNCHANGED <<callVars, status, round, byTask, taken, context, session,
                 failed>>

Report ==
  /\ loop = "ended" /\ status = "running"
  /\ status' \in {"completed", "failed"}
  /\ UNCHANGED <<callVars, loop, round, byTask, taken, context, session,
                 failed>>

\* A cancelled child may still be in its loop.
Cancel ==
  /\ status \in Live
  /\ status' = "cancelled"
  /\ UNCHANGED <<callVars, loop, round, byTask, taken, context, session,
                 failed>>

Child == StartChild \/ RunTools \/ Take \/ NothingQueued \/ Show \/ Store
         \/ StoreFails \/ Drained \/ EndLoop \/ Report

Send(c) == ReadStatus(c) \/ FindBox(c) \/ FindNoBox(c) \/ MakeBox(c)
           \/ Enqueue(c) \/ QueueFull(c)

Next == Child \/ Cancel \/ \E c \in Calls : Send(c)

Spec == Init /\ [][Next]_vars

-----------------------------------------------------------------------------
TypeOK ==
  /\ status \in Live \cup Finished
  /\ loop \in {"waiting", "model", "tools", "draining", "storing", "ended"}
  /\ round \in 0..MaxRounds
  /\ call \in [Calls -> [at : {"new", "live", "making", "found", "queued",
                               "full", "resumed"},
                         box : Boxes \cup {NoBox}]]
  /\ box \in Boxes \cup {NoBox}
  /\ byTask \in [Boxes -> Seq(Calls)]
  /\ taken \in Seq(Calls) /\ context \in Seq(Calls) /\ session \in Seq(Calls)
  /\ accepted \in Seq(Calls)
  /\ failed \in 0..MaxFailed

\* No call holds another queue than the one in use: the first messages of the
\* agent did not race in parentMessages().
OneQueue == \A c \in Calls : call[c].box \in {NoBox, box}

\* Every accepted message is in exactly one place, and in the order of
\* acceptance: stored in the session, held by a drain, or still queued.  It
\* covers the concurrent additions, the drain and the return of a message
\* whose write failed.
AcceptedIsKept == OneQueue => accepted = session \o taken \o Queued

Count(m, s) == Cardinality({i \in DOMAIN s : s[i] = m})

\* Returned messages may exceed the limit, by one full queue for every write
\* that failed and no more.
QueueBounded == Len(Queued) <= Limit * (1 + failed)

-----------------------------------------------------------------------------
(* What the comment on parentMessageQueue says, and the code does not keep. *)

\* "holds at most four unprocessed messages for one child"
AtMostLimit == Len(Queued) <= Limit
=============================================================================
