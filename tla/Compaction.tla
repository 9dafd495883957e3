------------------------------ MODULE Compaction ------------------------------
(***************************************************************************)
(* The compaction of a session's history: a summary is made of the oldest  *)
(* raw messages, and a boundary that names their range is appended.  Turns *)
(* compact on their own (auto), an operator asks for it (manual, or only   *)
(* to see what it would do).  Meanwhile messages are appended and the      *)
(* session may be rolled or rewritten.                                     *)
(*                                                                         *)
(* A raw message is a position, 1, 2, ...; a rewrite is a new edition of   *)
(* them all.  The session itself is outside this repository: a boundary is *)
(* appended at once, and the messages covered end where the last does.     *)
(*                                                                         *)
(* src/agent/compact_session.go, compact_auto.go, compact_mapreduce.go     *)
(***************************************************************************)
EXTENDS Integers, Sequences, FiniteSets

CONSTANTS
    Compactor,          \* calls of the compaction at one time
    MinMessages,        \* AutoCompactMinMessages
    CooldownTurns,      \* AutoCompactCooldownTurns
    MaxFailures,        \* maxAutoCompactFailures
    MaxRaw,             \* bound: messages
    MaxEdition,         \* bound: rewrites
    MaxRuns             \* bound: compactions begun

ASSUME CompactionAssumption ==
    /\ IsFiniteSet(Compactor) /\ MaxFailures \in Nat \ {0}
    /\ MaxRaw \in Nat /\ MaxEdition \in Nat /\ MaxRuns \in Nat

VARIABLES
    raw,        \* number of raw messages
    edition,    \* of the raw messages
    segments,   \* the boundaries, in order
    task,       \* where each compaction stands, and what it has read
    failures,   \* a.autoCompactFailures of the session
    begun,
    raced       \* history: the session changed between a check and its append

compactVars == <<raw, edition, segments, task, failures, begun, raced>>

Idle == [at |-> "idle", trigger |-> "auto", dry |-> FALSE,
         from |-> 0, count |-> 0, read |-> 0, edition |-> 0]

CompactInit ==
    /\ raw = 0 /\ edition = 0 /\ segments = <<>>
    /\ task = [c \in Compactor |-> Idle]
    /\ failures = 0 /\ begun = 0 /\ raced = FALSE

\* session.CompactSegments: the rest is the raw tail.
Covered == IF segments = <<>> THEN 0 ELSE segments[Len(segments)].to
Tail_ == raw - Covered

CompactMessageTurns(n) == (n + 1) \div 2

\* shouldAutoCompactSession, with the size of the request left free: it is an
\* emergency when the window is full, and worth it above the threshold.
ShouldAutoCompact(emergency) ==
    /\ failures < MaxFailures
    /\ emergency \/ Tail_ >= MinMessages
    /\ emergency \/ segments = <<>> \/ CompactMessageTurns(Tail_) >= CooldownTurns

To(c, at) == task' = [task EXCEPT ![c].at = at]

\* A turn begins (auto), or an operator asks.
Begin(c, trigger, dry) ==
    /\ task[c].at = "idle" /\ begun < MaxRuns /\ begun' = begun + 1
    /\ trigger = "auto" => ~dry /\ \E emergency \in BOOLEAN : ShouldAutoCompact(emergency)
    /\ task' = [task EXCEPT ![c] = [Idle EXCEPT !.at = "read", !.trigger = trigger, !.dry = dry]]
    /\ UNCHANGED <<raw, edition, segments, failures, raced>>

\* An automatic compaction that fails is counted and falls back to a local
\* summary, unless the turn was cancelled.
Fail(c) ==
    IF task[c].trigger = "auto"
    THEN \/ /\ failures' = failures + 1
            /\ task' = [task EXCEPT ![c] = [Idle EXCEPT !.at = "read", !.trigger = "degraded"]]
         \/ /\ task' = [task EXCEPT ![c] = Idle] /\ UNCHANGED failures
    ELSE task' = [task EXCEPT ![c] = Idle] /\ UNCHANGED failures

Succeed(c) ==
    /\ task' = [task EXCEPT ![c] = Idle]
    /\ failures' = IF task[c].trigger \in {"auto", "degraded"} THEN 0 ELSE failures

\* The raw tail is read and a prefix of it chosen; what is retained may be all.
Read(c) ==
    /\ task[c].at = "read"
    /\ \/ /\ \E n \in 1..Tail_ :
                task' = [task EXCEPT ![c] = [@ EXCEPT !.at = "summarize", !.from = Covered,
                                                      !.count = n, !.read = Tail_,
                                                      !.edition = edition]]
          /\ UNCHANGED failures
       \/ Fail(c)
    /\ UNCHANGED <<raw, edition, segments, begun, raced>>

\* The summary is made, by the model in parts or locally, and validated.
Summarize(c) ==
    /\ task[c].at = "summarize"
    /\ \/ To(c, "backup") /\ UNCHANGED failures
       \/ Fail(c)
    /\ UNCHANGED <<raw, edition, segments, begun, raced>>

Backup(c) ==
    /\ task[c].at = "backup"
    /\ \/ task[c].dry /\ Succeed(c)
       \/ ~task[c].dry /\ To(c, "check") /\ UNCHANGED failures
       \/ ~task[c].dry /\ Fail(c)
    /\ UNCHANGED <<raw, edition, segments, begun, raced>>

\* Faulty: only the number of messages is compared.
UnchangedCount(t) == Tail_ >= t.read

\* The covered range is what it was, and no message of it has changed.
Unchanged(t) == Covered = t.from /\ Tail_ >= t.read /\ edition = t.edition

Check(c) ==
    /\ task[c].at = "check"
    /\ IF Unchanged(task[c]) THEN To(c, "append") /\ UNCHANGED failures ELSE Fail(c)
    /\ UNCHANGED <<raw, edition, segments, begun, raced>>

\* AddCompactBoundary
Append_(c) ==
    /\ task[c].at = "append"
    /\ LET t == task[c]
       IN /\ segments' = Append(segments, [from |-> t.from, to |-> t.from + t.count,
                                           fresh |-> t.edition = edition])
          /\ raced' = (raced \/ ~Unchanged(t))
    /\ To(c, "save")
    /\ UNCHANGED <<raw, edition, failures, begun>>

\* A boundary whose save fails stays in the session; the caller is told that
\* the compaction failed.
Save(c) ==
    /\ task[c].at = "save"
    /\ Succeed(c) \/ Fail(c)
    /\ UNCHANGED <<raw, edition, segments, begun, raced>>

\* The conversation goes on.
AddMessage ==
    /\ raw < MaxRaw /\ raw' = raw + 1
    /\ UNCHANGED <<edition, segments, task, failures, begun, raced>>

\* Another process, or a roll, rewrites what is stored.
Rewrite ==
    /\ edition < MaxEdition /\ edition' = edition + 1
    /\ UNCHANGED <<raw, segments, task, failures, begun, raced>>

CompactNext ==
    \/ \E c \in Compactor, trigger \in {"auto", "manual"}, dry \in BOOLEAN : Begin(c, trigger, dry)
    \/ \E c \in Compactor : Read(c) \/ Summarize(c) \/ Backup(c) \/ Check(c) \/ Append_(c) \/ Save(c)
    \/ AddMessage \/ Rewrite

CompactSpec == CompactInit /\ [][CompactNext]_compactVars

-----------------------------------------------------------------------------

CompactTypeOK ==
    /\ raw \in 0..MaxRaw /\ edition \in 0..MaxEdition /\ begun \in 0..MaxRuns
    /\ segments \in Seq([from : 0..MaxRaw, to : 0..MaxRaw, fresh : BOOLEAN])
    /\ task \in [Compactor -> [at : {"idle", "read", "summarize", "backup", "check", "append", "save"},
                               trigger : {"auto", "manual", "degraded"}, dry : BOOLEAN,
                               from : 0..MaxRaw, count : 0..MaxRaw, read : 0..MaxRaw,
                               edition : 0..MaxEdition]]
    /\ failures \in 0..(MaxFailures + Cardinality(Compactor) - 1) /\ raced \in BOOLEAN

\* The summaries cover the history from its beginning without a gap or an
\* overlap, each made of the messages it stands for.  Nothing less than a
\* change in the moment between the last check and the append breaks that.
SegmentsTileHistory ==
    \/ raced
    \/ \A i \in DOMAIN segments :
          /\ segments[i].from = (IF i = 1 THEN 0 ELSE segments[i - 1].to)
          /\ segments[i].from < segments[i].to /\ segments[i].to <= raw
          /\ segments[i].fresh
=============================================================================
