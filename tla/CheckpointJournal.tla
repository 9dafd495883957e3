-------------------------- MODULE CheckpointJournal --------------------------
(***************************************************************************)
(* Persistence of one durable task's checkpoint: checkpointWriter of       *)
(* agent/checkpoint_journal.go, driven by the `save` closure of            *)
(* runDurableLoop and by the load at its start.                            *)
(*                                                                         *)
(* On disk there are two things.  The task store holds an anchor: a full   *)
(* snapshot and the name of a sidecar log.  The log holds one event per    *)
(* line.  A save either appends a few lines to the log, or starts a new    *)
(* log and hands a new anchor to the store (SaveCheckpoint).  The process  *)
(* may crash between any two system calls, a write may fail half way, and  *)
(* the store may refuse the anchor.                                        *)
(***************************************************************************)
EXTENDS CheckpointDelta, FiniteSets, TLC

CONSTANTS
    Fresh,            \* the checkpoint a task starts from (messages built, nothing done)
    Batch, Stalls,    \* the scalar fields that count tool batches and empty model turns
    SnapshotEvery,    \* checkpointSnapshotEvery (32 in the code)
    NoAnchor,         \* the store has no checkpoint for the task yet
    MaxSaves,         \* bound: checkpoints the loop produces
    MaxFaults,        \* bound: crashes and failing writes
    MaxMessages       \* bound: transcript length

ASSUME JournalAssumption ==
    /\ Fresh \in Checkpoint
    /\ {Batch, Stalls} \subseteq StateField /\ Batch # Stalls
    /\ FieldValue \subseteq Nat /\ 0 \in FieldValue
    /\ SnapshotEvery \in Nat \ {0}
    /\ NoAnchor \notin [format : {1, 2}, snapshot : Checkpoint, log : Nat]
    /\ MaxSaves \in Nat /\ MaxFaults \in Nat /\ MaxMessages \in Nat

VARIABLES
    store,    \* task record: NoAnchor or an anchor
    logs,     \* sidecar directory: log name -> lines; a missing file is outside the domain
    unended,  \* the logs whose last line lacks its newline
    writer,   \* checkpointWriter of the running slice
    mem,      \* cp, the loop's checkpoint in memory
    phase,    \* where the slice is: "off", "run", "save", "swap", "append", "persist"
    tail,     \* lines the current save has not written yet
    acked,    \* history: the checkpoint of the last save that returned nil
    attempt,  \* history: the checkpoint the last save was asked to record
    created,  \* number of log names used so far
    saves, faults   \* counters for the bounds

disk   == << store, logs, unended, created >>
memory == << writer, mem, tail >>
vars   == << store, logs, unended, writer, mem, phase, tail, acked, attempt, created,
             saves, faults >>

-----------------------------------------------------------------------------
\* A line the process did not finish writing: what there is of it does not parse.
\* Without its newline alone it parses, and is the event it was to be.
Cut    == [kind |-> "cut", since |-> 0]
\* A whole event and what was appended right behind it, no newline between the two.
Joined == [kind |-> "joined", since |-> 0]

Parses(line)     == line.kind \notin {"cut", "joined"}
HasJoined(lines) == \E i \in DOMAIN lines : lines[i].kind = "joined"

NoLog == 0

Anchor(snapshot, log) == [format |-> 2, snapshot |-> snapshot, log |-> log]
\* Records of older releases are bare checkpoints.
Version1(snapshot)    == [format |-> 1, snapshot |-> snapshot, log |-> NoLog]

\* readCheckpointLog: a missing file reads as an empty log, and reading stops
\* at the first line that does not parse.
Lines(log) == IF log \in DOMAIN logs THEN logs[log] ELSE << >>

Readable(lines) ==
    SubSeq(lines, 1, Max({n \in 0 .. Len(lines) : \A i \in 1 .. n : Parses(lines[i])}))

Truncated(lines) == \E i \in DOMAIN lines : ~ Parses(lines[i])

\* loadDurableCheckpoint.
Load(record) ==
    IF record.format = 1 THEN record.snapshot
    ELSE Replay(record.snapshot, Readable(Lines(record.log)))

\* What a restart would find now.
Recovered == IF store = NoAnchor THEN Fresh ELSE Load(store)

\* The zero checkpointWriter, which writes a snapshot first.
NewWriter == [ready |-> FALSE, log |-> NoLog, steps |-> 0,
              baseline |-> Fresh, anchor |-> NoAnchor]

\* checkpointWriter.adopt: continue the journal just loaded when it is complete.
Adopt(record, loaded) ==
    IF record.format = 2 /\ ~ Truncated(Lines(record.log))
    THEN [ready |-> TRUE, log |-> record.log,
          steps |-> JournalSince(Lines(record.log)),
          baseline |-> loaded, anchor |-> record]
    ELSE NewWriter

Stamp(events, n) == [i \in DOMAIN events |-> [events[i] EXCEPT !.since = n]]

-----------------------------------------------------------------------------
Init ==
    /\ store \in {NoAnchor, Version1(Fresh)}
    /\ logs = << >> /\ unended = {}
    /\ writer = NewWriter /\ mem = Fresh /\ tail = << >>
    /\ phase = "off"
    /\ acked = NoAnchor /\ attempt = Fresh
    /\ created = 0 /\ saves = 0 /\ faults = 0

\* The slice is over or the process is gone: nothing of it survives but the disk.
Forget ==
    /\ phase' = "off"
    /\ writer' = NewWriter /\ mem' = Fresh /\ tail' = << >>

\* A fault consumes the fault budget.
Fault == faults < MaxFaults /\ faults' = faults + 1

\* runDurableLoop's start: load the checkpoint, adopt the journal, forget the
\* stalls of earlier slices, then save.  A checkpoint that cannot be replayed
\* blocks the task and the slice ends.
Resume ==
    /\ phase = "off"
    /\ Recovered # Rejected
    /\ mem' = [Recovered EXCEPT !.state[Stalls] = 0]
    /\ attempt' = mem'
    /\ acked' = Recovered
    /\ writer' = IF store = NoAnchor THEN NewWriter ELSE Adopt(store, Recovered)
    /\ phase' = "save"
    /\ UNCHANGED << disk, tail, saves, faults >>

-----------------------------------------------------------------------------
\* What the loop does to its checkpoint between two saves.

NextCheckpoint(cp) ==
    /\ phase = "run" /\ saves < MaxSaves
    /\ mem' = cp /\ attempt' = cp
    /\ phase' = "save" /\ saves' = saves + 1
    /\ UNCHANGED << disk, writer, tail, acked, faults >>

\* The model asks for tools: one message, a batch of pending calls, Batch + 1.
ModelAsksForTools ==
    /\ mem.pending = << >> /\ Len(mem.messages) < MaxMessages
    /\ mem.state[Batch] + 1 \in FieldValue
    /\ \E m \in Message, calls \in {<< c >> : c \in Call} \cup (Call \X Call) :
          NextCheckpoint([mem EXCEPT !.messages = Append(@, m), !.pending = calls,
                                     !.state[Batch] = @ + 1])

\* One tool has run: its message is added and its call leaves the front.
ToolAnswers ==
    /\ mem.pending # << >> /\ Len(mem.messages) < MaxMessages
    /\ \E m \in Message :
          NextCheckpoint([mem EXCEPT !.messages = Append(@, m), !.pending = Tail(@)])

\* Only scalar fields move (stalls counted, candidate or verification recorded).
FieldsChange ==
    \E f \in StateField \ {Batch}, v \in FieldValue :
        NextCheckpoint([mem EXCEPT !.state[f] = v])

\* A tool has run and its frame takes the place of an earlier one: the transcript
\* is rewritten, which one message stands for.
TranscriptRewritten ==
    /\ mem.pending # << >>
    /\ \E m \in Message :
          NextCheckpoint([mem EXCEPT !.messages = << m >>, !.pending = Tail(@)])

LoopStep == ModelAsksForTools \/ ToolAnswers \/ FieldsChange \/ TranscriptRewritten

-----------------------------------------------------------------------------
\* checkpointWriter.encode and SaveCheckpoint, one system call at a time.

NeedsSnapshot ==
    \/ ~ writer.ready
    \/ writer.steps >= SnapshotEvery
    \/ ~ SameCheckpointPrefix(writer.baseline, mem)

\* writeSnapshot: createLog makes an empty file under a name never used before.
CreateLog ==
    /\ phase = "save" /\ NeedsSnapshot
    /\ created' = created + 1
    /\ logs' = [n \in DOMAIN logs \cup {created + 1} |-> Lines(n)]
    /\ phase' = "swap"
    /\ UNCHANGED << store, unended, memory, acked, attempt, saves, faults >>

\* writeSnapshot: the previous log is removed and the writer moves to the new one.
SwapLog ==
    /\ phase = "swap"
    /\ logs' = [n \in DOMAIN logs \ {writer.log} |-> logs[n]]
    /\ unended' = unended \ {writer.log}
    /\ writer' = [ready |-> TRUE, log |-> created, steps |-> 0,
                  baseline |-> mem, anchor |-> Anchor(mem, created)]
    /\ phase' = "persist"
    /\ UNCHANGED << store, mem, tail, acked, attempt, created, saves, faults >>

\* The short path: the difference from the baseline becomes lines to append.
\* The log is opened without O_CREATE, so a missing log fails the save.
EncodeDifference ==
    /\ phase = "save" /\ ~ NeedsSnapshot
    /\ LET events == Stamp(DiffCheckpoint(writer.baseline, mem), writer.steps + 1)
       IN  \/ /\ events = << >> \/ writer.log \in DOMAIN logs
              /\ tail' = events
              /\ writer' = [writer EXCEPT !.steps = @ + 1]
              /\ phase' = "append"
              /\ UNCHANGED mem
           \/ /\ events # << >> /\ writer.log \notin DOMAIN logs
              /\ Forget
    /\ UNCHANGED << disk, acked, attempt, saves, faults >>

\* What O_APPEND makes of a line: it starts a new one, or goes on with the last,
\* which parses no more, and parses no more than before if it did not.
Put(line, ended) ==
    LET n         == writer.log
        continued == IF Truncated(logs[n]) THEN logs[n] ELSE Append(Front(logs[n]), Joined)
    IN  /\ logs' = [logs EXCEPT ![n] = IF n \in unended THEN continued ELSE Append(@, line)]
        /\ unended' = IF ended THEN unended \ {n} ELSE unended \cup {n}

\* appendEvents writes one line per event, each by a write of its own.
WriteLine ==
    /\ phase = "append" /\ tail # << >>
    /\ Put(Head(tail), TRUE)
    /\ tail' = Tail(tail)
    /\ UNCHANGED << store, writer, mem, phase, acked, attempt, created, saves, faults >>

\* Faulty: the last line stays in a buffer.
LinesBuffered ==
    /\ phase = "append" /\ Len(tail) <= 1
    /\ writer' = [writer EXCEPT !.baseline = mem]
    /\ phase' = "persist" /\ tail' = << >>
    /\ UNCHANGED << disk, mem, acked, attempt, saves, faults >>

\* All lines written and synced: the difference is the new baseline.
LinesSynced ==
    /\ phase = "append" /\ tail = << >>
    /\ writer' = [writer EXCEPT !.baseline = mem]
    /\ phase' = "persist"
    /\ UNCHANGED << disk, mem, tail, acked, attempt, saves, faults >>

\* Execution.SaveCheckpoint accepts the anchor; save returns nil.
Persist ==
    /\ phase = "persist"
    /\ store' = writer.anchor
    /\ acked' = mem
    /\ phase' = "run"
    /\ UNCHANGED << logs, unended, memory, attempt, created, saves, faults >>

\* SaveCheckpoint fails (stale generation, disk error): the loop returns ErrBlocked.
PersistFails ==
    /\ phase = "persist" /\ Fault /\ Forget
    /\ UNCHANGED << disk, acked, attempt, saves >>

\* A write may stop inside a line, or right before its newline.
BreaksOffInLine ==
    \/ UNCHANGED << logs, unended >>
    \/ /\ phase = "append" /\ tail # << >>
       /\ \E line \in {Cut, Head(tail)} : Put(line, FALSE)

\* A write or the sync fails: the loop returns ErrBlocked.
WriteFails ==
    /\ phase = "append" /\ Fault /\ Forget /\ BreaksOffInLine
    /\ UNCHANGED << store, acked, attempt, created, saves >>

\* The process dies.
Crash ==
    /\ phase # "off" /\ Fault /\ Forget /\ BreaksOffInLine
    /\ UNCHANGED << store, acked, attempt, created, saves >>

\* The slice yields, blocks or finishes; the next one starts from the disk.
EndSlice ==
    /\ phase = "run" /\ Forget
    /\ UNCHANGED << disk, acked, attempt, saves, faults >>

SaveStep == CreateLog \/ SwapLog \/ EncodeDifference \/ WriteLine \/ LinesSynced \/ Persist

Next ==
    \/ Resume \/ LoopStep \/ SaveStep
    \/ PersistFails \/ WriteFails \/ Crash \/ EndSlice

Spec == Init /\ [][Next]_vars

-----------------------------------------------------------------------------
Phases == {"off", "run", "save", "swap", "append", "persist"}

\* Every variable has its type.
TypeOK ==
    /\ store = NoAnchor \/ (/\ store.format \in {1, 2} /\ store.snapshot \in Checkpoint
                            /\ store.log \in 0 .. created)
    /\ DOMAIN logs \subseteq 1 .. created /\ unended \subseteq DOMAIN logs
    /\ writer.ready \in BOOLEAN /\ writer.log \in 0 .. created
    /\ writer.steps \in 0 .. SnapshotEvery /\ writer.baseline \in Checkpoint
    /\ mem \in Checkpoint /\ attempt \in Checkpoint
    /\ acked \in Checkpoint \cup {NoAnchor}
    /\ phase \in Phases
    /\ saves \in 0 .. MaxSaves /\ faults \in 0 .. MaxFaults

\* What a restart may find after a save that did not return: the checkpoint of
\* the last save that did, or that one and the first lines of the next.
PartWay(from, to) ==
    LET events == DiffCheckpoint(from, to)
    IN  {Replay(from, SubSeq(events, 1, k)) : k \in 0 .. Len(events)} \cup {to}

BetweenSaves == PartWay(acked, attempt)

\* The log named by the task record still exists, and no line of it was joined to
\* one that had lost its newline.  adopt takes such a line for a whole one
\* (decodeCheckpointJournal parses it), so the slice goes on appending to it, and
\* the next restart drops what is joined and everything behind it.
LogIntact ==
    \/ store = NoAnchor \/ store.format = 1
    \/ store.log \in DOMAIN logs /\ ~ HasJoined(logs[store.log])

\* As long as the log named by the task record exists and none of its lines were
\* joined, no crash and no failed write loses an acknowledged save or invents a
\* state between two saves.
NothingLostWithLogIntact ==
    acked # NoAnchor /\ LogIntact => Recovered \in BetweenSaves

\* A store that keeps one checkpoint, stated by itself in KeptCheckpoint; what a
\* restart rebuilds without the log that the task record names, or from one with
\* joined lines, counts as lost.
Kept == INSTANCE KeptCheckpoint WITH
    PartWay <- PartWay,
    Nothing <- NoAnchor,
    Lost    <- Rejected,
    kept    <- IF LogIntact THEN Recovered ELSE Rejected,
    saving  <- phase \in {"save", "swap", "append", "persist"}

\* Every system call of a save, every restart and every fault is a step of that
\* store or leaves it alone.
StoreImplemented == Kept!Spec

\* No acknowledged save is ever lost, the log being there and whole or not.
AckedSaveSurvives == acked # NoAnchor => Recovered \in BetweenSaves
=============================================================================
