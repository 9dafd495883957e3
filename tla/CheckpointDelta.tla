--------------------------- MODULE CheckpointDelta ---------------------------
(***************************************************************************)
(* The difference encoding of agent/checkpoint_journal.go: diffCheckpoint  *)
(* turns two successive checkpoints of a durable task into at most three   *)
(* events, and replayCheckpointJournal rebuilds a checkpoint from a        *)
(* snapshot and the events that follow it.  Nothing here has state.        *)
(***************************************************************************)
EXTENDS Integers, SequencesExt

CONSTANTS
    Message,     \* provider messages of the transcript
    Call,        \* pending tool calls (durablePendingCall)
    StateField,  \* the scalar fields listed in checkpointStateFields
    FieldValue,  \* what a scalar field may hold
    Rejected     \* the outcome of replaying an event that cannot be applied

\* durableCheckpoint: transcript, pending calls, and the scalar fields.
Checkpoint == [messages : Seq(Message),
               pending  : Seq(Call),
               state    : [StateField -> FieldValue]]

ASSUME RejectedAssumption == Rejected \notin Checkpoint

-----------------------------------------------------------------------------
\* checkpointEvent.  `since` numbers the save, counted from the last snapshot.

MessagesEvent(added)     == [kind |-> "messages", since |-> 0, added |-> added]
ResetEvent(messages, calls) ==
    [kind |-> "reset", since |-> 0, messages |-> messages, calls |-> calls]
PendingEvent(calls)      == [kind |-> "pending", since |-> 0, calls |-> calls]
PendingDropEvent(drop)   == [kind |-> "pending_drop", since |-> 0, drop |-> drop]
StateEvent(values)       == [kind |-> "state", since |-> 0, values |-> values]

\* pendingDroppedFromMiddle: next neither extends prev nor is a suffix of it.
PendingDroppedFromMiddle(prev, next) ==
    IF Len(next) >= Len(prev)
    THEN ~ IsPrefix(prev, next)
    ELSE next # SubSeq(prev, Len(prev) - Len(next) + 1, Len(prev))

\* sameCheckpointPrefix: the pair can be stored as a difference.
SameCheckpointPrefix(prev, next) ==
    ~ PendingDroppedFromMiddle(prev.pending, next.pending)

\* The transcript part of a difference: an extension, a rewrite, or nothing.
MessageEvents(prev, next) ==
    IF IsStrictPrefix(prev.messages, next.messages)
    THEN << MessagesEvent(SubSeq(next.messages, Len(prev.messages) + 1,
                                 Len(next.messages))) >>
    ELSE IF prev.messages # next.messages
    THEN << ResetEvent(next.messages, next.pending) >>
    ELSE << >>

\* The transcript was rewritten rather than extended.
IsReset(prev, next) == ~ IsPrefix(prev.messages, next.messages)

\* The pending part: calls appended, calls consumed from the front, or nothing.
\* A reset event already carries the pending calls.
PendingEvents(prev, next) ==
    IF IsReset(prev, next) THEN << >>
    ELSE IF Len(next.pending) > Len(prev.pending)
    THEN << PendingEvent(SubSeq(next.pending, Len(prev.pending) + 1,
                                Len(next.pending))) >>
    ELSE IF Len(next.pending) < Len(prev.pending)
    THEN << PendingDropEvent(Len(prev.pending) - Len(next.pending)) >>
    ELSE << >>

\* changedCheckpointFields.
ChangedFields(prev, next) == {f \in StateField : prev.state[f] # next.state[f]}

\* The scalar part carries the changed fields only (sparseCheckpoint).
StateEvents(prev, next) ==
    LET changed == ChangedFields(prev, next)
    IN  IF changed = {} THEN << >>
        ELSE << StateEvent([f \in changed |-> next.state[f]]) >>

\* diffCheckpoint: the events one save appends, in file order.
DiffCheckpoint(prev, next) ==
    MessageEvents(prev, next) \o PendingEvents(prev, next) \o StateEvents(prev, next)

-----------------------------------------------------------------------------
\* applyCheckpointEvent.
ApplyEvent(cp, e) ==
    CASE e.kind = "messages" -> [cp EXCEPT !.messages = @ \o e.added]
      [] e.kind = "pending"  -> [cp EXCEPT !.pending = @ \o e.calls]
      [] e.kind = "pending_drop" ->
            IF e.drop \in 0 .. Len(cp.pending)
            THEN [cp EXCEPT !.pending = SubSeq(@, e.drop + 1, Len(@))]
            ELSE Rejected
      [] e.kind = "reset"    -> [cp EXCEPT !.messages = e.messages, !.pending = e.calls]
      [] e.kind = "state"    ->
            [cp EXCEPT !.state = [f \in StateField |->
                IF f \in DOMAIN e.values THEN e.values[f] ELSE @[f]]]
      [] OTHER -> Rejected

\* replayCheckpointJournal: the events in order, stopping at the first refusal.
Replay(snapshot, events) ==
    LET cp[i \in 0 .. Len(events)] ==
            IF i = 0 THEN snapshot
            ELSE IF cp[i - 1] = Rejected THEN Rejected
            ELSE ApplyEvent(cp[i - 1], events[i])
    IN  cp[Len(events)]

\* journalSince: the save count the log has reached.
JournalSince(events) ==
    LET marks == {0} \cup {events[i].since : i \in DOMAIN events}
    IN  CHOOSE m \in marks : \A n \in marks : n <= m
=============================================================================
