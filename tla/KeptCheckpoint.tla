--------------------------- MODULE KeptCheckpoint ---------------------------
(***************************************************************************)
(* What the durable loop relies on when it saves its checkpoint,           *)
(* independently of anchors, logs and lines: one checkpoint is kept, a     *)
(* save moves it from the last acknowledged one to the new one, a save     *)
(* that breaks off leaves it somewhere between the two, and the next slice *)
(* starts from what is kept.  What is kept may be lost, but only by a save *)
(* that is under way, and an acknowledged save does not lose it.           *)
(* CheckpointJournal is shown to implement this.                           *)
(***************************************************************************)

CONSTANTS
    Checkpoint,     \* what a slice may ask to be kept
    PartWay(_, _),  \* what a save from one checkpoint to another may leave behind
    Nothing,        \* nothing has been acknowledged yet
    Lost            \* what was kept cannot be found

VARIABLES
    kept,     \* what a restart would find, or Lost
    acked,    \* the checkpoint of the last save that was acknowledged, or Nothing
    attempt,  \* the checkpoint the last save was asked to keep
    saving    \* a save is under way

vars == << kept, acked, attempt, saving >>

Init ==
    /\ kept \in Checkpoint
    /\ acked = Nothing
    /\ attempt = kept
    /\ saving = FALSE

\* A slice starts from what is kept and saves at once.
Restart ==
    /\ ~ saving /\ saving' = TRUE
    /\ acked' \in Checkpoint
    /\ kept # Lost => acked' = kept
    /\ attempt' \in Checkpoint
    /\ UNCHANGED kept

\* The next save of a slice: the one before is settled.
Ask ==
    /\ ~ saving /\ saving' = TRUE
    /\ kept \in {acked, Lost}
    /\ attempt' \in Checkpoint
    /\ UNCHANGED << kept, acked >>

\* A part of the difference becomes durable.
Advance ==
    /\ saving /\ kept # Lost
    /\ kept' \in PartWay(acked, attempt)
    /\ UNCHANGED << acked, attempt, saving >>

\* The old checkpoint goes before the new one is there.
Lose ==
    /\ saving
    /\ kept' = Lost
    /\ UNCHANGED << acked, attempt, saving >>

\* The save returns without an error.
Acknowledge ==
    /\ saving /\ saving' = FALSE
    /\ acked' = attempt
    /\ kept' = attempt \/ (kept = Lost /\ kept' = Lost)
    /\ UNCHANGED attempt

\* An error, or the end of the process: a last part may have become durable, or
\* have taken with it what was kept.
BreakOff ==
    /\ saving /\ saving' = FALSE
    /\ \/ kept' \in {kept, Lost}
       \/ kept # Lost /\ kept' \in PartWay(acked, attempt)
    /\ UNCHANGED << acked, attempt >>

Next == Restart \/ Ask \/ Advance \/ Lose \/ Acknowledge \/ BreakOff

Spec == Init /\ [][Next]_vars
=============================================================================
