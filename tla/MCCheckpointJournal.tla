------------------------ MODULE MCCheckpointJournal ------------------------
(***************************************************************************)
(* TLC instance of CheckpointJournal.  A batch number, a stall count and   *)
(* two messages are what the properties tell apart.                        *)
(***************************************************************************)
EXTENDS CheckpointJournal

CONSTANTS m1, m2, c1

MCMessage == {m1, m2}
MCCall == {c1}
MCFields == {"batch", "model_stalls"}
MCFresh == [messages |-> << m1 >>, pending |-> << >>,
            state |-> [f \in MCFields |-> 0]]
=============================================================================
