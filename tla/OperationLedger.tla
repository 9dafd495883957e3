--------------------------- MODULE OperationLedger ---------------------------
(***************************************************************************)
(* What the operation ledger of a durable task promises about side         *)
(* effects, independently of loops, checkpoints and crashes: an operation  *)
(* is named before it runs, it never runs once its result is recorded, a   *)
(* recorded result stays, and an operation that is not replay safe runs    *)
(* once, and once more for every repetition the operator allowed.          *)
(* DurableTask is shown to implement this.                                 *)
(***************************************************************************)
EXTENDS Integers

CONSTANTS
    Id,          \* operations
    Call,        \* what an operation may be asked to do
    ReplaySafe,  \* the calls that may be repeated freely
    Result,      \* what an operation may return
    None         \* not named yet, not recorded yet

VARIABLES
    call,     \* Id -> Call, or None while the operation has not been named
    record,   \* Id -> Result, or None while there is no result
    runs,     \* Id -> how often the operation really ran
    allowed   \* Id -> how often the operator allowed a repetition

vars == << call, record, runs, allowed >>

Init ==
    /\ call = [i \in Id |-> None]
    /\ record = [i \in Id |-> None]
    /\ runs = [i \in Id |-> 0]
    /\ allowed = [i \in Id |-> 0]

\* An operation is named once.
Name(i, c) ==
    /\ call[i] = None
    /\ call' = [call EXCEPT ![i] = c]
    /\ UNCHANGED << record, runs, allowed >>

Open(i) == call[i] # None /\ record[i] = None

\* Permission to run: replay safe, or no run beyond the allowed repetitions.
MayRun(i) == call[i] \in ReplaySafe \/ runs[i] <= allowed[i]

Run(i) ==
    /\ Open(i) /\ MayRun(i)
    /\ runs' = [runs EXCEPT ![i] = @ + 1]
    /\ UNCHANGED << call, record, allowed >>

\* The result comes from the run, from a refusal to run, or from the operator.
Record(i, r) ==
    /\ Open(i)
    /\ record' = [record EXCEPT ![i] = r]
    /\ UNCHANGED << call, runs, allowed >>

Allow(i) ==
    /\ Open(i)
    /\ allowed' = [allowed EXCEPT ![i] = @ + 1]
    /\ UNCHANGED << call, record, runs >>

Next ==
    \E i \in Id :
        \/ \E c \in Call : Name(i, c)
        \/ Run(i)
        \/ \E r \in Result : Record(i, r)
        \/ Allow(i)

Spec == Init /\ [][Next]_vars
=============================================================================
