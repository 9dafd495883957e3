---------------------------- MODULE ChatTurnProofs ----------------------------
(***************************************************************************)
(* Proofs about ChatTurn, for any number of calls, rounds, failed writes   *)
(* and any limits.                                                         *)
(***************************************************************************)
EXTENDS ChatTurn, FiniteSetTheorems, SequenceTheorems, TLAPS

Outcomes == {"answered", "session", "stopped", "other"}

-----------------------------------------------------------------------------
(* Types, in four parts.                                                   *)

ControlTyped ==
    /\ phase \in Phases /\ mode \in {"loop", "simple"}
    /\ round \in 0 .. MaxIterations /\ atLimit \in BOOLEAN
    /\ outcome \in Outcomes \cup {"none"}

BatchTyped ==
    /\ batch \in BatchSet
    /\ results \in Seq(Results \cup {Skipped})

StateTyped == memory \in Memories /\ gate \in Gates /\ ran \in BOOLEAN

WorldTyped ==
    /\ sess \in Sessions
    /\ call \in [registered : BOOLEAN, cancelled : BOOLEAN]
    /\ faults \in 0 .. MaxFaults
    /\ hist \in Ghost

\* A batch is in hand only while its tools run and its results are stored.
BatchShape ==
    /\ phase \notin {"execute", "record"} => batch = NoBatch
    /\ phase # "record" => results = <<>>
    /\ phase = "execute" => batch.calls # <<>>
    /\ phase = "record" => results # <<>> /\ Len(results) <= Len(batch.calls)

TInv == TypeOK /\ BatchShape

LEMMA TypeParts == TypeOK <=> ControlTyped /\ BatchTyped /\ StateTyped /\ WorldTyped
BY DEF TypeOK, ControlTyped, BatchTyped, StateTyped, WorldTyped, Outcomes

\* What a call ends with, and what a failed write leaves, is typed.
LEMMA EndTyped ==
    ASSUME TypeOK, NEW why \in Outcomes, End(why)
    PROVE  /\ ControlTyped' /\ BatchTyped' /\ BatchShape'
           /\ call' \in [registered : BOOLEAN, cancelled : BOOLEAN]
<1>1. ControlTyped'
    BY DEF TypeOK, End, Phases, Outcomes, ControlTyped
<1>2. BatchTyped'
    BY DEF TypeOK, End, BatchSet, NoBatch, BatchTyped
<1>3. call' \in [registered : BOOLEAN, cancelled : BOOLEAN]
    BY DEF TypeOK, End
<1>4. BatchShape'
    BY DEF End, BatchShape
<1> QED BY <1>1, <1>2, <1>3, <1>4

LEMMA FailedTyped ==
    ASSUME TypeOK, Failed
    PROVE  faults' \in 0 .. MaxFaults /\ hist' \in Ghost
<1>1. faults' \in 0 .. MaxFaults
    BY TurnAssumption, SMTT(20) DEF TypeOK, Failed, MayFail, TurnAssumption, Sessions
<1>2. hist' \in Ghost
    BY DEF TypeOK, Failed, Ghost
<1> QED BY <1>1, <1>2

LEMMA TypeNext ==
    ASSUME ControlTyped', BatchTyped', BatchShape', StateTyped', WorldTyped'
    PROVE  TInv'
BY DEF TInv, TypeOK, ControlTyped, BatchTyped, StateTyped, WorldTyped, Outcomes

LEMMA InitTyped == ASSUME Init PROVE TInv
<1>1. ControlTyped
  <2>1. round \in 0 .. MaxIterations
    BY TurnAssumption DEF TurnAssumption, Init
  <2>2. phase = "start" /\ mode = "loop" /\ atLimit \in BOOLEAN /\ outcome = "none"
    BY DEF Init
  <2> QED BY <2>1, <2>2 DEF ControlTyped, Phases
<1>2. BatchTyped
    BY DEF Init, BatchTyped, BatchSet, NoBatch
<1>3. memory \in Memories
  <2>1. [c \in Calls |-> 0] \in [Calls -> Nat]
    OBVIOUS
  <2>2. [c \in Calls |-> None] \in [Calls -> Results \cup {None, Skipped}]
    OBVIOUS
  <2>3. memory = [repeat |-> [c \in Calls |-> 0], last |-> [c \in Calls |-> None],
                  failures |-> [c \in Calls |-> 0], urls |-> [c \in Calls |-> 0],
                  evidence |-> 0, forced |-> FALSE, silent |-> 0, looks |-> 0,
                  empty |-> 0, err |-> FALSE]
    BY DEF Init
  <2>4. 0 \in Evidence /\ 0 \in 0 .. EmptyRetries
    BY TurnAssumption DEF TurnAssumption, Evidence
  <2> QED BY <2>1, <2>2, <2>3, <2>4, SMT DEF Memories
<1>4. gate \in Gates /\ ran \in BOOLEAN
  <2>1. PICK need \in GateTools, unavailable \in BOOLEAN :
             gate = [required |-> need, unavailable |-> unavailable,
                     attempted |-> {}, synthesis |-> FALSE]
    BY DEF Init
  <2>2. gate \in Gates
    BY <2>1 DEF Gates
  <2>3. ran \in BOOLEAN
    BY DEF Init
  <2> QED BY <2>2, <2>3
<1>5. sess \in Sessions
    BY DEF Init, Sessions
<1>6. call \in [registered : BOOLEAN, cancelled : BOOLEAN]
  <2>1. call = [registered |-> FALSE, cancelled |-> FALSE]
    BY DEF Init
  <2> QED BY <2>1
<1>7. faults \in 0 .. MaxFaults
    BY TurnAssumption DEF TurnAssumption, Init
<1>8. hist \in Ghost
    BY DEF Init, Ghost
<1>9. BatchShape
    BY DEF Init, BatchShape
<1> QED BY <1>1, <1>2, <1>3, <1>4, <1>5, <1>6, <1>7, <1>8, <1>9, TypeParts
        DEF StateTyped, WorldTyped, TInv

LEMMA RegisterTyped == ASSUME TInv, Register PROVE TInv'
<1>1. ControlTyped' /\ BatchTyped' /\ StateTyped'
    BY DEF TInv, TypeOK, Register, Phases, ControlTyped, BatchTyped, StateTyped, Outcomes
<1>2. call' \in [registered : BOOLEAN, cancelled : BOOLEAN]
    BY DEF Register
<1>3. WorldTyped'
    BY <1>2 DEF WorldTyped, TInv, TypeOK, Register
<1>4. BatchShape'
    BY DEF BatchShape, TInv, Register
<1> QED BY <1>1, <1>3, <1>4, TypeNext

LEMMA CheckHandleTyped == ASSUME TInv, CheckHandle PROVE TInv'
<1>1. StateTyped' /\ sess' \in Sessions /\ faults' \in 0 .. MaxFaults /\ hist' \in Ghost
    BY DEF TInv, TypeOK, StateTyped, CheckHandle
<1>2. CASE History = "ok"
  <2>1. ControlTyped' /\ BatchTyped' /\ WorldTyped'
    BY <1>2, <1>1 DEF TInv, TypeOK, CheckHandle, Phases, ControlTyped, BatchTyped, WorldTyped, Outcomes
  <2>2. BatchShape'
    BY <1>2 DEF TInv, BatchShape, CheckHandle
  <2> QED BY <1>1, <2>1, <2>2, TypeNext
<1>3. CASE History # "ok"
  <2>1. History \in Outcomes /\ End(History)
    BY <1>3 DEF History, Outcomes, CheckHandle
  <2> QED BY <1>1, <2>1, EndTyped, TypeNext DEF WorldTyped, TInv
<1> QED BY <1>2, <1>3

LEMMA StoreQuestionTyped == ASSUME TInv, StoreQuestion PROVE TInv'
<1>1. StateTyped'
    BY DEF TInv, TypeOK, StateTyped, StoreQuestion
<1>2. CASE ~sess.deleted /\ sess' = [sess EXCEPT !.questions = @ + 1] /\ phase' = "reason"
           /\ UNCHANGED <<mode, round, atLimit, batch, results, call, outcome, faults, hist>>
  <2>1. sess' \in Sessions
    BY <1>2, SMTT(20) DEF TInv, TypeOK, Sessions
  <2>2. ControlTyped' /\ BatchTyped' /\ WorldTyped'
    BY <1>2, <2>1 DEF TInv, TypeOK, Phases, ControlTyped, BatchTyped, WorldTyped, Outcomes
  <2>3. BatchShape'
    BY <1>2 DEF TInv, BatchShape, StoreQuestion
  <2> QED BY <1>1, <2>2, <2>3, TypeNext
<1>3. CASE Failed /\ End("session") /\ UNCHANGED sess
    BY <1>1, <1>3, EndTyped, FailedTyped, TypeNext DEF WorldTyped, TInv, TypeOK, Outcomes
<1> QED BY <1>2, <1>3 DEF StoreQuestion

LEMMA FinalizeTyped ==
    ASSUME TypeOK, Finalize
    PROVE  ControlTyped' /\ BatchTyped' /\ BatchShape' /\ WorldTyped'
<1>1. sess' \in Sessions
    BY DEF Finalize, TypeOK, Sessions
<1>2. faults' \in 0 .. MaxFaults /\ hist' \in Ghost
    BY FailedTyped DEF Finalize, TypeOK
<1>3. End("answered") \/ End("session")
    BY DEF Finalize
<1> QED BY <1>1, <1>2, <1>3, EndTyped DEF WorldTyped, Outcomes

\* An order of missing tools is a batch.
LEMMA OrdersAreBatches ==
    ASSUME NEW S \in SUBSET Calls, S # {}, NEW cs \in Orders(S)
    PROVE  cs \in Seq(Calls) /\ cs # <<>> /\ ToSet(cs) = S
<1>1. IsFiniteSet(S)
    BY FS_Subset, TurnAssumption DEF TurnAssumption
<1>2. Cardinality(S) \in Nat /\ Cardinality(S) # 0
    BY <1>1, FS_CardinalityType, FS_EmptySet
<1>3. cs \in [1 .. Cardinality(S) -> S] /\ ToSet(cs) = S
    BY DEF Orders
<1> QED BY <1>2, <1>3

\* Storing a request.
LEMMA RequestTyped ==
    ASSUME TypeOK, NEW cs \in Seq(Calls), sess' = [sess EXCEPT !.open = @ \o cs]
    PROVE  sess' \in Sessions
<1>1. sess \in Sessions /\ sess.open \in Seq(Calls)
    BY DEF TypeOK, Sessions
<1>2. sess.open \o cs \in Seq(Calls)
    BY <1>1
<1> QED BY <1>1, <1>2 DEF Sessions

\* The gate stores a request, fails to, or goes on without one.
LEMMA EnforceTyped ==
    ASSUME TInv, EnforceGate, phase \notin {"execute", "record"}, UNCHANGED results
    PROVE  /\ phase' \in {"reason", "execute"}
           /\ BatchTyped' /\ BatchShape'
           /\ memory' \in Memories /\ gate' \in Gates
           /\ sess' \in Sessions /\ faults' \in 0 .. MaxFaults /\ hist' \in Ghost
<1>0. Unmet(gate) \in SUBSET Calls
    BY TurnAssumption DEF Unmet, TInv, TypeOK, Gates, TurnAssumption
<1>1. CASE Unmet(gate) = {}
  <2>1. gate' \in Gates
    BY <1>1 DEF EnforceGate, TInv, TypeOK, Gates
  <2>2. phase' = "reason" /\ batch' = NoBatch /\ UNCHANGED <<memory, sess, faults, hist>>
    BY <1>1 DEF EnforceGate
  <2> QED BY <2>1, <2>2 DEF TInv, TypeOK, BatchTyped, BatchShape, BatchSet, NoBatch
<1>2. CASE \E cs \in Orders(Unmet(gate)) :
              /\ Unmet(gate) # {}
              /\ sess' = [sess EXCEPT !.open = @ \o cs]
              /\ batch' = [NoBatch EXCEPT !.calls = cs, !.gate = TRUE]
              /\ phase' = "execute"
              /\ UNCHANGED <<memory, gate, faults, hist>>
  <2>1. PICK cs \in Orders(Unmet(gate)) :
              /\ Unmet(gate) # {}
              /\ sess' = [sess EXCEPT !.open = @ \o cs]
              /\ batch' = [NoBatch EXCEPT !.calls = cs, !.gate = TRUE]
              /\ phase' = "execute"
              /\ UNCHANGED <<memory, gate, faults, hist>>
    BY <1>2
  <2>2. cs \in Seq(Calls) /\ cs # <<>>
    BY <1>0, <2>1, OrdersAreBatches
  <2>3. sess' \in Sessions
    BY <2>1, <2>2, RequestTyped DEF TInv
  <2>4. BatchTyped'
    BY <2>1, <2>2 DEF TInv, TypeOK, BatchTyped, BatchSet, NoBatch
  <2>5. BatchShape'
    BY <2>1, <2>2 DEF TInv, BatchShape, NoBatch
  <2> QED BY <2>1, <2>3, <2>4, <2>5 DEF TInv, TypeOK
<1>3. CASE /\ Failed /\ memory' = [memory EXCEPT !.err = TRUE]
           /\ phase' = "reason" /\ batch' = NoBatch /\ UNCHANGED <<gate, sess>>
  <2>1. memory' \in Memories
    BY <1>3 DEF TInv, TypeOK, Memories
  <2>2. BatchTyped' /\ BatchShape'
    BY <1>3 DEF TInv, TypeOK, BatchTyped, BatchShape, BatchSet, NoBatch
  <2> QED BY <1>3, <2>1, <2>2, FailedTyped DEF TInv, TypeOK
<1> QED BY <1>1, <1>2, <1>3 DEF EnforceGate

LEMMA GateGoesOn ==
    ASSUME TInv, EnforceGate, phase \notin {"execute", "record"},
           UNCHANGED <<mode, round, atLimit, results, ran, call, outcome>>
    PROVE  TInv'
<1>1. ControlTyped'
    BY EnforceTyped DEF ControlTyped, TInv, TypeOK, Phases, Outcomes
<1> QED BY <1>1, EnforceTyped, TypeNext DEF StateTyped, WorldTyped, TInv, TypeOK

\* A step that only moves on to another phase.
LEMMA GoesOn ==
    ASSUME TInv, phase \notin {"execute", "record"}, phase' \in Phases \ {"execute", "record"},
           StateTyped', UNCHANGED <<mode, round, atLimit, batch, results, sess, call,
                                    outcome, faults, hist>>
    PROVE  TInv'
<1>1. ControlTyped' /\ WorldTyped'
    BY DEF ControlTyped, WorldTyped, TInv, TypeOK, Outcomes
<1>2. BatchTyped' /\ BatchShape'
    BY DEF TInv, TypeOK, BatchTyped, BatchShape
<1> QED BY <1>1, <1>2, TypeNext

LEMMA GateStepTyped == ASSUME TInv, GateStep PROVE TInv'
<1>1. phase = "gate" /\ UNCHANGED <<mode, round, atLimit, results, ran, call, outcome>>
    BY DEF GateStep
<1>2. CASE EnforceGate
    BY <1>1, <1>2, GateGoesOn
<1>3. CASE phase' = "reason" /\ batch' = NoBatch /\ UNCHANGED <<memory, gate, sess, faults, hist>>
  <2>1. ControlTyped' /\ StateTyped' /\ WorldTyped'
    BY <1>1, <1>3 DEF ControlTyped, StateTyped, WorldTyped, TInv, TypeOK, Phases, Outcomes
  <2>2. BatchTyped' /\ BatchShape'
    BY <1>1, <1>3 DEF TInv, TypeOK, BatchTyped, BatchShape, BatchSet, NoBatch
  <2> QED BY <2>1, <2>2, TypeNext
<1> QED BY <1>2, <1>3 DEF GateStep

LEMMA ReasonTyped == ASSUME TInv, Reason PROVE TInv'
<1>1. StateTyped' /\ sess' \in Sessions /\ faults' \in 0 .. MaxFaults
    BY DEF TInv, TypeOK, StateTyped, Reason
<1>2. CASE \E why \in Outcomes : End(why) /\ UNCHANGED hist
    BY <1>1, <1>2, EndTyped, TypeNext DEF WorldTyped, TInv, TypeOK
<1>3. CASE /\ phase' = "asked" /\ round' = round + 1 /\ atLimit' = Synthesizes
           /\ hist' = [hist EXCEPT !.seen = gate.attempted, !.told = gate.synthesis]
           /\ UNCHANGED <<mode, batch, results, call, outcome>>
  <2>1. round' \in 0 .. MaxIterations
    BY <1>3, TurnAssumption DEF Reason, RoundsLeft, TInv, TypeOK, TurnAssumption
  <2>2. atLimit' \in BOOLEAN
    BY <1>3 DEF Synthesizes
  <2>3. ControlTyped'
    BY <1>3, <2>1, <2>2 DEF ControlTyped, TInv, TypeOK, Phases, Outcomes
  <2>4. hist' \in Ghost
    BY <1>3 DEF TInv, TypeOK, Ghost, Gates
  <2>5. BatchTyped' /\ WorldTyped'
    BY <1>1, <1>3, <2>4 DEF BatchTyped, WorldTyped, TInv, TypeOK
  <2>6. BatchShape'
    BY <1>3 DEF Reason, BatchShape, TInv
  <2> QED BY <1>1, <2>3, <2>5, <2>6, TypeNext
<1>4. History \in Outcomes \cup {"ok"}
    BY DEF History, Outcomes
<1> QED BY <1>2, <1>3, <1>4 DEF Reason, Outcomes

LEMMA RunOutTyped == ASSUME TInv, RunOut \/ ModelFails PROVE TInv'
<1>1. StateTyped' /\ sess' \in Sessions
    BY DEF TInv, TypeOK, StateTyped, RunOut, ModelFails
<1>2. faults' \in 0 .. MaxFaults /\ hist' \in Ghost
    BY FailedTyped DEF RunOut, ModelFails, TInv, TypeOK
<1>3. \E why \in Outcomes : End(why)
    BY DEF RunOut, ModelFails, Outcomes
<1> QED BY <1>1, <1>2, <1>3, EndTyped, TypeNext DEF WorldTyped, TInv

LEMMA AnswerAtLimitTyped == ASSUME TInv, AnswerAtLimit PROVE TInv'
    BY FinalizeTyped, TypeNext DEF AnswerAtLimit, StateTyped, TInv, TypeOK

LEMMA EmptyReset == ASSUME TypeOK, memory' = [memory EXCEPT !.empty = 0] PROVE memory' \in Memories
<1>1. 0 \in 0 .. EmptyRetries
    BY TurnAssumption DEF TurnAssumption
<1> QED BY <1>1 DEF TypeOK, Memories

LEMMA ReplyTextTyped == ASSUME TInv, ReplyText PROVE TInv'
<1>1. phase = "asked" /\ UNCHANGED ran
    BY DEF ReplyText
<1>2. CASE Blocking(gate)
    BY <1>1, <1>2, GateGoesOn DEF ReplyText
<1>3. CASE ~Blocking(gate)
  <2>1. memory' = [memory EXCEPT !.empty = 0] /\ UNCHANGED gate
    BY <1>3 DEF ReplyText
  <2>2. StateTyped'
    BY <1>1, <2>1, EmptyReset DEF StateTyped, TInv, TypeOK
  <2>3. CASE Finalize
    BY <2>2, <2>3, FinalizeTyped, TypeNext DEF TInv
  <2>4. CASE phase' = "reason" /\ UNCHANGED <<mode, round, atLimit, batch, results, sess, call,
                                               outcome, faults, hist>>
    BY <1>1, <2>2, <2>4, GoesOn DEF Phases
  <2> QED BY <1>3, <2>3, <2>4 DEF ReplyText
<1> QED BY <1>2, <1>3

LEMMA ReplyEmptyTyped == ASSUME TInv, ReplyEmpty PROVE TInv'
<1>1. phase = "asked" /\ UNCHANGED ran
    BY DEF ReplyEmpty
<1>2. CASE Blocking(gate)
    BY <1>1, <1>2, GateGoesOn DEF ReplyEmpty
<1>3. CASE ~Blocking(gate) /\ memory.empty < EmptyRetries
  <2>1. memory' = [memory EXCEPT !.empty = @ + 1] /\ UNCHANGED gate
    BY <1>3 DEF ReplyEmpty
  <2>2. memory \in Memories /\ memory.empty + 1 \in 0 .. EmptyRetries
    <3>1. memory \in Memories
      BY DEF TInv, TypeOK
    <3>2. memory.empty \in 0 .. EmptyRetries
      BY <3>1 DEF Memories
    <3>3. EmptyRetries \in Nat
      BY TurnAssumption DEF TurnAssumption
    <3> QED BY <1>3, <3>1, <3>2, <3>3
  <2>3. memory' \in Memories
    BY <2>1, <2>2 DEF Memories
  <2>4. StateTyped'
    BY <1>1, <2>1, <2>3 DEF StateTyped, TInv, TypeOK
  <2> QED BY <1>1, <1>3, <2>4, GoesOn DEF Phases, ReplyEmpty
<1>4. CASE ~Blocking(gate) /\ ~(memory.empty < EmptyRetries)
  <2>1. Finalize /\ UNCHANGED <<gate, memory>>
    BY <1>4 DEF ReplyEmpty
  <2>2. StateTyped'
    BY <1>1, <2>1 DEF StateTyped, TInv, TypeOK
  <2> QED BY <2>1, <2>2, FinalizeTyped, TypeNext DEF TInv
<1> QED BY <1>2, <1>3, <1>4

LEMMA StopStepTyped == ASSUME TInv, StopStep PROVE TInv'
<1>1. phase = "stop" /\ UNCHANGED ran
    BY DEF StopStep
<1>2. CASE Blocking(gate)
    BY <1>1, <1>2, GateGoesOn DEF StopStep
<1>3. CASE ~Blocking(gate)
  <2>1. Finalize /\ UNCHANGED <<gate, memory>>
    BY <1>3 DEF StopStep
  <2>2. StateTyped'
    BY <1>1, <2>1 DEF StateTyped, TInv, TypeOK
  <2> QED BY <2>1, <2>2, FinalizeTyped, TypeNext DEF TInv
<1> QED BY <1>2, <1>3

\* How often a call is in a batch.
LEMMA CountIsNat ==
    ASSUME NEW cs \in Batches, NEW c \in Calls
    PROVE  Count(c, cs) \in Nat /\ (c \in ToSet(cs) => Count(c, cs) >= 1)
<1>1. PICK n \in 1 .. MaxBatch : cs \in [1 .. n -> Calls]
    BY DEF Batches
<1>2. n \in Nat /\ DOMAIN cs = 1 .. n
    BY <1>1, TurnAssumption DEF TurnAssumption
<1> DEFINE I == {i \in DOMAIN cs : cs[i] = c}
<1>3. IsFiniteSet(1 .. n)
    BY <1>2, FS_Interval
<1>4. IsFiniteSet(I)
    BY <1>2, <1>3, FS_Subset
<1>5. Cardinality(I) \in Nat /\ (Cardinality(I) = 0 <=> I = {})
    BY <1>4, FS_CardinalityType, FS_EmptySet
<1>6. c \in ToSet(cs) => I # {}
    BY DEF ToSet
<1> HIDE DEF I
<1>7. Count(c, cs) = Cardinality(I)
    BY DEF Count, I
<1> QED BY <1>5, <1>6, <1>7

LEMMA BatchIsSeq == ASSUME NEW cs \in Batches PROVE cs \in Seq(Calls) /\ cs # <<>>
<1>1. PICK n \in 1 .. MaxBatch : cs \in [1 .. n -> Calls]
    BY DEF Batches
<1>2. n \in Nat /\ n # 0
    BY <1>1, TurnAssumption DEF TurnAssumption
<1>3. cs \in Seq(Calls)
    BY <1>1, <1>2
<1>4. DOMAIN cs # {}
    BY <1>1, <1>2, SMTT(30)
<1> QED BY <1>3, <1>4

LEMMA HeardTyped ==
    ASSUME TypeOK, NEW cs, NEW silent \in BOOLEAN
    PROVE  Heard(cs, silent) \in Memories
<1>1. memory \in Memories /\ memory.silent \in Nat /\ memory.looks \in Nat /\ 0 \in 0 .. EmptyRetries
    BY TurnAssumption, SMTT(30) DEF TypeOK, Memories, TurnAssumption
<1> DEFINE quiet == IF silent THEN memory.silent + 1 ELSE 0
           looked == IF ObserveOnly(cs) THEN memory.looks + 1 ELSE 0
<1>2. quiet \in Nat /\ looked \in Nat
    BY <1>1
<1>3. Heard(cs, silent) = [memory EXCEPT !.empty = 0, !.silent = quiet, !.looks = looked]
    BY DEF Heard
<1> HIDE DEF quiet, looked
<1> QED BY <1>1, <1>2, <1>3 DEF Memories

LEMMA CountedTyped ==
    ASSUME NEW m \in Memories, NEW cs \in Batches
    PROVE  Counted(m, cs) \in Memories
<1> DEFINE more(f, S) == [c \in Calls |-> IF c \in S /\ ~FailedTooOften(m, c)
                                            THEN f[c] + Count(c, cs) ELSE f[c]]
<1>1. m.repeat \in [Calls -> Nat] /\ m.urls \in [Calls -> Nat]
    BY DEF Memories
<1>2. more(m.repeat, Calls) \in [Calls -> Nat] /\ more(m.urls, Fetches) \in [Calls -> Nat]
    BY <1>1, CountIsNat
<1>3. Counted(m, cs) = [m EXCEPT !.repeat = more(m.repeat, Calls), !.urls = more(m.urls, Fetches)]
    BY DEF Counted
<1> HIDE DEF more
<1> QED BY <1>2, <1>3 DEF Memories

\* Asking for tools: the answer is heard, counted, and stored, repeated or
\* stopped.
LEMMA StoreCallsTyped ==
    ASSUME TInv, phase = "asked", NEW cs \in Batches, NEW silent \in BOOLEAN,
           StoreCalls(cs, silent), StateTyped'
    PROVE  TInv'
<1>1. cs \in Seq(Calls) /\ cs # <<>>
    BY BatchIsSeq
<1>2. CASE /\ sess' = [sess EXCEPT !.open = @ \o cs]
           /\ batch' = [NoBatch EXCEPT !.calls = cs, !.silent = silent]
           /\ phase' = "execute"
           /\ UNCHANGED <<mode, round, atLimit, results, call, outcome, faults, hist>>
  <2>1. sess' \in Sessions
    BY <1>1, <1>2, RequestTyped DEF TInv
  <2>2. batch' = [calls |-> cs, silent |-> silent, gate |-> FALSE, news |-> {}]
    BY <1>2 DEF NoBatch
  <2>3. batch' \in BatchSet /\ batch'.calls = cs
    BY <1>1, <2>2 DEF BatchSet
  <2>4. BatchTyped' /\ BatchShape'
    BY <1>1, <1>2, <2>3 DEF BatchTyped, BatchShape, TInv, TypeOK
  <2>5. ControlTyped' /\ WorldTyped'
    BY <1>2, <2>1 DEF ControlTyped, WorldTyped, TInv, TypeOK, Phases, Outcomes
  <2> QED BY <2>4, <2>5, TypeNext
<1>3. CASE Failed /\ End("session") /\ UNCHANGED sess
    BY <1>3, EndTyped, FailedTyped, TypeNext DEF WorldTyped, TInv, TypeOK, Outcomes
<1> QED BY <1>2, <1>3 DEF StoreCalls

LEMMA ReplyCallsTyped ==
    ASSUME TInv, NEW cs \in Batches, NEW silent \in BOOLEAN, ReplyCalls(cs, silent)
    PROVE  TInv'
<1> DEFINE m == Heard(cs, silent)
<1>1. m \in Memories /\ Counted(m, cs) \in Memories
    BY HeardTyped, CountedTyped DEF TInv
<1>2. [Counted(m, cs) EXCEPT !.forced = TRUE] \in Memories
    BY <1>1 DEF Memories
<1>3. memory' \in {m, Counted(m, cs), [Counted(m, cs) EXCEPT !.forced = TRUE]}
    BY DEF ReplyCalls
<1>4. StateTyped' /\ phase = "asked"
    BY <1>1, <1>2, <1>3 DEF StateTyped, TInv, TypeOK, ReplyCalls
<1>5. \/ StoreCalls(cs, silent)
      \/ /\ phase' \in {"stop", "gate"}
         /\ UNCHANGED <<mode, round, atLimit, batch, results, sess, call,
                        outcome, faults, hist>>
    BY DEF ReplyCalls
<1> QED BY <1>4, <1>5, StoreCallsTyped, GoesOn DEF Phases

LEMMA AttemptedTyped ==
    ASSUME TypeOK, NEW cs
    PROVE  Attempted(gate, cs) \in Gates
BY TurnAssumption DEF TypeOK, Attempted, Gates, TurnAssumption

LEMMA ExecuteTyped == ASSUME TInv, Execute PROVE TInv'
<1>1. PICK rs \in [1 .. Len(batch.calls) -> Results \cup {Skipped}] : results' = rs
    BY DEF Execute
<1>2. batch.calls \in Seq(Calls) /\ batch.calls # <<>>
    BY DEF Execute, TInv, TypeOK, BatchSet, BatchShape
<1>3. Len(batch.calls) \in Nat \ {0}
    BY <1>2
<1>4. rs \in Seq(Results \cup {Skipped}) /\ Len(rs) = Len(batch.calls) /\ rs # <<>>
    BY <1>1, <1>3
<1>5. BatchTyped' /\ BatchShape'
    BY <1>1, <1>3, <1>4 DEF Execute, TInv, TypeOK, BatchTyped, BatchShape
<1>6. gate' \in Gates
    BY AttemptedTyped DEF Execute, TInv, TypeOK
<1>7. StateTyped'
    BY <1>6 DEF StateTyped, Execute, TInv, TypeOK
<1>8. ControlTyped' /\ WorldTyped'
    BY DEF ControlTyped, WorldTyped, Execute, TInv, TypeOK, Phases, Outcomes
<1> QED BY <1>5, <1>7, <1>8, TypeNext

LEMMA NotedTyped ==
    ASSUME TypeOK, NEW c \in Calls, NEW r \in Results \cup {Skipped}
    PROVE  Noted(c, r) \in Memories
<1> DEFINE more == IF Useful(c, r) /\ memory.evidence < 3 THEN memory.evidence + 1 ELSE memory.evidence
           seen == [memory EXCEPT !.last[c] = r, !.evidence = more]
           repeats == IF News(c, r) THEN 0 ELSE seen.repeat[c]
           failed == IF r \in BadResults THEN seen.failures[c] + 1 ELSE seen.failures[c]
<1>1. memory \in Memories /\ more \in Evidence
    BY DEF TypeOK, Memories, Evidence
<1>2. seen \in Memories
  <2> HIDE DEF more
  <2> QED BY <1>1 DEF Memories
<1>3. repeats \in Nat /\ failed \in Nat
  <2> HIDE DEF seen
  <2> QED BY <1>2 DEF Memories
<1>4. [seen EXCEPT !.repeat[c] = repeats, !.failures[c] = failed] \in Memories
  <2> HIDE DEF seen, repeats, failed
  <2> QED BY <1>2, <1>3 DEF Memories
<1>5. Noted(c, r) = IF batch.gate THEN seen
                    ELSE [seen EXCEPT !.repeat[c] = repeats, !.failures[c] = failed]
    BY DEF Noted
<1> QED BY <1>2, <1>4, <1>5

\* The result being stored, and its call.
LEMMA ResultInHand ==
    ASSUME TInv, phase = "record"
    PROVE  /\ Head(results) \in Results \cup {Skipped}
           /\ Tail(results) \in Seq(Results \cup {Skipped})
           /\ Len(results) \in Nat \ {0} /\ Len(Tail(results)) = Len(results) - 1
           /\ Len(batch.calls) - Len(results) + 1 \in 1 .. Len(batch.calls)
           /\ batch.calls[Len(batch.calls) - Len(results) + 1] \in Calls
<1>1. results \in Seq(Results \cup {Skipped}) /\ results # <<>>
    BY DEF TInv, TypeOK, BatchShape
<1>2. batch.calls \in Seq(Calls) /\ Len(results) <= Len(batch.calls)
    BY DEF TInv, TypeOK, BatchShape, BatchSet
<1>3. Len(results) \in Nat \ {0} /\ Len(batch.calls) \in Nat
    BY <1>1, <1>2
<1>4. Len(batch.calls) - Len(results) + 1 \in 1 .. Len(batch.calls)
    BY <1>2, <1>3
<1>5. batch.calls[Len(batch.calls) - Len(results) + 1] \in Calls
    BY <1>2, <1>4
<1> QED BY <1>1, <1>3, <1>4, <1>5

LEMMA AnswerTyped == ASSUME TypeOK, NEW c PROVE Answer(c) \in Sessions
<1>1. sess \in Sessions /\ sess.open \in Seq(Calls)
    BY DEF TypeOK, Sessions
<1>2. sess.open # <<>> => Tail(sess.open) \in Seq(Calls)
    BY <1>1
<1> DEFINE open == IF sess.open # <<>> /\ Head(sess.open) = c THEN Tail(sess.open) ELSE sess.open
<1>3. open \in Seq(Calls)
    BY <1>1, <1>2
<1>4. Answer(c) = [sess EXCEPT !.open = open]
    BY DEF Answer
<1> HIDE DEF open
<1> QED BY <1>1, <1>3, <1>4 DEF Sessions

LEMMA StaleTyped == ASSUME TypeOK, NEW b PROVE Stale(b) \in [Calls -> Nat]
<1>1. hist.stale \in [Calls -> Nat]
    BY DEF TypeOK, Ghost
<1> QED BY <1>1 DEF Stale

LEMMA SynthesisTyped == ASSUME NEW m \in Memories PROVE Synthesis(m) \in Memories
BY DEF Synthesis, EnoughEvidence, Memories

LEMMA StoreResultTyped ==
    ASSUME TInv, phase = "record", NEW c \in Calls,
           NEW b \in BatchSet, b.calls = batch.calls, NEW m \in Memories,
           StoreResult(c, b, m)
    PROVE  /\ ControlTyped' /\ BatchTyped' /\ BatchShape' /\ WorldTyped'
           /\ memory' \in Memories
<1>1. sess' \in Sessions
    BY AnswerTyped DEF StoreResult, TInv
<1>2. ControlTyped' /\ phase' \in {"record", "synthesis", "gate"}
    BY DEF StoreResult, ControlTyped, TInv, TypeOK, Phases, Outcomes
<1>3. memory' \in Memories
    BY SynthesisTyped DEF StoreResult
<1>4. hist' \in Ghost
  <2>1. hist' = hist \/ hist' = [hist EXCEPT !.stale = Stale(b)]
    BY DEF StoreResult
  <2>2. hist \in Ghost /\ Stale(b) \in [Calls -> Nat]
    BY StaleTyped DEF TInv, TypeOK
  <2>3. [hist EXCEPT !.stale = Stale(b)] \in Ghost
    BY <2>2 DEF Ghost
  <2> QED BY <2>1, <2>2, <2>3
<1>5. WorldTyped'
    BY <1>1, <1>4 DEF WorldTyped, StoreResult, TInv, TypeOK
<1>6. results' = Tail(results)
    BY DEF StoreResult
<1>9. /\ results \in Seq(Results \cup {Skipped}) /\ Tail(results) \in Seq(Results \cup {Skipped})
      /\ Len(results) \in Nat /\ Len(results) # 0 /\ Len(Tail(results)) = Len(results) - 1
      /\ Len(results) <= Len(batch.calls) /\ Len(batch.calls) \in Nat
  <2>1. results \in Seq(Results \cup {Skipped}) /\ batch.calls \in Seq(Calls)
    BY DEF TInv, TypeOK, BatchSet
  <2>2. results # <<>> /\ Len(results) <= Len(batch.calls)
    BY DEF TInv, BatchShape
  <2> QED BY <2>1, <2>2
<1>7. CASE Len(results) > 1
  <2>1. batch' = b /\ phase' = "record"
    BY <1>7 DEF StoreResult
  <2>2. results' # <<>> /\ Len(results') <= Len(batch.calls)
    <3>1. Len(results') = Len(results) - 1
      BY <1>6, <1>9
    <3>2. Len(results') # 0 /\ Len(results') <= Len(batch.calls)
      BY <1>7, <1>9, <3>1
    <3> QED BY <3>2
  <2>3. BatchTyped' /\ BatchShape'
    BY <1>6, <1>9, <2>1, <2>2 DEF BatchTyped, BatchShape
  <2> QED BY <1>2, <1>3, <1>5, <2>3
<1>8. CASE ~(Len(results) > 1)
  <2>1. batch' = NoBatch /\ phase' \in {"synthesis", "gate"}
    BY <1>8 DEF StoreResult
  <2>2. results' = <<>>
    <3>1. Len(results) = 1
      BY <1>8, <1>9
    <3> QED BY <1>6, <1>9, <3>1
  <2>3. BatchTyped' /\ BatchShape'
    BY <2>1, <2>2 DEF BatchTyped, BatchShape, BatchSet, NoBatch
  <2> QED BY <1>2, <1>3, <1>5, <2>3
<1> QED BY <1>7, <1>8

LEMMA LoseResultTyped ==
    ASSUME TInv, phase = "record", NEW m \in Memories, LoseResult(m)
    PROVE  /\ ControlTyped' /\ BatchTyped' /\ BatchShape' /\ WorldTyped'
           /\ memory' \in Memories
<1>1. memory' \in Memories
    BY DEF LoseResult, Memories
<1>2. CASE End("session")
    BY <1>1, <1>2, EndTyped, FailedTyped DEF LoseResult, WorldTyped, TInv, TypeOK, Outcomes
<1>3. CASE /\ phase' = "reason" /\ batch' = NoBatch /\ results' = <<>>
           /\ UNCHANGED <<mode, round, atLimit, call, outcome>>
  <2>1. ControlTyped'
    BY <1>3 DEF ControlTyped, TInv, TypeOK, Phases, Outcomes
  <2>2. BatchTyped' /\ BatchShape'
    BY <1>3 DEF BatchTyped, BatchShape, BatchSet, NoBatch
  <2>3. WorldTyped'
    BY <1>3, FailedTyped DEF LoseResult, WorldTyped, TInv, TypeOK
  <2> QED BY <1>1, <2>1, <2>2, <2>3
<1> QED BY <1>2, <1>3 DEF LoseResult

LEMMA RecordTyped == ASSUME TInv, Record PROVE TInv'
<1> DEFINE c == batch.calls[Len(batch.calls) - Len(results) + 1]
           r == Head(results)
           b == [batch EXCEPT !.news = IF News(c, r) THEN @ \cup {c} ELSE @]
<1>1. phase = "record" /\ ran' = TRUE
    BY DEF Record
<1>2. c \in Calls /\ r \in Results \cup {Skipped}
    BY <1>1, ResultInHand
<1>3. b \in BatchSet /\ b.calls = batch.calls
  <2>1. batch \in BatchSet
    BY DEF TInv, TypeOK
  <2> QED BY <1>2, <2>1 DEF BatchSet
<1>4. Noted(c, r) \in Memories
    BY <1>2, NotedTyped DEF TInv
<1>5. gate' \in Gates
    BY AttemptedTyped DEF Record, TInv, TypeOK
<1>6. StoreResult(c, b, Noted(c, r)) \/ LoseResult(Noted(c, r))
    BY DEF Record
<1> HIDE DEF c, r, b
<1>7. /\ ControlTyped' /\ BatchTyped' /\ BatchShape' /\ WorldTyped'
      /\ memory' \in Memories
    BY <1>1, <1>2, <1>3, <1>4, <1>6, StoreResultTyped, LoseResultTyped
<1> QED BY <1>1, <1>5, <1>7, TypeNext DEF StateTyped

LEMMA PromptSynthesisTyped == ASSUME TInv, PromptSynthesis PROVE TInv'
<1>1. gate' \in Gates
    BY DEF PromptSynthesis, TInv, TypeOK, Gates
<1>2. StateTyped'
    BY <1>1 DEF PromptSynthesis, TInv, TypeOK, StateTyped
<1> QED BY <1>2, GoesOn DEF PromptSynthesis, Phases

LEMMA SimpleReplyTyped == ASSUME TInv, SimpleReply PROVE TInv'
<1>1. StateTyped'
    BY DEF SimpleReply, TInv, TypeOK, StateTyped
<1>2. sess' \in Sessions
  <2>1. sess \in Sessions
    BY DEF TInv, TypeOK
  <2>2. sess.questions + 1 \in Nat /\ sess.answers + 1 \in Nat
    BY <2>1 DEF Sessions
  <2>3. [sess EXCEPT !.questions = sess.questions + 1, !.answers = sess.answers + 1] \in Sessions
    BY <2>1, <2>2 DEF Sessions
  <2>4. [sess EXCEPT !.questions = sess.questions + 1] \in Sessions
    BY <2>1, <2>2 DEF Sessions
  <2> QED BY <2>1, <2>3, <2>4 DEF SimpleReply
<1>3. faults' \in 0 .. MaxFaults /\ hist' \in Ghost
    BY FailedTyped DEF SimpleReply, TInv, TypeOK
<1>4. End("answered") \/ End("session")
    BY DEF SimpleReply
<1> QED BY <1>1, <1>2, <1>3, <1>4, EndTyped, TypeNext DEF WorldTyped, TInv, Outcomes

LEMMA HostTyped == ASSUME TInv, DeleteSession \/ CancelSession PROVE TInv'
<1>0. UNCHANGED <<phase, mode, round, atLimit, memory, gate, batch, results, ran, outcome, faults>>
  <2>1. CASE DeleteSession BY <2>1 DEF DeleteSession
  <2>2. CASE CancelSession BY <2>2 DEF CancelSession
  <2> QED BY <2>1, <2>2
<1>1. ControlTyped' /\ BatchTyped' /\ BatchShape' /\ StateTyped'
  <2>1. ControlTyped'
    BY <1>0 DEF TInv, TypeOK, ControlTyped, Outcomes
  <2>2. BatchTyped' /\ BatchShape'
    BY <1>0 DEF TInv, TypeOK, BatchTyped, BatchShape
  <2>3. StateTyped'
    BY <1>0 DEF TInv, TypeOK, StateTyped
  <2> QED BY <2>1, <2>2, <2>3
<1>2. CASE DeleteSession
  <2>1. sess' \in Sessions
    BY <1>2 DEF DeleteSession, TInv, TypeOK, Sessions
  <2> QED BY <1>1, <1>2, <2>1, TypeNext DEF DeleteSession, WorldTyped, TInv, TypeOK
<1>3. CASE CancelSession
  <2>1. call' \in [registered : BOOLEAN, cancelled : BOOLEAN]
    BY <1>3 DEF CancelSession, TInv, TypeOK
  <2>2. hist' \in Ghost
    BY <1>3 DEF CancelSession, TInv, TypeOK, Ghost
  <2> QED BY <1>1, <1>3, <2>1, <2>2, TypeNext DEF CancelSession, WorldTyped, TInv, TypeOK
<1> QED BY <1>2, <1>3

\* Every step keeps the types.
LEMMA StepTyped == ASSUME TInv, [Next]_vars PROVE TInv'
<1>1. CASE TurnStep
  <2>1. CASE Register BY <2>1, RegisterTyped
  <2>2. CASE CheckHandle BY <2>2, CheckHandleTyped
  <2>3. CASE StoreQuestion BY <2>3, StoreQuestionTyped
  <2>4. CASE Reason BY <2>4, ReasonTyped
  <2>5. CASE RunOut \/ ModelFails BY <2>5, RunOutTyped
  <2>6. CASE AnswerAtLimit BY <2>6, AnswerAtLimitTyped
  <2>7. CASE ReplyText BY <2>7, ReplyTextTyped
  <2>8. CASE ReplyEmpty BY <2>8, ReplyEmptyTyped
  <2>9. CASE \E cs \in Batches, silent \in BOOLEAN : ReplyCalls(cs, silent)
    BY <2>9, ReplyCallsTyped
  <2>10. CASE StopStep BY <2>10, StopStepTyped
  <2>11. CASE GateStep BY <2>11, GateStepTyped
  <2>12. CASE Execute BY <2>12, ExecuteTyped
  <2>13. CASE Record BY <2>13, RecordTyped
  <2>14. CASE PromptSynthesis BY <2>14, PromptSynthesisTyped
  <2>15. CASE SimpleReply BY <2>15, SimpleReplyTyped
  <2> QED BY <1>1, <2>1, <2>2, <2>3, <2>4, <2>5, <2>6, <2>7, <2>8, <2>9, <2>10,
             <2>11, <2>12, <2>13, <2>14, <2>15 DEF TurnStep
<1>2. CASE DeleteSession \/ CancelSession
    BY <1>2, HostTyped
<1>3. CASE UNCHANGED vars
    BY <1>3, TypeNext DEF vars, TInv, TypeOK, ControlTyped, BatchTyped, BatchShape,
       StateTyped, WorldTyped, Outcomes
<1> QED BY <1>1, <1>2, <1>3 DEF Next, Done

\* Every variable keeps its type, and the rounds of the turn never exceed
\* MaxIterations, whatever the model, the tools and the host do.
THEOREM TypeCorrect == Spec => []TypeOK
<1>1. Init => TInv
    BY InitTyped
<1>2. TInv /\ [Next]_vars => TInv'
    BY StepTyped
<1>3. TInv => TypeOK
    BY DEF TInv
<1> QED BY <1>1, <1>2, <1>3, PTL DEF Spec

LEMMA Typed == Spec => []TInv
<1>1. Init => TInv
    BY InitTyped
<1>2. TInv /\ [Next]_vars => TInv'
    BY StepTyped
<1> QED BY <1>1, <1>2, PTL DEF Spec

-----------------------------------------------------------------------------
(* Deletion and cancellation.                                              *)

\* A deletion comes before its sweep, and a turn that works is registered, so
\* the sweep cancels it or its start sees the tombstone.
CancelInv ==
    /\ hist.swept => sess.deleted
    /\ phase \notin {"start", "ended"} => call.registered
    /\ DeletedTurnIsCancelled

\* A turn's own steps neither delete nor sweep.
LEMMA FailedKeeps ==
    ASSUME TInv, Failed
    PROVE  /\ hist'.swept = hist.swept /\ hist'.lost = TRUE
           /\ hist'.seen = hist.seen /\ hist'.told = hist.told /\ hist'.stale = hist.stale
BY DEF Failed, TInv, TypeOK, Ghost

LEMMA SweepKept == ASSUME TInv, TurnStep PROVE hist'.swept = hist.swept
<1>1. CASE Reason
    BY <1>1 DEF Reason, TInv, TypeOK, Ghost
<1>2. CASE Record
  <2>1. CASE Failed BY <2>1, FailedKeeps
  <2>2. CASE \E c, b, m : StoreResult(c, b, m)
    BY <2>2 DEF StoreResult, TInv, TypeOK, Ghost
  <2> QED BY <1>2, <2>1, <2>2 DEF Record, LoseResult
<1>3. CASE Register \/ CheckHandle \/ ModelFails \/ Execute \/ PromptSynthesis
    BY <1>3 DEF Register, CheckHandle, ModelFails, Execute, PromptSynthesis
<1>4. ASSUME ~Reason, ~Record, ~(Register \/ CheckHandle \/ ModelFails \/ Execute \/ PromptSynthesis)
      PROVE  Failed \/ UNCHANGED hist
    BY <1>4 DEF TurnStep, StoreQuestion, RunOut, AnswerAtLimit, ReplyText, ReplyEmpty,
       ReplyCalls, StoreCalls, StopStep, GateStep, SimpleReply, EnforceGate, Finalize
<1> QED BY <1>1, <1>2, <1>3, <1>4, FailedKeeps

LEMMA DeletionKept == ASSUME TInv, TurnStep PROVE sess'.deleted = sess.deleted
<1>0. sess \in Sessions
    BY DEF TInv, TypeOK
<1>1. CASE Record
  <2>1. CASE \E c, b, m : StoreResult(c, b, m)
    BY <1>0, <2>1 DEF StoreResult, Answer, Sessions
  <2>2. CASE \E m : LoseResult(m)
    BY <2>2 DEF LoseResult
  <2> QED BY <1>1, <2>1, <2>2 DEF Record
<1>2. CASE SimpleReply
    BY <1>0, <1>2 DEF SimpleReply, Sessions
<1>3. CASE AnswerAtLimit \/ StopStep \/ ReplyText \/ ReplyEmpty \/ GateStep
  <2>1. CASE Finalize
    BY <1>0, <2>1 DEF Finalize, Sessions
  <2>2. CASE EnforceGate
    BY <1>0, <2>2 DEF EnforceGate, Sessions
  <2> QED BY <1>3, <2>1, <2>2 DEF AnswerAtLimit, StopStep, ReplyText, ReplyEmpty, GateStep
<1>4. CASE \E cs \in Batches, silent \in BOOLEAN : ReplyCalls(cs, silent)
  <2>1. PICK cs \in Batches, silent \in BOOLEAN : ReplyCalls(cs, silent)
    BY <1>4
  <2>2. StoreCalls(cs, silent) \/ UNCHANGED sess
    BY <2>1 DEF ReplyCalls
  <2> QED BY <1>0, <2>2 DEF StoreCalls, Sessions
<1>5. CASE StoreQuestion
    BY <1>0, <1>5 DEF StoreQuestion, Sessions
<1>6. CASE Register \/ CheckHandle \/ Reason \/ RunOut \/ ModelFails \/ Execute \/ PromptSynthesis
    BY <1>6 DEF Register, CheckHandle, Reason, RunOut, ModelFails, Execute, PromptSynthesis
<1> QED BY <1>1, <1>2, <1>3, <1>4, <1>5, <1>6 DEF TurnStep

\* How a step of the turn treats its entry.
LEMMA EntryKept ==
    ASSUME TInv, TurnStep
    PROVE  \/ Register
           \/ phase = "registered" /\ History = "ok" /\ UNCHANGED call
           \/ phase \notin {"start", "registered", "ended"} /\ UNCHANGED call
           \/ phase' \in {"start", "ended"}
<1>0. ASSUME NEW why, End(why) PROVE phase' \in {"start", "ended"}
    BY <1>0 DEF End
<1>1. CASE CheckHandle
    BY <1>0, <1>1 DEF CheckHandle
<1>2. CASE AnswerAtLimit \/ StopStep \/ ReplyText \/ ReplyEmpty \/ GateStep
  <2>1. CASE Finalize
    BY <1>0, <2>1 DEF Finalize
  <2> QED BY <1>2, <2>1 DEF AnswerAtLimit, StopStep, ReplyText, ReplyEmpty, GateStep
<1>3. CASE \E cs \in Batches, silent \in BOOLEAN : ReplyCalls(cs, silent)
    BY <1>0, <1>3 DEF ReplyCalls, StoreCalls
<1>4. CASE Record
    BY <1>0, <1>4 DEF Record, StoreResult, LoseResult
<1>5. CASE StoreQuestion \/ Reason \/ RunOut \/ ModelFails \/ SimpleReply
    BY <1>0, <1>5 DEF StoreQuestion, Reason, RunOut, ModelFails, SimpleReply
<1>6. CASE Execute \/ PromptSynthesis
    BY <1>6 DEF Execute, PromptSynthesis
<1> QED BY <1>1, <1>2, <1>3, <1>4, <1>5, <1>6 DEF TurnStep

LEMMA CancelStep == ASSUME TInv, TInv', CancelInv, [Next]_vars PROVE CancelInv'
<1>1. CASE TurnStep
  <2>1. hist'.swept = hist.swept /\ sess'.deleted = sess.deleted
    BY <1>1, SweepKept, DeletionKept
  <2>2. CASE Register
    BY <2>1, <2>2 DEF Register, CancelInv, DeletedTurnIsCancelled, Working
  <2>3. CASE phase = "registered" /\ History = "ok" /\ UNCHANGED call
    <3>1. ~hist.swept
      BY <2>3 DEF History, CancelInv
    <3> QED BY <2>1, <2>3, <3>1 DEF CancelInv, DeletedTurnIsCancelled
  <2>4. CASE phase \notin {"start", "registered", "ended"} /\ UNCHANGED call
    <3>1. Working
      BY <2>4 DEF Working, TInv, TypeOK
    <3> QED BY <2>1, <2>4, <3>1 DEF CancelInv, DeletedTurnIsCancelled
  <2>5. CASE phase' \in {"start", "ended"}
    BY <2>1, <2>5 DEF CancelInv, DeletedTurnIsCancelled, Working
  <2> QED BY <1>1, <2>2, <2>3, <2>4, <2>5, EntryKept
<1>2. CASE DeleteSession
  <2>1. UNCHANGED <<phase, call, hist>> /\ sess'.deleted
    BY <1>2 DEF DeleteSession, TInv, TypeOK, Sessions
  <2> QED BY <2>1 DEF CancelInv, DeletedTurnIsCancelled, Working
<1>3. CASE CancelSession
  <2>1. UNCHANGED <<phase, sess>>
    BY <1>3 DEF CancelSession
  <2>2. (hist'.swept <=> hist.swept \/ sess.deleted)
    BY <1>3 DEF CancelSession, TInv, TypeOK, Ghost
  <2>3. call'.registered = call.registered /\ (call'.cancelled <=> call.cancelled \/ call.registered)
    BY <1>3 DEF CancelSession, TInv, TypeOK
  <2> QED BY <2>1, <2>2, <2>3 DEF CancelInv, DeletedTurnIsCancelled, Working
<1>4. CASE UNCHANGED vars
    BY <1>4 DEF vars, CancelInv, DeletedTurnIsCancelled, Working
<1> QED BY <1>1, <1>2, <1>3, <1>4 DEF Next, Done

\* However the deletion of the session, the cancellation after it and the
\* start of the turn interleave, no turn goes on with a live context.
THEOREM DeletionStopsTheTurn == Spec => []DeletedTurnIsCancelled
<1>1. Init => CancelInv
    BY DEF Init, CancelInv, DeletedTurnIsCancelled, Working
<1>2. TInv /\ TInv' /\ CancelInv /\ [Next]_vars => CancelInv'
    BY CancelStep
<1>3. CancelInv => DeletedTurnIsCancelled
    BY DEF CancelInv
<1> QED BY <1>1, <1>2, <1>3, Typed, PTL DEF Spec

-----------------------------------------------------------------------------
(* One answer.                                                             *)

\* Nothing is answered before the end, and the end follows at most one write
\* of an answer.
AnswerInv ==
    /\ phase # "ended" => sess.answers = 0 /\ outcome = "none"
    /\ sess.answers <= 1
    /\ outcome = "answered" => sess.answers = 1

\* What a step of the turn does to the answers and to the outcome.
Quiescent == sess'.answers = sess.answers

Answers == sess'.answers = sess.answers + 1

LEMMA EndCases ==
    ASSUME NEW why, End(why)
    PROVE  \/ phase' = "ended" /\ outcome' = why
           \/ phase' = "start" /\ outcome' = outcome /\ why = "other"
BY DEF End

LEMMA FinalizeAnswers ==
    ASSUME TypeOK, Finalize
    PROVE  /\ phase' = "ended"
           /\ \/ Quiescent /\ outcome' # "answered"
              \/ Answers
<1>0. sess \in Sessions
    BY DEF TypeOK
<1>1. CASE sess' = [sess EXCEPT !.answers = @ + 1] /\ (End("answered") \/ End("session"))
    BY <1>0, <1>1, EndCases DEF Sessions, Answers
<1>2. CASE End("session") /\ UNCHANGED sess
    BY <1>2, EndCases DEF Quiescent
<1> QED BY <1>1, <1>2 DEF Finalize

LEMMA EnforceAnswers ==
    ASSUME TypeOK, EnforceGate
    PROVE  Quiescent /\ phase' # "ended"
<1>0. sess \in Sessions
    BY DEF TypeOK
<1> QED BY <1>0 DEF EnforceGate, Sessions, Quiescent

LEMMA AnswerSteps ==
    ASSUME TInv, TurnStep
    PROVE  /\ phase # "ended"
           /\ \/ phase' # "ended" /\ Quiescent /\ UNCHANGED outcome
              \/ phase' = "ended" /\ ((Quiescent /\ outcome' # "answered") \/ Answers)
<1>0. sess \in Sessions
    BY DEF TInv, TypeOK
<1>1. CASE Record
  <2>0. phase = "record"
    BY <1>1 DEF Record
  <2>1. CASE \E c, b, m : StoreResult(c, b, m)
    BY <1>0, <2>0, <2>1 DEF StoreResult, Answer, Sessions, Quiescent
  <2>2. CASE \E m : LoseResult(m)
    BY <2>0, <2>2, EndCases DEF LoseResult, Quiescent
  <2> QED BY <1>1, <2>1, <2>2 DEF Record
<1>2. CASE SimpleReply
  <2>0. phase = "asked"
    BY <1>2 DEF SimpleReply
  <2>1. CASE sess' = [sess EXCEPT !.questions = @ + 1, !.answers = @ + 1] /\ (End("answered") \/ End("session"))
    BY <1>0, <2>0, <2>1, EndCases DEF Sessions, Answers
  <2>2. CASE End("session") /\ (sess' = [sess EXCEPT !.questions = @ + 1] \/ UNCHANGED sess)
    BY <1>0, <2>0, <2>2, EndCases DEF Sessions, Quiescent
  <2> QED BY <1>2, <2>1, <2>2 DEF SimpleReply
<1>3. CASE AnswerAtLimit \/ StopStep \/ ReplyText \/ ReplyEmpty \/ GateStep
  <2>0. phase \in {"asked", "stop", "gate"}
    BY <1>3 DEF AnswerAtLimit, StopStep, ReplyText, ReplyEmpty, GateStep
  <2>1. CASE Finalize
    BY <2>0, <2>1, FinalizeAnswers DEF TInv
  <2>2. CASE EnforceGate /\ UNCHANGED outcome
    BY <2>0, <2>2, EnforceAnswers DEF TInv
  <2> QED BY <1>3, <2>0, <2>1, <2>2 DEF AnswerAtLimit, StopStep, ReplyText, ReplyEmpty, GateStep, Quiescent
<1>4. CASE \E cs \in Batches, silent \in BOOLEAN : ReplyCalls(cs, silent)
  <2>1. PICK cs \in Batches, silent \in BOOLEAN : ReplyCalls(cs, silent)
    BY <1>4
  <2>2. phase = "asked" /\ (StoreCalls(cs, silent) \/ (UNCHANGED <<sess, outcome>> /\ phase' \in {"stop", "gate"}))
    BY <2>1 DEF ReplyCalls
  <2>3. CASE StoreCalls(cs, silent)
    BY <1>0, <2>2, <2>3, EndCases DEF StoreCalls, Sessions, Quiescent
  <2> QED BY <2>2, <2>3 DEF Quiescent
<1>5. CASE StoreQuestion
    BY <1>0, <1>5, EndCases DEF StoreQuestion, Sessions, Quiescent
<1>6. CASE Register \/ Execute \/ PromptSynthesis
    BY <1>6 DEF Register, Execute, PromptSynthesis, Quiescent
<1>7. CASE CheckHandle \/ Reason
    BY <1>7, EndCases DEF CheckHandle, Reason, History, Quiescent
<1>8. CASE RunOut \/ ModelFails
    BY <1>8, EndCases DEF RunOut, ModelFails, Quiescent
<1> QED BY <1>1, <1>2, <1>3, <1>4, <1>5, <1>6, <1>7, <1>8 DEF TurnStep

LEMMA AnswerStep == ASSUME TInv, AnswerInv, [Next]_vars PROVE AnswerInv'
<1>1. CASE TurnStep
  <2>1. sess.answers = 0 /\ outcome = "none"
    BY <1>1, AnswerSteps DEF AnswerInv
  <2> QED BY <1>1, <2>1, AnswerSteps DEF AnswerInv, Quiescent, Answers
<1>2. CASE DeleteSession
  <2>1. sess'.answers = sess.answers /\ UNCHANGED <<phase, outcome>>
    BY <1>2 DEF DeleteSession, TInv, TypeOK, Sessions
  <2> QED BY <2>1 DEF AnswerInv
<1>3. CASE CancelSession \/ UNCHANGED vars
    BY <1>3 DEF CancelSession, vars, AnswerInv
<1> QED BY <1>1, <1>2, <1>3 DEF Next, Done

\* A turn is answered at most once, and once when it reports success: neither
\* a failed save after the answer nor the simple chat writes a second one.
THEOREM OneAnswer == Spec => []AnsweredOnce
<1>1. Init => AnswerInv
    BY DEF Init, AnswerInv
<1>2. TInv /\ AnswerInv /\ [Next]_vars => AnswerInv'
    BY AnswerStep
<1>3. AnswerInv => AnsweredOnce
    BY DEF AnswerInv, AnsweredOnce
<1> QED BY <1>1, <1>2, <1>3, Typed, PTL DEF Spec

-----------------------------------------------------------------------------
(* The answer and the memory gate.                                         *)

\* What the model was last asked with is what the gate has now, until the
\* answer; a round at the limit was asked only when nothing blocked.
GateInv ==
    mode = "loop" =>
        /\ phase \in {"asked", "stop"} =>
               hist.seen = gate.attempted /\ hist.told = gate.synthesis
        /\ phase = "asked" /\ atLimit => ~Blocking(gate)
        /\ AnswerSawChecks

\* The ways a step of the loop can reach a phase GateInv speaks of.
Asks ==
    /\ phase' = "asked" /\ UNCHANGED gate
    /\ hist'.seen = gate.attempted /\ hist'.told = gate.synthesis
    /\ atLimit' => ~Blocking(gate)

Stops == phase = "asked" /\ phase' = "stop" /\ mode = "loop" /\ UNCHANGED <<gate, hist>>

Ends ==
    /\ phase \in {"asked", "stop"} /\ mode = "loop" /\ phase' = "ended"
    /\ ~Blocking(gate) \/ (phase = "asked" /\ atLimit)
    /\ UNCHANGED gate /\ hist'.seen = hist.seen /\ hist'.told = hist.told

LEMMA FinalizeKeeps ==
    ASSUME TInv, Finalize
    PROVE  /\ phase' = "ended" /\ UNCHANGED mode
           /\ hist'.seen = hist.seen /\ hist'.told = hist.told
<1>1. phase' = "ended" /\ UNCHANGED mode
    BY DEF Finalize, End
<1>2. Failed \/ UNCHANGED hist
    BY DEF Finalize
<1> QED BY <1>1, <1>2, FailedKeeps

LEMMA GateSteps ==
    ASSUME TInv, TurnStep, mode' = "loop"
    PROVE  \/ phase' \notin {"asked", "stop", "ended"}
           \/ phase' = "ended" /\ Quiescent
           \/ Asks \/ Stops \/ Ends
<1>0. sess \in Sessions
    BY DEF TInv, TypeOK
<1>1. CASE Register \/ StoreQuestion
    BY <1>0, <1>1, EndCases DEF Register, StoreQuestion, Sessions, Quiescent
<1>2. CASE CheckHandle
    BY <1>2, EndCases DEF CheckHandle, History, Quiescent
<1>3. CASE Reason
  <2>1. CASE phase' = "asked"
    <3>1. UNCHANGED gate /\ hist' = [hist EXCEPT !.seen = gate.attempted, !.told = gate.synthesis]
      BY <1>3, <2>1 DEF Reason, End
    <3>2. atLimit' = Synthesizes
      BY <1>3, <2>1 DEF Reason, End
    <3>3. hist'.seen = gate.attempted /\ hist'.told = gate.synthesis
      BY <3>1 DEF TInv, TypeOK, Ghost
    <3> QED BY <2>1, <3>1, <3>2, <3>3 DEF Asks, Synthesizes
  <2>2. CASE phase' # "asked"
    BY <1>3, <2>2, EndCases DEF Reason, History, Quiescent
  <2> QED BY <2>1, <2>2
<1>4. CASE RunOut \/ ModelFails
    BY <1>4, EndCases DEF RunOut, ModelFails, Quiescent
<1>5. CASE AnswerAtLimit
    BY <1>5, FinalizeKeeps DEF AnswerAtLimit, Ends
<1>6. CASE StopStep \/ ReplyText \/ ReplyEmpty \/ GateStep
  <2>1. CASE EnforceGate
    BY <2>1 DEF EnforceGate
  <2>2. CASE Finalize /\ ~Blocking(gate) /\ UNCHANGED gate /\ phase \in {"asked", "stop"}
    BY <2>2, FinalizeKeeps DEF Ends
  <2>3. CASE phase' = "reason"
    BY <2>3
  <2> QED BY <1>6, <2>1, <2>2, <2>3 DEF StopStep, ReplyText, ReplyEmpty, GateStep
<1>7. CASE \E cs \in Batches, silent \in BOOLEAN : ReplyCalls(cs, silent)
  <2>1. PICK cs \in Batches, silent \in BOOLEAN : ReplyCalls(cs, silent)
    BY <1>7
  <2>2. phase = "asked" /\ mode = "loop" /\ UNCHANGED gate
        /\ (StoreCalls(cs, silent) \/ (UNCHANGED <<sess, hist>> /\ phase' \in {"stop", "gate"}))
    BY <2>1 DEF ReplyCalls
  <2>3. CASE StoreCalls(cs, silent)
    BY <1>0, <2>2, <2>3, EndCases DEF StoreCalls, Sessions, Quiescent
  <2> QED BY <2>2, <2>3 DEF Stops
<1>8. CASE Record
    BY <1>8, EndCases DEF Record, StoreResult, LoseResult, Quiescent
<1>9. CASE Execute \/ PromptSynthesis
    BY <1>9 DEF Execute, PromptSynthesis
<1>10. CASE SimpleReply
  <2>1. mode = "simple"
    BY <1>10 DEF SimpleReply
  <2>2. UNCHANGED mode
    BY <1>10 DEF SimpleReply, End
  <2> QED BY <2>1, <2>2
<1> QED BY <1>1, <1>2, <1>3, <1>4, <1>5, <1>6, <1>7, <1>8, <1>9, <1>10 DEF TurnStep

LEMMA ModeOnlyLeft == ASSUME TurnStep, mode' = "loop", TypeOK PROVE mode = "loop"
<1>0. ASSUME NEW why, End(why) PROVE mode = "loop"
    BY <1>0 DEF End, TypeOK
<1>1. CASE \E cs \in Batches, silent \in BOOLEAN : ReplyCalls(cs, silent)
    BY <1>1 DEF ReplyCalls
<1>2. CASE CheckHandle \/ StoreQuestion \/ Reason \/ RunOut \/ ModelFails \/ SimpleReply
    BY <1>0, <1>2 DEF CheckHandle, StoreQuestion, Reason, RunOut, ModelFails, SimpleReply
<1>3. CASE AnswerAtLimit \/ StopStep \/ ReplyText \/ ReplyEmpty \/ GateStep
    BY <1>0, <1>3 DEF AnswerAtLimit, StopStep, ReplyText, ReplyEmpty, GateStep, Finalize
<1>4. CASE Record
    BY <1>0, <1>4 DEF Record, StoreResult, LoseResult
<1>5. CASE Register \/ Execute \/ PromptSynthesis
    BY <1>5 DEF Register, Execute, PromptSynthesis
<1> QED BY <1>1, <1>2, <1>3, <1>4, <1>5 DEF TurnStep

LEMMA BlockingSeen ==
    ASSUME ~Blocking(gate), hist'.seen = gate.attempted, hist'.told = gate.synthesis, UNCHANGED gate
    PROVE  AnswerSawChecks'
BY DEF Blocking, Unmet, AnswerSawChecks

LEMMA GateStepKept ==
    ASSUME TInv, AnswerInv, AnswerInv', GateInv, [Next]_vars
    PROVE  GateInv'
<1> SUFFICES ASSUME mode' = "loop" PROVE GateInv'
    BY DEF GateInv
<1>1. CASE TurnStep
  <2>0. mode = "loop" /\ phase # "ended" /\ sess.answers = 0
    BY <1>1, ModeOnlyLeft, AnswerSteps DEF TInv, AnswerInv
  <2>1. CASE phase' \notin {"asked", "stop", "ended"}
    BY <2>1 DEF GateInv, AnswerSawChecks, AnswerInv
  <2>2. CASE phase' = "ended" /\ Quiescent
    BY <2>0, <2>2 DEF GateInv, AnswerSawChecks, Quiescent
  <2>3. CASE Asks
    <3>1. ~(sess'.answers > 0)
      BY <2>3 DEF Asks, AnswerInv
    <3> QED BY <2>3, <3>1 DEF Asks, GateInv, AnswerSawChecks, Blocking, Unmet
  <2>4. CASE Stops
    <3>1. ~(sess'.answers > 0)
      BY <2>4 DEF Stops, AnswerInv
    <3> QED BY <2>4, <3>1 DEF Stops, GateInv, AnswerSawChecks
  <2>5. CASE Ends
    <3>1. ~Blocking(gate) /\ hist'.seen = gate.attempted /\ hist'.told = gate.synthesis
      BY <2>0, <2>5 DEF Ends, GateInv
    <3>2. AnswerSawChecks'
      BY <2>5, <3>1, BlockingSeen DEF Ends
    <3> QED BY <2>5, <3>2 DEF Ends, GateInv
  <2> QED BY <1>1, <2>1, <2>2, <2>3, <2>4, <2>5, GateSteps
<1>2. CASE DeleteSession
  <2>1. sess'.answers = sess.answers /\ UNCHANGED <<phase, mode, atLimit, gate, hist>>
    BY <1>2 DEF DeleteSession, TInv, TypeOK, Sessions
  <2> QED BY <2>1 DEF GateInv, AnswerSawChecks, Blocking, Unmet
<1>3. CASE CancelSession
  <2>1. hist'.seen = hist.seen /\ hist'.told = hist.told
    BY <1>3 DEF CancelSession, TInv, TypeOK, Ghost
  <2>2. UNCHANGED <<phase, mode, atLimit, gate, sess>>
    BY <1>3 DEF CancelSession
  <2> QED BY <2>1, <2>2 DEF GateInv, AnswerSawChecks, Blocking, Unmet
<1>4. CASE UNCHANGED vars
    BY <1>4 DEF vars, GateInv, AnswerSawChecks, Blocking, Unmet
<1> QED BY <1>1, <1>2, <1>3, <1>4 DEF Next, Done

\* The loop's answer is one the model gave, or a stop it reached, with the
\* results of every required tool before it, whatever it asked for first.
THEOREM AnswersAreChecked == Spec => []AnswerSawChecks
<1>1. Init => AnswerInv /\ GateInv
    BY DEF Init, AnswerInv, GateInv, AnswerSawChecks
<1>2. TInv /\ AnswerInv /\ [Next]_vars => AnswerInv'
    BY AnswerStep
<1>3. TInv /\ AnswerInv /\ AnswerInv' /\ GateInv /\ [Next]_vars => GateInv'
    BY GateStepKept
<1>4. GateInv => AnswerSawChecks
    BY DEF GateInv, AnswerSawChecks
<1> QED BY <1>1, <1>2, <1>3, <1>4, Typed, PTL DEF Spec

-----------------------------------------------------------------------------
(* Lost writes.                                                            *)

Mid == {"asked", "gate", "stop", "execute", "record", "synthesis"}

\* The gate asks for its tools in the first round only; after it, none is
\* missing.
Satisfied ==
    (\/ round >= 2
     \/ phase = "reason" /\ round >= 1
     \/ phase = "synthesis"
     \/ phase = "record" /\ batch.gate)
    => Unmet(gate) = {}

\* A write that is lost in the gate's batch leaves a round that sees it.
LostInv ==
    /\ LostWriteEndsTurn
    /\ hist.lost /\ phase = "reason" => memory.err /\ round < MaxIterations
    /\ mode = "simple" => phase \in {"start", "registered", "asked", "ended"}
    /\ mode = "loop" /\ phase \in {"start", "registered", "prepare"} => round = 0
    /\ mode = "loop" /\ phase \in Mid => round >= 1
    /\ mode = "loop" /\ phase \in Mid \cup {"reason"} /\ ~hist.lost => Satisfied
    /\ phase \in {"execute", "record"} /\ batch.gate => round = 1
    /\ phase = "execute" /\ batch.gate => Unmet(gate) \subseteq ToSet(batch.calls)

LEMMA UnmetLess ==
    ASSUME NEW g \in Gates, NEW cs
    PROVE  Unmet(Attempted(g, cs)) = Unmet(g) \ cs
BY DEF Unmet, Attempted, Gates

LEMMA UnmetAfterSynthesis ==
    ASSUME NEW g \in Gates
    PROVE  Unmet([g EXCEPT !.synthesis = TRUE]) = Unmet(g)
BY DEF Unmet, Gates

\* The turn is over, or starts again as a simple chat with nothing lost.
LEMMA LostEnded ==
    ASSUME phase' = "ended", hist'.lost => outcome' # "answered"
    PROVE  LostInv'
BY DEF LostInv, LostWriteEndsTurn, Mid

LEMMA LostRestarted ==
    ASSUME phase' = "start", mode' = "simple", ~hist'.lost
    PROVE  LostInv'
BY DEF LostInv, LostWriteEndsTurn, Mid

LEMMA EndLost ==
    ASSUME TInv, NEW why, End(why), mode = "loop" \/ why # "other",
           \/ Failed /\ why = "session"
           \/ UNCHANGED hist /\ (hist.lost => why \notin {"answered", "other"})
    PROVE  LostInv'
<1>1. Failed => hist'.lost
    BY FailedKeeps
<1>2. CASE phase' = "ended" /\ outcome' = why
    BY <1>1, <1>2, LostEnded
<1>3. CASE phase' = "start" /\ mode' = "simple" /\ why = "other"
    BY <1>1, <1>3, LostRestarted
<1> QED BY <1>2, <1>3 DEF End

LEMMA EndInSimple ==
    ASSUME TInv, mode = "simple", ~hist.lost, NEW why, End(why),
           (Failed /\ why = "session") \/ UNCHANGED hist
    PROVE  LostInv'
<1>1. phase' = "ended" /\ outcome' = why
    BY DEF End
<1> QED BY <1>1, LostEnded, FailedKeeps

LEMMA FinalizeLost == ASSUME TInv, ~hist.lost, Finalize PROVE LostInv'
<1>1. CASE End("answered") /\ UNCHANGED hist
  <2>1. phase' = "ended"
    BY <1>1 DEF End
  <2> QED BY <1>1, <2>1, LostEnded
<1>2. CASE Failed /\ End("session")
  <2>1. phase' = "ended" /\ outcome' = "session"
    BY <1>2 DEF End
  <2> QED BY <2>1, LostEnded
<1> QED BY <1>1, <1>2 DEF Finalize

\* The gate in the middle of a round.
LEMMA EnforceLost ==
    ASSUME TInv, LostInv, AnswerInv, ~hist.lost, MaxIterations > 1, mode = "loop",
           phase \in {"asked", "gate", "stop"}, EnforceGate,
           UNCHANGED <<mode, round, atLimit, results, call, outcome>>
    PROVE  LostInv'
<1>0. /\ round \in Nat /\ round >= 1 /\ (round >= 2 => Unmet(gate) = {}) /\ outcome = "none"
      /\ gate \in Gates /\ MaxIterations \in Nat
    BY TurnAssumption DEF TurnAssumption, TInv, TypeOK, LostInv, Mid, Satisfied, AnswerInv
<1>1. CASE Unmet(gate) = {}
  <2>1. Unmet(gate') = {} /\ phase' = "reason" /\ ~hist'.lost
    BY <1>0, <1>1, UnmetAfterSynthesis DEF EnforceGate
  <2> QED BY <1>0, <2>1 DEF LostInv, LostWriteEndsTurn, Satisfied, Mid
<1>2. CASE Unmet(gate) # {} /\ phase' = "execute"
  <2>1. PICK cs \in Orders(Unmet(gate)) : batch' = [NoBatch EXCEPT !.calls = cs, !.gate = TRUE]
    BY <1>2 DEF EnforceGate
  <2>2. ToSet(cs) = Unmet(gate)
    BY <2>1 DEF Orders
  <2>3. batch'.calls = cs /\ batch'.gate
    BY <2>1 DEF NoBatch
  <2>4. round = 1
    BY <1>0, <1>2
  <2>5. UNCHANGED <<gate, hist>>
    BY <1>2 DEF EnforceGate
  <2> QED BY <1>0, <1>2, <2>2, <2>3, <2>4, <2>5 DEF LostInv, LostWriteEndsTurn, Satisfied, Mid
<1>3. CASE Unmet(gate) # {} /\ phase' = "reason"
  <2>1. Failed /\ memory' = [memory EXCEPT !.err = TRUE]
    BY <1>3 DEF EnforceGate
  <2>2. hist'.lost /\ memory'.err
    BY <2>1, FailedKeeps DEF TInv, TypeOK, Memories
  <2>3. round < MaxIterations
    BY <1>0, <1>3
  <2> QED BY <1>0, <1>3, <2>2, <2>3 DEF LostInv, LostWriteEndsTurn, Satisfied, Mid
<1> QED BY <1>1, <1>2, <1>3 DEF EnforceGate

\* With a lost write the turn is at its end, or about to see it.
LEMMA LostAlready == ASSUME TInv, LostInv, AnswerInv, hist.lost, TurnStep PROVE LostInv'
<1>1. phase \in {"reason", "ended"} /\ (phase = "reason" => memory.err /\ round < MaxIterations)
    BY DEF LostInv, LostWriteEndsTurn
<1>2. CASE Reason
  <2>1. End("session") /\ UNCHANGED hist
    BY <1>1, <1>2 DEF Reason
  <2> QED BY <2>1, EndLost
<1>3. ~RunOut
  <2>1. SUFFICES ASSUME RunOut PROVE FALSE
    OBVIOUS
  <2>2. phase = "reason" /\ round = MaxIterations /\ MaxIterations \in Nat
    BY <2>1, TurnAssumption DEF RunOut, TurnAssumption
  <2> QED BY <1>1, <2>2
<1>4. ~(Register \/ CheckHandle \/ StoreQuestion \/ ModelFails)
    BY <1>1 DEF Register, CheckHandle, StoreQuestion, ModelFails
<1>5. ~(AnswerAtLimit \/ ReplyText \/ ReplyEmpty \/ StopStep \/ GateStep \/ SimpleReply)
    BY <1>1 DEF AnswerAtLimit, ReplyText, ReplyEmpty, StopStep, GateStep, SimpleReply
<1>6. ~(Execute \/ Record \/ PromptSynthesis \/ \E cs \in Batches, silent \in BOOLEAN : ReplyCalls(cs, silent))
    BY <1>1 DEF Execute, Record, PromptSynthesis, ReplyCalls
<1> QED BY <1>2, <1>3, <1>4, <1>5, <1>6 DEF TurnStep

LEMMA LostStart ==
    ASSUME TInv, LostInv, AnswerInv, ~hist.lost, Register \/ CheckHandle \/ StoreQuestion
    PROVE  LostInv'
<1>0. mode \in {"loop", "simple"} /\ (outcome = "none" \/ phase = "ended")
    BY DEF TInv, TypeOK, AnswerInv
<1>1. CASE Register
    BY <1>1 DEF Register, LostInv, LostWriteEndsTurn, Mid
<1>2. CASE CheckHandle
  <2>1. CASE History = "ok"
    <3>1. /\ phase = "registered" /\ UNCHANGED <<mode, round, hist>>
          /\ phase' = IF mode = "loop" THEN "prepare" ELSE "asked"
      BY <1>2, <2>1 DEF CheckHandle
    <3> QED BY <1>0, <3>1 DEF LostInv, LostWriteEndsTurn, Mid
  <2>2. CASE History # "ok"
    BY <1>2, <2>2, EndLost DEF CheckHandle, History
  <2> QED BY <2>1, <2>2
<1>3. CASE StoreQuestion
  <2>1. CASE End("session") /\ Failed
    BY <2>1, EndLost
  <2>2. CASE phase' = "reason" /\ UNCHANGED <<mode, round, hist>>
    BY <1>3, <2>2 DEF StoreQuestion, LostInv, LostWriteEndsTurn, Mid, Satisfied
  <2> QED BY <1>3, <2>1, <2>2 DEF StoreQuestion
<1> QED BY <1>1, <1>2, <1>3

LEMMA LostReason ==
    ASSUME TInv, LostInv, AnswerInv, ~hist.lost, Reason \/ RunOut \/ ModelFails
    PROVE  LostInv'
<1>1. CASE Reason
  <2>1. CASE \E why \in {"session", "stopped"} : End(why) /\ UNCHANGED hist
    BY <2>1, EndLost
  <2>2. CASE /\ phase' = "asked" /\ round' = round + 1 /\ UNCHANGED <<mode, batch>>
             /\ hist' = [hist EXCEPT !.seen = gate.attempted, !.told = gate.synthesis]
    <3>1. ~hist'.lost
      BY <2>2 DEF TInv, TypeOK, Ghost
    <3>2. mode = "loop" /\ round \in Nat /\ phase = "reason" /\ UNCHANGED gate
      BY <1>1 DEF Reason, TInv, TypeOK, LostInv
    <3>3. round' >= 2 => Unmet(gate) = {}
      BY <2>2, <3>2 DEF LostInv, Satisfied
    <3>4. Unmet(gate') = Unmet(gate) /\ round' >= 1
      BY <2>2, <3>2 DEF Unmet
    <3> QED BY <2>2, <3>1, <3>2, <3>3, <3>4 DEF LostInv, LostWriteEndsTurn, Satisfied, Mid
  <2> QED BY <1>1, <2>1, <2>2 DEF Reason, History
<1>2. CASE RunOut
  <2>1. mode = "loop"
    BY <1>2 DEF RunOut, LostInv, TInv, TypeOK
  <2> QED BY <1>2, <2>1, EndLost DEF RunOut
<1>3. CASE ModelFails
  <2>1. PICK why \in {"stopped", "other"} : End(why) /\ UNCHANGED hist
    BY <1>3 DEF ModelFails
  <2>2. CASE mode = "loop"
    BY <2>1, <2>2, EndLost
  <2>3. CASE mode = "simple"
    BY <2>1, <2>3, EndInSimple
  <2> QED BY <2>2, <2>3 DEF TInv, TypeOK
<1> QED BY <1>1, <1>2, <1>3

LEMMA LostReply ==
    ASSUME TInv, LostInv, AnswerInv, ~hist.lost, MaxIterations > 1,
           \/ AnswerAtLimit \/ ReplyText \/ ReplyEmpty \/ StopStep \/ GateStep \/ SimpleReply
    PROVE  LostInv'
<1>1. CASE AnswerAtLimit
    BY <1>1, FinalizeLost DEF AnswerAtLimit
<1>2. CASE SimpleReply
    BY <1>2, EndInSimple DEF SimpleReply
<1>3. CASE ReplyText \/ ReplyEmpty \/ StopStep \/ GateStep
  <2>1. phase \in {"asked", "stop", "gate"} /\ mode = "loop"
    BY <1>3 DEF ReplyText, ReplyEmpty, StopStep, GateStep, LostInv, TInv, TypeOK
  <2>2. CASE EnforceGate /\ UNCHANGED <<mode, round, atLimit, results, call, outcome>>
    BY <2>1, <2>2, EnforceLost
  <2>3. CASE Finalize
    BY <2>3, FinalizeLost
  <2>4. CASE ~Blocking(gate) /\ phase' = "reason" /\ UNCHANGED <<mode, round, gate, hist>>
    <3>1. Unmet(gate') = {}
      BY <2>4 DEF Blocking
    <3> QED BY <2>1, <2>4, <3>1 DEF LostInv, LostWriteEndsTurn, Satisfied, Mid
  <2> QED BY <1>3, <2>2, <2>3, <2>4 DEF ReplyText, ReplyEmpty, StopStep, GateStep
<1> QED BY <1>1, <1>2, <1>3

LEMMA LostCalls ==
    ASSUME TInv, LostInv, AnswerInv, ~hist.lost,
           NEW cs \in Batches, NEW silent \in BOOLEAN, ReplyCalls(cs, silent)
    PROVE  LostInv'
<1>1. phase = "asked" /\ mode = "loop" /\ UNCHANGED gate
    BY DEF ReplyCalls
<1>2. CASE Failed /\ End("session")
    BY <1>1, <1>2, EndLost
<1>3. CASE phase' \in {"stop", "gate"} /\ UNCHANGED <<mode, round, hist>>
    BY <1>1, <1>3 DEF LostInv, LostWriteEndsTurn, Satisfied, Unmet, Mid
<1>4. CASE /\ phase' = "execute" /\ UNCHANGED <<mode, round, hist>>
           /\ batch' = [NoBatch EXCEPT !.calls = cs, !.silent = silent]
  <2>1. ~batch'.gate
    BY <1>4 DEF NoBatch
  <2> QED BY <1>1, <1>4, <2>1 DEF LostInv, LostWriteEndsTurn, Satisfied, Unmet, Mid
<1> QED BY <1>2, <1>3, <1>4 DEF ReplyCalls, StoreCalls

LEMMA LostExecute == ASSUME TInv, LostInv, AnswerInv, ~hist.lost, Execute PROVE LostInv'
<1>1. phase = "execute" /\ phase' = "record" /\ UNCHANGED <<mode, round, batch, hist>>
    BY DEF Execute
<1>2. mode = "loop" /\ gate \in Gates
    BY <1>1 DEF LostInv, TInv, TypeOK
<1>3. CASE batch.gate
  <2>1. gate' = Attempted(gate, ToSet(batch.calls))
    BY <1>3 DEF Execute
  <2>2. Unmet(gate') = {}
    BY <1>1, <1>2, <1>3, <2>1, UnmetLess DEF LostInv
  <2> QED BY <1>1, <1>2, <1>3, <2>2 DEF LostInv, LostWriteEndsTurn, Satisfied, Mid
<1>4. CASE ~batch.gate
  <2>1. UNCHANGED gate
    BY <1>4 DEF Execute
  <2> QED BY <1>1, <1>2, <1>4, <2>1 DEF LostInv, LostWriteEndsTurn, Satisfied, Unmet, Mid
<1> QED BY <1>3, <1>4

\* Storing a result leaves no tool missing that was not missing before.
LEMMA RecordUnmet ==
    ASSUME TInv, Record
    PROVE  Unmet(gate') \subseteq Unmet(gate)
<1>1. \E cs : gate' = gate \/ gate' = Attempted(gate, cs)
    BY DEF Record
<1> QED BY <1>1, UnmetLess DEF TInv, TypeOK

LEMMA LostRecord ==
    ASSUME TInv, LostInv, AnswerInv, ~hist.lost, MaxIterations > 1, Record
    PROVE  LostInv'
<1> DEFINE c == batch.calls[Len(batch.calls) - Len(results) + 1]
           r == Head(results)
           b == [batch EXCEPT !.news = IF News(c, r) THEN @ \cup {c} ELSE @]
<1>1. phase = "record" /\ mode = "loop" /\ Unmet(gate') \subseteq Unmet(gate) /\ outcome = "none"
    BY RecordUnmet DEF Record, LostInv, AnswerInv, TInv, TypeOK
<1>2. Noted(c, r) \in Memories
    BY <1>1, ResultInHand, NotedTyped DEF TInv
<1>3. b.gate = batch.gate
    BY DEF TInv, TypeOK, BatchSet
<1>4. StoreResult(c, b, Noted(c, r)) \/ LoseResult(Noted(c, r))
    BY DEF Record
<1> HIDE DEF c, r, b
<1>5. CASE StoreResult(c, b, Noted(c, r))
  <2>1. UNCHANGED <<mode, round, outcome>> /\ hist'.lost = hist.lost
    BY <1>5 DEF StoreResult, TInv, TypeOK, Ghost
  <2>2. \/ phase' = "record" /\ batch' = b
        \/ phase' = "synthesis" /\ batch.gate
        \/ phase' = "gate"
    BY <1>3, <1>5 DEF StoreResult
  <2> QED BY <1>1, <1>3, <2>1, <2>2 DEF LostInv, LostWriteEndsTurn, Satisfied, Mid
<1>6. CASE LoseResult(Noted(c, r))
  <2>1. Failed
    BY <1>6 DEF LoseResult
  <2>2. CASE End("session")
    BY <2>1, <2>2, EndLost
  <2>3. CASE batch.gate /\ phase' = "reason" /\ UNCHANGED <<mode, round, outcome>>
    <3>1. hist'.lost /\ memory'.err
      BY <1>2, <1>6, <2>1, FailedKeeps DEF LoseResult, Memories
    <3>2. round < MaxIterations /\ round >= 1
      BY <1>1, <2>3, TurnAssumption DEF LostInv, TurnAssumption
    <3> QED BY <1>1, <2>3, <3>1, <3>2 DEF LostInv, LostWriteEndsTurn, Mid
  <2> QED BY <1>6, <2>2, <2>3 DEF LoseResult
<1> QED BY <1>4, <1>5, <1>6

LEMMA LostPrompt == ASSUME TInv, LostInv, AnswerInv, ~hist.lost, PromptSynthesis PROVE LostInv'
<1>1. phase = "synthesis" /\ phase' = "reason" /\ UNCHANGED <<mode, round, hist>>
    BY DEF PromptSynthesis
<1>2. Unmet(gate') = Unmet(gate)
    BY UnmetAfterSynthesis DEF PromptSynthesis, TInv, TypeOK
<1>3. mode = "loop"
    BY <1>1 DEF LostInv, TInv, TypeOK
<1> QED BY <1>1, <1>2, <1>3 DEF LostInv, LostWriteEndsTurn, Satisfied, Mid

LEMMA LostStep ==
    ASSUME TInv, AnswerInv, LostInv, MaxIterations > 1, [Next]_vars
    PROVE  LostInv'
<1>1. CASE TurnStep /\ hist.lost
    BY <1>1, LostAlready
<1>2. CASE TurnStep /\ ~hist.lost
  <2>1. CASE Register \/ CheckHandle \/ StoreQuestion
    BY <1>2, <2>1, LostStart
  <2>2. CASE Reason \/ RunOut \/ ModelFails
    BY <1>2, <2>2, LostReason
  <2>3. CASE AnswerAtLimit \/ ReplyText \/ ReplyEmpty \/ StopStep \/ GateStep \/ SimpleReply
    BY <1>2, <2>3, LostReply
  <2>4. CASE \E cs \in Batches, silent \in BOOLEAN : ReplyCalls(cs, silent)
    BY <1>2, <2>4, LostCalls
  <2>5. CASE Execute BY <1>2, <2>5, LostExecute
  <2>6. CASE Record BY <1>2, <2>6, LostRecord
  <2>7. CASE PromptSynthesis BY <1>2, <2>7, LostPrompt
  <2> QED BY <1>2, <2>1, <2>2, <2>3, <2>4, <2>5, <2>6, <2>7 DEF TurnStep
<1>3. CASE DeleteSession \/ CancelSession \/ UNCHANGED vars
  <2>1. UNCHANGED <<phase, mode, round, memory, gate, batch, outcome>>
    BY <1>3 DEF DeleteSession, CancelSession, vars
  <2>2. hist'.lost = hist.lost
    BY <1>3 DEF DeleteSession, CancelSession, vars, TInv, TypeOK, Ghost
  <2> QED BY <2>1, <2>2 DEF LostInv, LostWriteEndsTurn, Satisfied, Unmet, Mid
<1> QED BY <1>1, <1>2, <1>3 DEF Next, Done

LEMMA Lost == MaxIterations > 1 => (Spec => [](AnswerInv /\ LostInv))
<1> SUFFICES ASSUME MaxIterations > 1 PROVE Spec => [](AnswerInv /\ LostInv)
    OBVIOUS
<1>1. Init => AnswerInv /\ LostInv
    BY DEF Init, AnswerInv, LostInv, LostWriteEndsTurn, Mid
<1>2. TInv /\ AnswerInv /\ LostInv /\ [Next]_vars => AnswerInv' /\ LostInv'
    BY AnswerStep, LostStep
<1> QED BY <1>1, <1>2, Typed, PTL DEF Spec

\* A turn of more than one round reports no success, asks no model and runs no
\* tool after a write to its session was lost.
THEOREM NoWorkAfterALostWrite == MaxIterations > 1 => (Spec => []LostWriteEndsTurn)
<1>1. LostInv => LostWriteEndsTurn
    BY DEF LostInv
<1> QED BY <1>1, Lost, PTL

-----------------------------------------------------------------------------
(* The transcript.                                                         *)

\* What waits for a result, without the distinction of cases.
Rest == SubSeq(batch.calls, Len(batch.calls) - Len(results) + 1, Len(batch.calls))

OpenInv ==
    hist.lost
    \/ /\ phase = "execute" => sess.open = batch.calls
       /\ phase = "record" => sess.open = Rest
       /\ phase \notin {"execute", "record"} => sess.open = <<>>

LEMMA OpenIsOrdered == OpenInv => TranscriptInOrder
<1> SUFFICES ASSUME OpenInv PROVE TranscriptInOrder
    OBVIOUS
<1>1. CASE hist.lost
    BY <1>1 DEF TranscriptInOrder
<1>2. CASE phase = "execute" /\ ~hist.lost
    BY <1>2 DEF OpenInv, TranscriptInOrder
<1>3. CASE phase = "record" /\ ~hist.lost
    BY <1>3 DEF OpenInv, TranscriptInOrder, Rest
<1>4. CASE phase \notin {"execute", "record"} /\ ~hist.lost
    BY <1>4 DEF OpenInv, TranscriptInOrder
<1> QED BY <1>1, <1>2, <1>3, <1>4

\* A step that neither begins nor ends a batch.
LEMMA OpenIdle ==
    ASSUME OpenInv, phase \notin {"execute", "record"}, phase' \notin {"execute", "record"},
           hist'.lost \/ (hist'.lost = hist.lost /\ sess'.open = sess.open)
    PROVE  OpenInv'
BY DEF OpenInv

LEMMA OpenRequest ==
    ASSUME TInv, OpenInv, phase \notin {"execute", "record"}, NEW cs \in Seq(Calls),
           sess' = [sess EXCEPT !.open = @ \o cs], batch'.calls = cs,
           phase' = "execute", UNCHANGED hist
    PROVE  OpenInv'
<1>1. CASE hist.lost
    BY <1>1 DEF OpenInv
<1>2. CASE ~hist.lost
  <2>1. sess.open = <<>>
    BY <1>2 DEF OpenInv
  <2>2. sess'.open = sess.open \o cs
    BY DEF TInv, TypeOK, Sessions
  <2>3. sess'.open = cs
    BY <2>1, <2>2
  <2> QED BY <2>3 DEF OpenInv
<1> QED BY <1>1, <1>2

LEMMA OpenEnforce ==
    ASSUME TInv, OpenInv, phase \notin {"execute", "record"}, EnforceGate
    PROVE  OpenInv'
<1>1. CASE phase' = "reason"
  <2>1. UNCHANGED sess
    BY <1>1 DEF EnforceGate
  <2>2. UNCHANGED hist \/ Failed
    BY DEF EnforceGate
  <2> QED BY <1>1, <2>1, <2>2, FailedKeeps, OpenIdle
<1>2. CASE phase' = "execute"
  <2>1. PICK cs \in Orders(Unmet(gate)) :
            /\ sess' = [sess EXCEPT !.open = @ \o cs]
            /\ batch' = [NoBatch EXCEPT !.calls = cs, !.gate = TRUE]
    BY <1>2 DEF EnforceGate
  <2>2. UNCHANGED hist /\ Unmet(gate) # {}
    BY <1>2 DEF EnforceGate
  <2>3. Unmet(gate) \in SUBSET Calls
    BY TurnAssumption DEF Unmet, TInv, TypeOK, Gates, TurnAssumption
  <2>4. cs \in Seq(Calls)
    BY <2>1, <2>2, <2>3, OrdersAreBatches
  <2>5. batch'.calls = cs
    BY <2>1 DEF NoBatch
  <2> QED BY <1>2, <2>1, <2>2, <2>4, <2>5, OpenRequest
<1> QED BY <1>1, <1>2 DEF EnforceGate

LEMMA OpenFinalize ==
    ASSUME TInv, OpenInv, phase \notin {"execute", "record"}, Finalize
    PROVE  OpenInv'
<1>1. phase' = "ended"
    BY FinalizeAnswers DEF TInv
<1>2. sess'.open = sess.open
    BY DEF Finalize, TInv, TypeOK, Sessions
<1>3. UNCHANGED hist \/ Failed
    BY DEF Finalize
<1> QED BY <1>1, <1>2, <1>3, FailedKeeps, OpenIdle

LEMMA OpenExecute == ASSUME TInv, OpenInv, Execute PROVE OpenInv'
<1>1. phase = "execute" /\ phase' = "record" /\ UNCHANGED <<batch, sess, hist>>
    BY DEF Execute
<1>2. batch.calls \in Seq(Calls)
    BY DEF TInv, TypeOK, BatchSet
<1>3. Len(results') = Len(batch.calls)
  <2>1. PICK rs \in [1 .. Len(batch.calls) -> Results \cup {Skipped}] : results' = rs
    BY DEF Execute
  <2>2. Len(batch.calls) \in Nat
    BY <1>2
  <2> QED BY <2>1, <2>2
<1>4. Len(batch'.calls) - Len(results') + 1 = 1
    BY <1>1, <1>2, <1>3
<1>5. Rest' = batch.calls
    BY <1>1, <1>2, <1>4, SubSeqFull DEF Rest
<1> QED BY <1>1, <1>5 DEF OpenInv

LEMMA OpenRecord == ASSUME TInv, OpenInv, Record PROVE OpenInv'
<1> DEFINE n == Len(batch.calls)
           k == n - Len(results) + 1
           c == batch.calls[k]
           b == [batch EXCEPT !.news = IF News(c, Head(results)) THEN @ \cup {c} ELSE @]
<1>1. phase = "record"
    BY DEF Record
<1>2. batch.calls \in Seq(Calls) /\ n \in Nat /\ k \in 1 .. n
    BY <1>1, ResultInHand DEF TInv, TypeOK, BatchSet
<1>3. b.calls = batch.calls
    BY DEF TInv, TypeOK, BatchSet
<1>4. StoreResult(c, b, Noted(c, Head(results))) \/ LoseResult(Noted(c, Head(results)))
    BY DEF Record
<1>5. CASE LoseResult(Noted(c, Head(results)))
    BY <1>5, FailedKeeps DEF LoseResult, OpenInv
<1>6. CASE StoreResult(c, b, Noted(c, Head(results)))
  <2> HIDE DEF b
  <2>1. hist'.lost = hist.lost
    BY <1>6 DEF StoreResult, TInv, TypeOK, Ghost
  <2>2. CASE hist.lost
    BY <2>1, <2>2 DEF OpenInv
  <2>3. CASE ~hist.lost
    <3>1. sess.open = SubSeq(batch.calls, k, n)
      BY <1>1, <2>3 DEF OpenInv, Rest
    <3>2. Head(sess.open) = c /\ Tail(sess.open) = SubSeq(batch.calls, k + 1, n)
      BY <1>2, <3>1, HeadTailOfSubSeq
    <3>3. sess.open # <<>>
      <4>1. Len(sess.open) = n - k + 1
        BY <1>2, <3>1
      <4> QED BY <1>2, <4>1
    <3>4. sess'.open = Tail(sess.open)
      <4>1. sess' = [sess EXCEPT !.open = Tail(sess.open)]
        BY <1>6, <3>2, <3>3 DEF StoreResult, Answer
      <4> QED BY <4>1 DEF TInv, TypeOK, Sessions
    <3>5. results' = Tail(results)
      BY <1>6 DEF StoreResult
    <3>6. Len(results') = Len(results) - 1 /\ Len(results) \in Nat \ {0}
      BY <1>1, <3>5, ResultInHand
    <3>7. CASE Len(results) > 1
      <4>1. phase' = "record" /\ batch'.calls = batch.calls
        BY <1>3, <1>6, <3>7 DEF StoreResult
      <4>2. Len(batch'.calls) - Len(results') + 1 = k + 1
        BY <1>2, <3>6, <4>1
      <4>3. Rest' = SubSeq(batch.calls, k + 1, n)
        BY <4>1, <4>2 DEF Rest
      <4> QED BY <3>2, <3>4, <4>1, <4>3 DEF OpenInv
    <3>8. CASE ~(Len(results) > 1)
      <4>1. phase' \in {"synthesis", "gate"}
        BY <1>6, <3>8 DEF StoreResult
      <4>2. k = n
        BY <1>2, <3>6, <3>8
      <4>3. SubSeq(batch.calls, k + 1, n) = <<>>
        BY <1>2, <4>2, SubSeqEmpty
      <4> QED BY <3>2, <3>4, <4>1, <4>3 DEF OpenInv
    <3> QED BY <3>7, <3>8
  <2> QED BY <2>2, <2>3
<1> QED BY <1>4, <1>5, <1>6

LEMMA OpenStep == ASSUME TInv, OpenInv, [Next]_vars PROVE OpenInv'
<1>0. sess \in Sessions
    BY DEF TInv, TypeOK
<1>1. CASE TurnStep
  <2>0. ASSUME NEW why, End(why) PROVE phase' \in {"start", "ended"}
    BY <2>0 DEF End
  <2>1. CASE Execute BY <2>1, OpenExecute
  <2>2. CASE Record BY <2>2, OpenRecord
  <2>3. CASE AnswerAtLimit \/ ReplyText \/ ReplyEmpty \/ StopStep \/ GateStep
    <3>0. phase \in {"asked", "stop", "gate"}
      BY <2>3 DEF AnswerAtLimit, ReplyText, ReplyEmpty, StopStep, GateStep
    <3>1. CASE Finalize BY <3>0, <3>1, OpenFinalize
    <3>2. CASE EnforceGate BY <3>0, <3>2, OpenEnforce
    <3>3. CASE phase' = "reason" /\ UNCHANGED <<sess, hist>>
      BY <3>0, <3>3, OpenIdle
    <3> QED BY <2>3, <3>1, <3>2, <3>3 DEF AnswerAtLimit, ReplyText, ReplyEmpty, StopStep, GateStep
  <2>4. CASE \E cs \in Batches, silent \in BOOLEAN : ReplyCalls(cs, silent)
    <3>1. PICK cs \in Batches, silent \in BOOLEAN : ReplyCalls(cs, silent)
      BY <2>4
    <3>2. phase = "asked"
      BY <3>1 DEF ReplyCalls
    <3>3. CASE phase' \in {"stop", "gate"} /\ UNCHANGED <<sess, hist>>
      BY <3>2, <3>3, OpenIdle
    <3>4. CASE Failed /\ End("session")
      BY <2>0, <3>2, <3>4, FailedKeeps, OpenIdle
    <3>5. CASE /\ sess' = [sess EXCEPT !.open = @ \o cs]
               /\ batch' = [NoBatch EXCEPT !.calls = cs, !.silent = silent]
               /\ phase' = "execute" /\ UNCHANGED hist
      <4>1. cs \in Seq(Calls)
        BY BatchIsSeq
      <4>2. batch'.calls = cs
        BY <3>5 DEF NoBatch
      <4> QED BY <3>2, <3>5, <4>1, <4>2, OpenRequest
    <3> QED BY <3>1, <3>3, <3>4, <3>5 DEF ReplyCalls, StoreCalls
  <2>5. CASE StoreQuestion
    <3>1. sess'.open = sess.open
      BY <1>0, <2>5 DEF StoreQuestion, Sessions
    <3>2. phase' \in {"reason", "start", "ended"} /\ phase = "prepare"
      BY <2>0, <2>5 DEF StoreQuestion
    <3> QED BY <2>5, <3>1, <3>2, FailedKeeps, OpenIdle DEF StoreQuestion
  <2>6. CASE SimpleReply
    <3>1. sess'.open = sess.open
      BY <1>0, <2>6 DEF SimpleReply, Sessions
    <3>2. phase' \in {"start", "ended"} /\ phase = "asked"
      BY <2>0, <2>6 DEF SimpleReply
    <3> QED BY <2>6, <3>1, <3>2, FailedKeeps, OpenIdle DEF SimpleReply
  <2>7. CASE Register \/ CheckHandle \/ PromptSynthesis
    BY <2>0, <2>7, OpenIdle DEF Register, CheckHandle, PromptSynthesis
  <2>8. CASE RunOut \/ ModelFails
    BY <2>0, <2>8, FailedKeeps, OpenIdle DEF RunOut, ModelFails
  <2>9. CASE Reason
    <3>1. hist'.lost = hist.lost
      BY <2>9 DEF Reason, TInv, TypeOK, Ghost
    <3>2. phase' \in {"start", "ended", "asked"} /\ phase = "reason" /\ UNCHANGED sess
      BY <2>0, <2>9 DEF Reason
    <3> QED BY <3>1, <3>2, OpenIdle
  <2> QED BY <1>1, <2>1, <2>2, <2>3, <2>4, <2>5, <2>6, <2>7, <2>8, <2>9 DEF TurnStep
<1>2. CASE DeleteSession \/ CancelSession \/ UNCHANGED vars
  <2>1. UNCHANGED <<phase, batch, results>> /\ sess'.open = sess.open
    BY <1>0, <1>2 DEF DeleteSession, CancelSession, vars, Sessions
  <2>2. hist'.lost = hist.lost
    BY <1>2 DEF DeleteSession, CancelSession, vars, TInv, TypeOK, Ghost
  <2> QED BY <2>1, <2>2 DEF OpenInv, Rest
<1> QED BY <1>1, <1>2 DEF Next, Done

LEMMA Open == Spec => []OpenInv
<1>1. Init => OpenInv
    BY DEF Init, OpenInv
<1>2. TInv /\ OpenInv /\ [Next]_vars => OpenInv'
    BY OpenStep
<1> QED BY <1>1, <1>2, Typed, PTL DEF Spec

\* Until a write is lost, the session holds every request before its results
\* and the results in the order of the requests, for batches of any length.
THEOREM ResultsFollowRequests == Spec => []TranscriptInOrder
BY Open, OpenIsOrdered, PTL

\* In a turn of more than one round no tool runs whose request is not in the
\* session.
THEOREM ToolsRunStoredCalls == MaxIterations > 1 => (Spec => RunsStoredCalls)
<1> SUFFICES ASSUME MaxIterations > 1 PROVE Spec => RunsStoredCalls
    OBVIOUS
<1> DEFINE Stored == \E k \in 0 .. Len(sess.open) :
                         SubSeq(sess.open, k + 1, Len(sess.open)) = batch.calls
<1>1. ASSUME TInv, LostInv, OpenInv, Execute PROVE Stored
  <2>1. phase = "execute" /\ ~hist.lost
    BY <1>1 DEF Execute, LostInv, LostWriteEndsTurn
  <2>2. sess.open = batch.calls /\ batch.calls \in Seq(Calls)
    BY <1>1, <2>1 DEF OpenInv, TInv, TypeOK, BatchSet
  <2>3. SubSeq(sess.open, 0 + 1, Len(sess.open)) = batch.calls
    BY <2>2, SubSeqFull
  <2>4. 0 \in 0 .. Len(sess.open)
    BY <2>2
  <2> QED BY <2>3, <2>4
<1>2. TInv /\ LostInv /\ OpenInv => [Execute => Stored]_vars
    BY <1>1
<1>3. Spec => [](TInv /\ LostInv /\ OpenInv)
    BY Typed, Lost, Open, PTL
<1> QED BY <1>2, <1>3, PTL DEF RunsStoredCalls

-----------------------------------------------------------------------------
(* Repetition.                                                             *)

\* A call has news in the batch of the model whose results are being stored.
Fresh(c) == phase = "record" /\ ~batch.gate /\ c \in batch.news

\* The rounds without news are among those the loop counts, and a silent
\* round on one call is begun only below the limit.
StaleInv ==
    /\ StaleRoundsBounded
    /\ phase # "ended" =>
           \A c \in Calls : Fresh(c) \/ hist.stale[c] <= memory.repeat[c]
    /\ phase \in {"execute", "record"} /\ ~batch.gate /\ batch.silent =>
           \A c \in Calls : ToSet(batch.calls) = {c} =>
               /\ hist.stale[c] + 1 < RepeatLimit
               /\ Fresh(c) \/ hist.stale[c] + 1 <= memory.repeat[c]
    /\ phase \in {"execute", "record"} => batch.news \subseteq ToSet(batch.calls)

LEMMA HeardKeeps ==
    ASSUME TypeOK, NEW cs, NEW silent
    PROVE  /\ Heard(cs, silent).repeat = memory.repeat
           /\ Heard(cs, silent).failures = memory.failures
BY DEF Heard, TypeOK, Memories

\* Counting a batch never forgets, and counts each of its calls that has not
\* failed too often.
LEMMA CountedMore ==
    ASSUME NEW m \in Memories, NEW cs \in Batches, NEW c \in Calls
    PROVE  /\ Counted(m, cs).repeat[c] \in Nat /\ m.repeat[c] \in Nat
           /\ Counted(m, cs).repeat[c] >= m.repeat[c]
           /\ c \in ToSet(cs) /\ ~FailedTooOften(m, c) =>
                  Counted(m, cs).repeat[c] >= m.repeat[c] + 1
<1> DEFINE more == [d \in Calls |-> IF d \in Calls /\ ~FailedTooOften(m, d)
                                    THEN m.repeat[d] + Count(d, cs) ELSE m.repeat[d]]
<1>1. Counted(m, cs).repeat = more
    BY DEF Counted, Memories
<1>2. m.repeat[c] \in Nat
    BY DEF Memories
<1>3. Count(c, cs) \in Nat /\ (c \in ToSet(cs) => Count(c, cs) >= 1)
    BY CountIsNat
<1>4. more[c] = IF ~FailedTooOften(m, c) THEN m.repeat[c] + Count(c, cs) ELSE m.repeat[c]
    OBVIOUS
<1> HIDE DEF more
<1>5. CASE FailedTooOften(m, c)
    BY <1>1, <1>2, <1>4, <1>5
<1>6. CASE ~FailedTooOften(m, c)
  <2>1. more[c] = m.repeat[c] + Count(c, cs)
    BY <1>4, <1>6
  <2> QED BY <1>1, <1>2, <1>3, <1>6, <2>1
<1> QED BY <1>5, <1>6

\* Outside a batch, and in a batch of the gate, more counting does no harm.
LEMMA StaleIdle ==
    ASSUME TInv, StaleInv, hist'.stale = hist.stale, phase # "ended",
           phase # "record",
           \A c \in Calls : memory'.repeat[c] >= memory.repeat[c] /\ memory'.repeat[c] \in Nat,
           \/ phase' \notin {"execute", "record"}
           \/ phase' = "execute" /\ batch'.gate /\ batch'.news = {}
    PROVE  StaleInv'
<1>1. StaleRoundsBounded'
    BY DEF StaleInv, StaleRoundsBounded
<1>2. ASSUME NEW c \in Calls PROVE hist'.stale[c] <= memory'.repeat[c]
  <2>1. hist.stale[c] <= memory.repeat[c]
    BY DEF StaleInv, Fresh
  <2>2. hist.stale[c] \in Nat /\ memory.repeat[c] \in Nat
    BY DEF TInv, TypeOK, Ghost, Memories
  <2> QED BY <2>1, <2>2
<1>3. phase' # "record"
    OBVIOUS
<1>4. ~(phase' \in {"execute", "record"} /\ ~batch'.gate)
    OBVIOUS
<1> QED BY <1>1, <1>2, <1>3, <1>4 DEF StaleInv

LEMMA StaleEnded ==
    ASSUME StaleInv, hist'.stale = hist.stale, phase' = "ended"
    PROVE  StaleInv'
BY DEF StaleInv, StaleRoundsBounded, Fresh

LEMMA StaleCalls ==
    ASSUME TInv, StaleInv, NEW cs \in Batches, NEW silent \in BOOLEAN, ReplyCalls(cs, silent)
    PROVE  StaleInv'
<1> DEFINE m == Heard(cs, silent)
<1>1. phase = "asked" /\ memory \in Memories /\ m \in Memories /\ Counted(m, cs) \in Memories
    BY HeardTyped, CountedTyped DEF ReplyCalls, TInv, TypeOK
<1>2. m.repeat = memory.repeat /\ m.failures = memory.failures
    BY HeardKeeps DEF TInv
<1>3. memory' \in {m, Counted(m, cs), [Counted(m, cs) EXCEPT !.forced = TRUE]}
    BY DEF ReplyCalls
<1>4. memory'.repeat \in {m.repeat, Counted(m, cs).repeat}
  <2> HIDE DEF m
  <2>1. [Counted(m, cs) EXCEPT !.forced = TRUE].repeat = Counted(m, cs).repeat
    BY <1>1 DEF Memories
  <2> QED BY <1>3, <2>1
<1>5. ASSUME NEW c \in Calls
      PROVE  memory'.repeat[c] >= memory.repeat[c] /\ memory'.repeat[c] \in Nat
  <2>1. Counted(m, cs).repeat[c] >= m.repeat[c] /\ Counted(m, cs).repeat[c] \in Nat
        /\ m.repeat[c] \in Nat
    BY <1>1, CountedMore
  <2> HIDE DEF m
  <2> QED BY <1>2, <1>4, <2>1
<1>6. CASE phase' \in {"stop", "gate"} /\ UNCHANGED hist
    BY <1>1, <1>5, <1>6, StaleIdle
<1>7. CASE Failed /\ End("session")
  <2>1. phase' = "ended"
    BY <1>7 DEF End
  <2> QED BY <1>7, <2>1, FailedKeeps, StaleEnded
<1>8. CASE /\ batch' = [NoBatch EXCEPT !.calls = cs, !.silent = silent]
           /\ phase' = "execute" /\ UNCHANGED hist
           /\ memory' = Counted(m, cs) /\ ~Repeats(m, cs, silent)
  <2>1. batch'.calls = cs /\ batch'.silent = silent /\ batch'.news = {} /\ phase' # "record"
    BY <1>8 DEF NoBatch
  <2>2. StaleRoundsBounded'
    BY <1>8 DEF StaleInv, StaleRoundsBounded
  <2>3. ASSUME NEW c \in Calls PROVE hist'.stale[c] <= memory'.repeat[c]
    <3>1. hist.stale[c] <= memory.repeat[c]
      BY <1>1 DEF StaleInv, Fresh
    <3>2. hist.stale[c] \in Nat /\ memory.repeat[c] \in Nat
      BY DEF TInv, TypeOK, Ghost, Memories
    <3> QED BY <1>5, <1>8, <3>1, <3>2
  <2>4. ASSUME silent, NEW c \in Calls, ToSet(cs) = {c}
        PROVE  hist'.stale[c] + 1 < RepeatLimit /\ hist'.stale[c] + 1 <= memory'.repeat[c]
    <3>1. ~FailedTooOften(m, c) /\ ~(m.repeat[c] + 1 >= RepeatLimit)
      BY <1>8, <2>4 DEF Repeats, Quiet, FailureStopped, AllRepeated
    <3>2. Counted(m, cs).repeat[c] >= m.repeat[c] + 1 /\ Counted(m, cs).repeat[c] \in Nat
      BY <1>1, <2>4, <3>1, CountedMore
    <3>3. hist.stale[c] <= memory.repeat[c] /\ hist.stale[c] \in Nat /\ memory.repeat[c] \in Nat
      BY <1>1 DEF StaleInv, Fresh, TInv, TypeOK, Ghost, Memories
    <3>4. RepeatLimit \in Nat
      BY TurnAssumption DEF TurnAssumption
    <3>5. memory' = Counted(m, cs) /\ hist' = hist /\ m.repeat[c] = memory.repeat[c]
      BY <1>2, <1>8
    <3> HIDE DEF m
    <3> QED BY <3>1, <3>2, <3>3, <3>4, <3>5
  <2> QED BY <1>8, <2>1, <2>2, <2>3, <2>4 DEF StaleInv
<1> HIDE DEF m
<1>9. \/ StoreCalls(cs, silent) /\ memory' = Counted(m, cs) /\ ~Repeats(m, cs, silent)
      \/ phase' \in {"stop", "gate"} /\ UNCHANGED hist
    BY DEF ReplyCalls, m
<1> QED BY <1>6, <1>7, <1>8, <1>9 DEF StoreCalls

LEMMA StaleExecute == ASSUME TInv, StaleInv, Execute PROVE StaleInv'
<1>1. phase = "execute" /\ phase' = "record" /\ UNCHANGED <<batch, memory, hist>>
    BY DEF Execute
<1> QED BY <1>1 DEF StaleInv, StaleRoundsBounded, Fresh

LEMMA NotedRepeat ==
    ASSUME TypeOK, NEW c \in Calls, NEW r, NEW d \in Calls
    PROVE  Noted(c, r).repeat[d] = IF ~batch.gate /\ d = c /\ News(c, r) THEN 0
                                   ELSE memory.repeat[d]
<1> DEFINE more == IF Useful(c, r) /\ memory.evidence < 3 THEN memory.evidence + 1 ELSE memory.evidence
           seen == [memory EXCEPT !.last[c] = r, !.evidence = more]
           repeats == IF News(c, r) THEN 0 ELSE seen.repeat[c]
           failed == IF r \in BadResults THEN seen.failures[c] + 1 ELSE seen.failures[c]
           all == [seen EXCEPT !.repeat[c] = repeats, !.failures[c] = failed]
<1>1. memory \in Memories /\ memory.repeat \in [Calls -> Nat]
    BY DEF TypeOK, Memories
<1>2. seen.repeat = memory.repeat
  <2> HIDE DEF more
  <2> QED BY <1>1 DEF Memories
<1>3. all.repeat = [memory.repeat EXCEPT ![c] = repeats]
  <2>1. all.repeat = [seen.repeat EXCEPT ![c] = repeats]
    <3>1. seen \in [DOMAIN seen -> {seen[f] : f \in DOMAIN seen}] /\ DOMAIN seen = DOMAIN memory
      BY DEF seen
    <3>2. "repeat" \in DOMAIN seen
      BY <1>1, <3>1 DEF Memories
    <3> HIDE DEF seen, repeats, failed
    <3> QED BY <3>1, <3>2
  <2> QED BY <1>2, <2>1
<1>4. repeats = IF News(c, r) THEN 0 ELSE memory.repeat[c]
    BY <1>2
<1>5. Noted(c, r) = IF batch.gate THEN seen ELSE all
    BY DEF Noted
<1> HIDE DEF seen, all, repeats
<1>6. all.repeat[d] = IF d = c /\ News(c, r) THEN 0 ELSE memory.repeat[d]
    BY <1>1, <1>3, <1>4
<1> QED BY <1>2, <1>5, <1>6

LEMMA SynthesisRepeat == ASSUME NEW m \in Memories PROVE Synthesis(m).repeat = m.repeat
BY DEF Synthesis, Memories

LEMMA StaleRecord == ASSUME TInv, StaleInv, Record PROVE StaleInv'
<1> DEFINE c == batch.calls[Len(batch.calls) - Len(results) + 1]
           r == Head(results)
           b == [batch EXCEPT !.news = IF News(c, r) THEN @ \cup {c} ELSE @]
           m == Noted(c, r)
<1>1. phase = "record" /\ c \in Calls /\ m \in Memories /\ batch \in BatchSet
    BY ResultInHand, NotedTyped DEF Record, TInv, TypeOK
<1>2. /\ b.gate = batch.gate /\ b.silent = batch.silent /\ b.calls = batch.calls
      /\ b.news = IF News(c, r) THEN batch.news \cup {c} ELSE batch.news
    BY <1>1 DEF BatchSet
<1>3. b.news \subseteq ToSet(b.calls)
  <2>1. c \in ToSet(batch.calls)
    <3>1. batch.calls \in Seq(Calls) /\ Len(batch.calls) - Len(results) + 1 \in 1 .. Len(batch.calls)
      BY <1>1, ResultInHand DEF BatchSet
    <3> QED BY <3>1 DEF ToSet
  <2>2. batch.news \subseteq ToSet(batch.calls)
    BY <1>1 DEF StaleInv
  <2> HIDE DEF c
  <2> QED BY <1>2, <2>1, <2>2
<1>4. ASSUME NEW d \in Calls
      PROVE  m.repeat[d] = IF ~batch.gate /\ d = c /\ News(c, r) THEN 0 ELSE memory.repeat[d]
    BY <1>1, NotedRepeat DEF TInv
<1>5. StoreResult(c, b, m) \/ LoseResult(m)
    BY DEF Record
<1>6. ASSUME NEW d \in Calls
      PROVE  /\ hist.stale[d] \in Nat /\ memory.repeat[d] \in Nat /\ RepeatLimit \in Nat \ {0}
             /\ hist.stale[d] < RepeatLimit
    BY TurnAssumption DEF TurnAssumption, TInv, TypeOK, Ghost, Memories, StaleInv, StaleRoundsBounded
<1> HIDE DEF c, r, b, m
<1>7. ASSUME NEW d \in Calls
      PROVE  (~batch.gate /\ d \in b.news) \/ hist.stale[d] <= m.repeat[d]
    BY <1>1, <1>2, <1>4, <1>6 DEF StaleInv, Fresh
<1>8. ASSUME ~batch.gate, batch.silent, NEW d \in Calls, ToSet(batch.calls) = {d}
      PROVE  /\ hist.stale[d] + 1 < RepeatLimit
             /\ d \in b.news \/ hist.stale[d] + 1 <= m.repeat[d]
    BY <1>1, <1>2, <1>4, <1>6, <1>8 DEF StaleInv, Fresh
<1>9. CASE LoseResult(m)
  <2>1. hist'.stale = hist.stale
    BY <1>9, FailedKeeps DEF LoseResult
  <2>2. CASE batch.gate
    <3>1. phase' = "reason" /\ memory' = [m EXCEPT !.err = TRUE]
      BY <1>9, <2>2 DEF LoseResult
    <3>2. memory'.repeat = m.repeat
      BY <1>1, <3>1 DEF Memories
    <3> QED BY <1>7, <2>1, <2>2, <3>1, <3>2 DEF StaleInv, StaleRoundsBounded
  <2>3. CASE ~batch.gate
    <3>1. phase' = "ended"
      BY <1>9, <2>3 DEF LoseResult, End
    <3> QED BY <2>1, <3>1, StaleEnded
  <2> QED BY <2>2, <2>3
<1>10. CASE StoreResult(c, b, m) /\ Len(results) > 1
  <2>1. phase' = "record" /\ batch' = b /\ memory' = m /\ UNCHANGED hist
    BY <1>10 DEF StoreResult
  <2> QED BY <1>2, <1>3, <1>7, <1>8, <2>1 DEF StaleInv, StaleRoundsBounded, Fresh
<1>11. CASE StoreResult(c, b, m) /\ ~(Len(results) > 1) /\ batch.gate
  <2>1. phase' = "synthesis" /\ memory' = m /\ UNCHANGED hist
    BY <1>2, <1>11 DEF StoreResult
  <2> QED BY <1>7, <1>11, <2>1 DEF StaleInv, StaleRoundsBounded
<1>12. CASE StoreResult(c, b, m) /\ ~(Len(results) > 1) /\ ~batch.gate
  <2>1. phase' = "gate" /\ memory' = Synthesis(m) /\ hist' = [hist EXCEPT !.stale = Stale(b)]
    BY <1>2, <1>12 DEF StoreResult
  <2>2. memory'.repeat = m.repeat
    BY <1>1, <2>1, SynthesisRepeat
  <2>3. hist'.stale = Stale(b)
    BY <2>1 DEF TInv, TypeOK, Ghost
  <2>4. ASSUME NEW d \in Calls
        PROVE  Stale(b)[d] <= m.repeat[d] /\ Stale(b)[d] < RepeatLimit
    <3>0. m.repeat[d] \in Nat
      BY <1>1 DEF Memories
    <3>1. CASE d \notin ToSet(b.calls)
      <4>1. Stale(b)[d] = hist.stale[d] /\ d \notin b.news
        BY <1>3, <3>1 DEF Stale
      <4> QED BY <1>6, <1>7, <4>1
    <3>2. CASE d \in ToSet(b.calls) /\ d \in b.news
      <4>1. Stale(b)[d] = 0
        BY <3>2 DEF Stale
      <4> QED BY <1>6, <3>0, <4>1
    <3>3. CASE d \in ToSet(b.calls) /\ d \notin b.news /\ b.silent /\ ToSet(b.calls) = {d}
      <4>1. Stale(b)[d] = hist.stale[d] + 1
        BY <3>3 DEF Stale
      <4> QED BY <1>2, <1>8, <1>12, <3>3, <4>1
    <3>4. CASE d \in ToSet(b.calls) /\ d \notin b.news /\ ~(b.silent /\ ToSet(b.calls) = {d})
      <4>1. Stale(b)[d] = hist.stale[d]
        BY <3>4 DEF Stale
      <4> QED BY <1>6, <1>7, <3>4, <4>1
    <3> QED BY <3>1, <3>2, <3>3, <3>4
  <2> QED BY <2>1, <2>2, <2>3, <2>4 DEF StaleInv, StaleRoundsBounded
<1> QED BY <1>5, <1>9, <1>10, <1>11, <1>12

LEMMA RepeatTyped == ASSUME TInv, NEW c \in Calls PROVE memory.repeat[c] \in Nat
BY DEF TInv, TypeOK, Memories

\* The steps that leave the counting alone.
LEMMA StaleElsewhere ==
    ASSUME TInv, StaleInv, phase \notin {"record", "execute", "ended"},
           hist'.stale = hist.stale, memory'.repeat = memory.repeat,
           \/ phase' \notin {"execute", "record"}
           \/ phase' = "execute" /\ batch'.gate /\ batch'.news = {}
    PROVE  StaleInv'
<1>1. ASSUME NEW c \in Calls
      PROVE  memory'.repeat[c] >= memory.repeat[c] /\ memory'.repeat[c] \in Nat
    BY RepeatTyped
<1> QED BY <1>1, StaleIdle

LEMMA StaleStep == ASSUME TInv, StaleInv, [Next]_vars PROVE StaleInv'
<1>0. memory \in Memories /\ hist \in Ghost
    BY DEF TInv, TypeOK
<1>1. CASE TurnStep
  <2>0. ASSUME NEW why, End(why) PROVE phase' \in {"start", "ended"}
    BY <2>0 DEF End
  <2>1. CASE Execute BY <2>1, StaleExecute
  <2>2. CASE Record BY <2>2, StaleRecord
  <2>3. CASE AnswerAtLimit \/ ReplyText \/ ReplyEmpty \/ StopStep \/ GateStep
    <3>0. phase \in {"asked", "stop", "gate"}
      BY <2>3 DEF AnswerAtLimit, ReplyText, ReplyEmpty, StopStep, GateStep
    <3>1. CASE Finalize
      <4>1. phase' = "ended"
        BY <3>1, FinalizeKeeps
      <4>2. hist'.stale = hist.stale
        BY <3>1, FailedKeeps DEF Finalize
      <4> QED BY <4>1, <4>2, StaleEnded
    <3>2. CASE EnforceGate
      <4>1. hist'.stale = hist.stale
        BY <3>2, FailedKeeps DEF EnforceGate
      <4>2. memory'.repeat = memory.repeat
        BY <1>0, <3>2 DEF EnforceGate, Memories
      <4>3. \/ phase' = "reason"
            \/ phase' = "execute" /\ batch'.gate /\ batch'.news = {}
        BY <3>2 DEF EnforceGate, NoBatch
      <4> QED BY <3>0, <4>1, <4>2, <4>3, StaleElsewhere
    <3>3. CASE phase' = "reason" /\ UNCHANGED hist /\ memory'.repeat = memory.repeat
      BY <3>0, <3>3, StaleElsewhere
    <3>4. \/ memory' = memory \/ memory' = [memory EXCEPT !.empty = 0]
          \/ memory' = [memory EXCEPT !.empty = @ + 1] \/ EnforceGate
      BY <2>3 DEF AnswerAtLimit, ReplyText, ReplyEmpty, StopStep, GateStep
    <3>5. memory'.repeat = memory.repeat \/ EnforceGate
      BY <1>0, <3>4 DEF Memories
    <3>6. Finalize \/ EnforceGate \/ (phase' = "reason" /\ UNCHANGED hist)
      BY <2>3 DEF AnswerAtLimit, ReplyText, ReplyEmpty, StopStep, GateStep
    <3> QED BY <3>1, <3>2, <3>3, <3>5, <3>6
  <2>4. CASE \E cs \in Batches, silent \in BOOLEAN : ReplyCalls(cs, silent)
    BY <2>4, StaleCalls
  <2>5. CASE StoreQuestion \/ SimpleReply \/ RunOut \/ ModelFails
    <3>1. UNCHANGED memory /\ phase \in {"prepare", "asked", "reason"}
      BY <2>5 DEF StoreQuestion, SimpleReply, RunOut, ModelFails
    <3>2. hist'.stale = hist.stale
      BY <2>5, FailedKeeps DEF StoreQuestion, SimpleReply, RunOut, ModelFails
    <3>3. phase' \in {"start", "ended", "reason"}
      BY <2>0, <2>5 DEF StoreQuestion, SimpleReply, RunOut, ModelFails
    <3> QED BY <3>1, <3>2, <3>3, StaleElsewhere
  <2>6. CASE Register \/ CheckHandle \/ PromptSynthesis
    <3>1. UNCHANGED <<memory, hist>> /\ phase \in {"start", "registered", "synthesis"}
      BY <2>6 DEF Register, CheckHandle, PromptSynthesis
    <3>2. phase' \in {"start", "ended", "reason", "registered", "prepare", "asked"}
      BY <2>0, <2>6 DEF Register, CheckHandle, PromptSynthesis
    <3> QED BY <3>1, <3>2, StaleElsewhere
  <2>7. CASE Reason
    <3>1. UNCHANGED memory /\ phase = "reason"
      BY <2>7 DEF Reason
    <3>2. hist'.stale = hist.stale
      BY <1>0, <2>7 DEF Reason, Ghost
    <3>3. phase' \in {"start", "ended", "asked"}
      BY <2>0, <2>7 DEF Reason
    <3> QED BY <3>1, <3>2, <3>3, StaleElsewhere
  <2> QED BY <1>1, <2>1, <2>2, <2>3, <2>4, <2>5, <2>6, <2>7 DEF TurnStep
<1>2. CASE DeleteSession \/ CancelSession \/ UNCHANGED vars
  <2>1. UNCHANGED <<phase, batch, memory>>
    BY <1>2 DEF DeleteSession, CancelSession, vars
  <2>2. hist'.stale = hist.stale
    BY <1>0, <1>2 DEF DeleteSession, CancelSession, vars, Ghost
  <2> QED BY <2>1, <2>2 DEF StaleInv, StaleRoundsBounded, Fresh
<1> QED BY <1>1, <1>2 DEF Next, Done

\* A call asked for in silence gets the result the model already has fewer
\* than RepeatLimit times, with any calls, tools and limits around it.
THEOREM RepetitionIsBounded == Spec => []StaleRoundsBounded
<1>1. Init => StaleInv
  <2>1. ASSUME Init, NEW c \in Calls
        PROVE  hist.stale[c] = 0 /\ memory.repeat[c] = 0
    BY <2>1 DEF Init
  <2>2. 0 < RepeatLimit
    BY TurnAssumption DEF TurnAssumption
  <2>3. Init => phase = "start"
    BY DEF Init
  <2> QED BY <2>1, <2>2, <2>3 DEF StaleInv, StaleRoundsBounded
<1>2. TInv /\ StaleInv /\ [Next]_vars => StaleInv'
    BY StaleStep
<1>3. StaleInv => StaleRoundsBounded
    BY DEF StaleInv
<1> QED BY <1>1, <1>2, <1>3, Typed, PTL DEF Spec
=============================================================================
