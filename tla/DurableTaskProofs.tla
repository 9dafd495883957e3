-------------------------- MODULE DurableTaskProofs --------------------------
(***************************************************************************)
(* Proofs about DurableTask, for every value of its constants: types, the  *)
(* agreement of ledger and transcript, at-most-once execution, and that    *)
(* the task implements the abstract ledger.                                *)
(***************************************************************************)
EXTENDS DurableTask, TLAPS

-----------------------------------------------------------------------------
\* The strengthening.

\* A checkpoint names its calls consistently: the pending calls are in increasing
\* order, of the current batch unless a save lost its number, and none of them is
\* answered but the first, by a save that was cut after its message.
WellNamed(c) ==
    /\ \A j, k \in 1 .. Len(c.pending) : j < k => c.pending[j].id[2] < c.pending[k].id[2]
    /\ ~ c.unnumbered =>
          /\ \A j \in 1 .. Len(c.pending) : c.pending[j].id[1] = c.batch
          /\ \A a \in c.answered : a.id[1] <= c.batch
          /\ \A a \in c.answered, j \in 1 .. Len(c.pending) :
                a.id = c.pending[j].id => j = 1 /\ a = c.pending[1]

\* The ledger holds what checkpoint c answered, and at most c's next call.  A call
\* that meets the record of another one meets an answered one.
Open(c, i)      == c.pending # << >> /\ c.pending[1].id = i
IsAnswered(c, i)  == ops[i].state = "completed" /\ \E a \in c.answered : a.id = i
Unstarted(c, i) == ops[i].state = "absent" \/ (c.unnumbered /\ IsAnswered(c, i))
Agrees(c) ==
    /\ \A a \in c.answered : /\ ops[a.id].state = "completed"
                             /\ ~ c.unnumbered => ops[a.id].call = a.call
    /\ \A i \in OpId : ops[i].state # "absent" =>
          \/ IsAnswered(c, i)
          \/ Open(c, i) /\ ops[i].call = c.pending[1].call
    /\ c.pending # << >> /\ c.pending[1].call \in c.repeats => Unstarted(c, c.pending[1].id)

Sound(c) == c \in Checkpoint /\ WellNamed(c) /\ Agrees(c)

\* A ledger record is complete exactly when it holds a result.
RecordInv ==
    \A i \in OpId :
        /\ ops[i].state = "absent" => /\ ops[i].call = None
                                      /\ effects[i] = 0 /\ retried[i] = 0
        /\ ops[i].state # "absent" => ops[i].call \in Call
        /\ ops[i].state = "completed" <=> ops[i].result # None

\* Runs are covered by permissions; one is in reserve before a repetition.
EffectInv ==
    \A i \in OpId : ops[i].call \notin ReplaySafe =>
        /\ effects[i] <= 1 + retried[i]
        /\ ops[i].state = "retry" => effects[i] <= retried[i]

\* In memory and on disk: a running loop works on what is saved.
Working == pc \notin {"idle", "start", "release"}

PcInv ==
    /\ Working => cp = saved
    /\ pc \in {"model", "review", "more", "deny"} => cp.pending = << >>
    /\ pc \in {"began", "ran", "answer"} => cp.pending # << >>
    /\ pc = "began" =>
          /\ ops[Current.id].state = "started"
          /\ Current.call \notin ReplaySafe => effects[Current.id] <= retried[Current.id]
    /\ pc = "ran" => ops[Current.id].state = "started" /\ got.result \in Result
    /\ pc = "answer" => ops[Current.id].state = "completed" /\ got.result \in Result
    /\ pc = "converge" => /\ got.call \in Call
                          /\ cp.pending # << >> => Unstarted(cp, Current.id)

IInv ==
    /\ TypeOK
    /\ WellNamed(saved) /\ Agrees(saved)
    /\ RecordInv /\ EffectInv /\ PcInv

-----------------------------------------------------------------------------
\* Lemmas about checkpoints and about the two ways a step of the loop ends.

Outcomes == {"none", "yield", "deadline", "blocked", "error", "cancelled", "session", "done"}

\* A checkpoint that differs only in its other fields names the same calls.
LEMMA SameCalls ==
    ASSUME NEW c, NEW d,
           c.pending = d.pending, c.answered = d.answered,
           c.batch = d.batch, c.repeats = d.repeats, c.unnumbered = d.unnumbered,
           WellNamed(d), Agrees(d)
    PROVE  WellNamed(c) /\ Agrees(c)
BY DEF WellNamed, Agrees, Open, IsAnswered, Unstarted

\* What a save that was cut between its lines leaves.
LEMMA TornLines ==
    ASSUME saved \in Checkpoint, NEW c \in Checkpoint, NEW d \in Torn(c), d # saved, d # c
    PROVE  /\ d \in Checkpoint
           /\ d.answered = c.answered /\ d.skipped = c.skipped
           /\ d.batch = saved.batch /\ d.repeats = saved.repeats /\ d.digests = saved.digests
           /\ d.verdict = saved.verdict /\ d.assessed = saved.assessed
           /\ \/ d.pending = saved.pending /\ d.unnumbered = saved.unnumbered
              \/ /\ d.pending = c.pending
                 /\ d.unnumbered = (saved.unnumbered \/ c.batch # saved.batch)
<1> DEFINE m == [saved EXCEPT !.answered = c.answered, !.skipped = c.skipped]
           k == [m EXCEPT !.pending = c.pending, !.unnumbered = @ \/ c.batch # saved.batch]
<1>1. d = m \/ d = k
    BY DEF Torn
<1>2. /\ m \in Checkpoint /\ m.answered = c.answered /\ m.skipped = c.skipped
      /\ m.batch = saved.batch /\ m.repeats = saved.repeats /\ m.digests = saved.digests
      /\ m.verdict = saved.verdict /\ m.assessed = saved.assessed
      /\ m.pending = saved.pending /\ m.unnumbered = saved.unnumbered
    BY DEF Checkpoint
<1>3. c.pending \in Seq(Pending) /\ (m.unnumbered \/ c.batch # saved.batch) \in BOOLEAN
    BY DEF Checkpoint
<1> HIDE DEF m
<1>4. /\ k \in Checkpoint /\ k.answered = m.answered /\ k.skipped = m.skipped
      /\ k.batch = m.batch /\ k.repeats = m.repeats /\ k.digests = m.digests
      /\ k.verdict = m.verdict /\ k.assessed = m.assessed
      /\ k.pending = c.pending /\ k.unnumbered = (m.unnumbered \/ c.batch # saved.batch)
    BY <1>2, <1>3 DEF Checkpoint
<1> QED BY <1>1, <1>2, <1>4

\* A slice that stops keeps the invariant: its memory no longer matters.
LEMMA StopKeeps ==
    ASSUME IInv, TaskAssumption, NEW o \in Outcomes, Stop(o) \/ FaultStop(o)
    PROVE  IInv'
<1>1. /\ pc' = "release" /\ outcome' = o /\ faults' \in 0 .. MaxFaults
      /\ UNCHANGED << cp, iter, got, saved, task, ops, active, booted, effects,
                      retried, decisions >>
    BY DEF Stop, FaultStop, StopWith, Fault, world, TaskAssumption, IInv, TypeOK
<1>2. TypeOK'
    BY <1>1 DEF IInv, TypeOK, Outcomes, Phases
<1>3. WellNamed(saved)' /\ Agrees(saved)'
    BY <1>1 DEF IInv, WellNamed, Agrees, Open, IsAnswered, Unstarted
<1>4. RecordInv' /\ EffectInv'
    BY <1>1 DEF IInv, RecordInv, EffectInv
<1>5. PcInv'
    BY <1>1 DEF PcInv, Working
<1> QED BY <1>2, <1>3, <1>4, <1>5 DEF IInv

LEMMA FreshTyped == ASSUME TaskAssumption PROVE Fresh \in Checkpoint /\ NoAnswer \in Answer
BY DEF Fresh, Checkpoint, Verdict, TaskAssumption, NoAnswer, Answer

\* A save keeps the invariant when what it saves, complete or cut between its
\* lines, agrees with the ledger.
LEMMA SaveKeeps ==
    ASSUME IInv, TaskAssumption,
           NEW c, \A d \in Torn(c) : Sound(d),
           NEW next \in Phases \ {"idle", "start", "release", "began", "ran", "answer"},
           next \in {"model", "review", "more", "deny"} => c.pending = << >>,
           next = "converge" =>
               got.call \in Call /\ (c.pending # << >> => Unstarted(c, c.pending[1].id)),
           SaveStep(c, next)
    PROVE  IInv'
<1>1. /\ UNCHANGED << task, ops, effects, retried, decisions >>
      /\ active' \in BOOLEAN /\ booted' \in BOOLEAN
    BY DEF SaveStep, SaveDies, Die, world, IInv, TypeOK
<1>2. RecordInv' /\ EffectInv'
    BY <1>1 DEF IInv, RecordInv, EffectInv
<1>3. saved' \in Torn(c)
    BY DEF SaveStep, Save, SaveFails, SaveDies, Torn
<1>4. Sound(saved')
    BY <1>3
<1>5. WellNamed(saved)' /\ Agrees(saved)' /\ saved' \in Checkpoint
    BY <1>1, <1>4 DEF Sound, WellNamed, Agrees, Open, IsAnswered, Unstarted
<1>6. CASE Save(c, next)
    <2>1. /\ saved' = c /\ cp' = c /\ pc' = next
          /\ UNCHANGED << outcome, iter, got, faults >>
        BY <1>6 DEF Save
    <2>2. TypeOK'
        BY <1>1, <1>5, <2>1 DEF IInv, TypeOK
    <2>3. PcInv'
        BY <1>1, <2>1 DEF PcInv, Working, Current, Phases, Unstarted, IsAnswered
    <2> QED BY <1>2, <1>5, <2>2, <2>3 DEF IInv
<1>7. CASE SaveFails(c)
    <2>1. /\ pc' = "release" /\ outcome' = "blocked"
          /\ faults' \in 0 .. MaxFaults /\ UNCHANGED << cp, iter, got >>
        BY <1>7 DEF SaveFails, Fault, StopWith, IInv, TypeOK, TaskAssumption
    <2>2. TypeOK'
        BY <1>1, <1>5, <2>1 DEF IInv, TypeOK, Phases
    <2> QED BY <1>2, <1>5, <2>1, <2>2 DEF IInv, PcInv, Working
<1>8. CASE SaveDies(c)
    <2>1. /\ pc' = "idle" /\ outcome' = "none" /\ iter' = 0 /\ cp' = Fresh /\ got' = NoAnswer
          /\ faults' \in 0 .. MaxFaults
        BY <1>8 DEF SaveDies, Die, Fault, IInv, TypeOK, TaskAssumption
    <2>2. TypeOK'
        BY <1>1, <1>5, <2>1, FreshTyped DEF IInv, TypeOK, Phases, TaskAssumption
    <2> QED BY <1>2, <1>5, <2>1, <2>2 DEF IInv, PcInv, Working
<1> QED BY <1>6, <1>7, <1>8 DEF SaveStep

LEMMA InitInv == ASSUME TaskAssumption, Init PROVE IInv
<1>1. Fresh \in Checkpoint
    BY DEF Fresh, Checkpoint, Verdict, TaskAssumption
<1>2. NoOp \in Op /\ NoAnswer \in Answer
    BY DEF NoOp, NoAnswer, Op, OpState, Answer
<1>5. TypeOK
    <2>1. /\ task \in [state : {"ready", "in_progress", "blocked", "done"},
                      attempts : 0 .. MaxSlices, retries : 0 .. MaxRetries]
          /\ faults \in 0 .. MaxFaults /\ decisions \in 0 .. MaxDecisions
          /\ iter \in 0 .. MaxIterations
        BY DEF Init, TaskAssumption
    <2>2. /\ ops \in [OpId -> Op] /\ saved \in Checkpoint /\ cp \in Checkpoint
          /\ got \in Answer
        BY <1>1, <1>2 DEF Init
    <2>3. /\ pc \in Phases /\ outcome \in Outcomes
          /\ active \in BOOLEAN /\ booted \in BOOLEAN
          /\ effects \in [OpId -> Nat] /\ retried \in [OpId -> Nat]
        BY DEF Init, Phases, Outcomes
    <2> QED BY <2>1, <2>2, <2>3 DEF TypeOK, Outcomes
<1>3. WellNamed(saved) /\ Agrees(saved)
    BY DEF Init, Fresh, WellNamed, Agrees, NoOp
<1>4. RecordInv /\ EffectInv /\ PcInv
    BY DEF Init, RecordInv, EffectInv, PcInv, NoOp, Working, TaskAssumption
<1> QED BY <1>3, <1>4, <1>5 DEF IInv

-----------------------------------------------------------------------------
\* Lemmas about what the loop does to the calls of its checkpoint.

\* A new batch is named after a number no call had before.
LEMMA NewBatch ==
    ASSUME IInv, TaskAssumption, saved.pending = << >>, saved.batch < MaxBatch,
           NEW calls \in Batches, NEW c,
           c.batch = saved.batch + 1, c.pending = Named(saved.batch + 1, calls),
           c.answered = saved.answered, c.repeats = saved.repeats,
           c.unnumbered = saved.unnumbered
    PROVE  /\ c.pending \in Seq(Pending) /\ WellNamed(c) /\ Agrees(c)
           /\ c \in Checkpoint => \A d \in Torn(c) : Sound(d)
<1> DEFINE b == saved.batch + 1
<1>1. b \in 1 .. MaxBatch /\ saved.answered \subseteq Pending
    <2>1. saved \in Checkpoint
        BY DEF IInv, TypeOK
    <2>2. saved.batch \in 0 .. MaxBatch /\ saved.answered \subseteq Pending
        BY <2>1 DEF Checkpoint
    <2> QED BY <2>2 DEF TaskAssumption
<1>2. PICK n \in 1 .. MaxCalls : calls \in [1 .. n -> Call]
    BY DEF Batches
<1>3. /\ c.pending = [j \in 1 .. n |-> [id |-> << b, j >>, call |-> calls[j]]]
      /\ c.pending \in [1 .. n -> Pending] /\ n \in Nat /\ n \in 1 .. MaxCalls
    BY <1>1, <1>2 DEF Named, Pending, OpId, TaskAssumption
<1>4. c.pending \in Seq(Pending) /\ Len(c.pending) = n
    BY <1>3
<1>5. \A i \in OpId : ops[i].state # "absent" => IsAnswered(saved, i)
    BY DEF IInv, Agrees, Open
<1>6. \A j \in 1 .. n : /\ c.pending[j].id \in OpId /\ c.pending[j].id[1] = b
                        /\ c.pending[j].id[2] = j
    BY <1>1, <1>3 DEF OpId
<1>7. WellNamed(c)
    <2>1. \A a \in c.answered : /\ a.id[1] \in Int
                                /\ ~ c.unnumbered => a.id[1] <= saved.batch
        BY <1>1 DEF IInv, WellNamed, Pending, OpId
    <2>2. saved.batch \in Int
        BY DEF IInv, TypeOK, Checkpoint
    <2> QED BY <1>4, <1>6, <2>1, <2>2, SMTT(20) DEF WellNamed
<1>8. ASSUME NEW d, d.answered = c.answered, d.pending = c.pending, d.repeats = c.repeats,
             d.unnumbered \in BOOLEAN, c.unnumbered => d.unnumbered
      PROVE  Agrees(d)
    <2>1. \A i \in OpId : ops[i].state # "absent" => IsAnswered(d, i)
        BY <1>5, <1>8 DEF IsAnswered
    <2>2. c.pending[1].id \in OpId /\ c.pending[1].id[1] = saved.batch + 1
        BY <1>3, <1>6
    <2>3. ~ d.unnumbered => ops[c.pending[1].id].state = "absent"
        <3>1. \A a \in saved.answered : ~ d.unnumbered => a.id[1] <= saved.batch /\ a.id[1] \in Int
            BY <1>1, <1>8 DEF IInv, WellNamed, Pending, OpId
        <3>2. saved.batch \in Int
            BY DEF IInv, TypeOK, Checkpoint
        <3>3. \A a \in saved.answered : ~ d.unnumbered => a.id # c.pending[1].id
            BY <2>2, <3>1, <3>2
        <3> QED BY <1>5, <2>2, <3>3 DEF IsAnswered
    <2>4. Unstarted(d, c.pending[1].id)
        BY <1>8, <2>1, <2>2, <2>3 DEF Unstarted
    <2> QED BY <1>8, <2>1, <2>4 DEF IInv, Agrees
<1>9. c.unnumbered \in BOOLEAN
    BY DEF IInv, TypeOK, Checkpoint
<1>10. ASSUME c \in Checkpoint, NEW d \in Torn(c) PROVE Sound(d)
    <2>1. CASE d = saved
        BY <2>1 DEF Sound, IInv, TypeOK
    <2>2. CASE d = c
        BY <1>7, <1>8, <1>9, <1>10, <2>2 DEF Sound
    <2>3. CASE d # saved /\ d # c
        <3>1. saved \in Checkpoint
            BY DEF IInv, TypeOK
        <3>2. d \in Checkpoint
            BY <1>10, <2>3, <3>1, TornLines
        <3>3. CASE d.pending = saved.pending /\ d.unnumbered = saved.unnumbered
            <4>1. WellNamed(d) /\ Agrees(d)
                BY <1>10, <2>3, <3>1, <3>3, TornLines, SameCalls DEF IInv
            <4> QED BY <3>2, <4>1 DEF Sound
        <3>4. CASE d.pending = c.pending /\ d.unnumbered
            <4>1. d.answered = c.answered /\ d.repeats = c.repeats
                BY <1>10, <2>3, <3>1, TornLines
            <4>2. Agrees(d)
                BY <1>8, <3>4, <4>1
            <4>3. WellNamed(d)
                BY <1>7, <3>4 DEF WellNamed
            <4> QED BY <3>2, <4>2, <4>3 DEF Sound
        <3>5. c.batch # saved.batch
            BY DEF IInv, TypeOK, Checkpoint
        <3> QED BY <1>10, <2>3, <3>1, <3>3, <3>4, <3>5, TornLines
    <2> QED BY <2>1, <2>2, <2>3
<1> QED BY <1>4, <1>7, <1>8, <1>9, <1>10

\* Dropping the head keeps the names consistent; the head is unlike the rest.
LEMMA DropHead ==
    ASSUME IInv, TaskAssumption, saved.pending # << >>, NEW c,
           c.pending = Tail(saved.pending), c.batch = saved.batch,
           c.unnumbered = saved.unnumbered,
           c.answered \in {saved.answered, saved.answered \cup {Head(saved.pending)}}
    PROVE  /\ c.pending \in Seq(Pending) /\ WellNamed(c)
           /\ Head(saved.pending) \in Pending
           /\ Head(saved.pending) = saved.pending[1]
           /\ c.pending # << >> => 1 \in 1 .. Len(c.pending)
           /\ \A j \in 1 .. Len(c.pending) :
                 /\ c.pending[j].id # saved.pending[1].id /\ c.pending[j].id \in OpId
                 /\ ~ saved.unnumbered => \A a \in saved.answered : a.id # c.pending[j].id
<1>1. saved.pending \in Seq(Pending) /\ saved.answered \subseteq Pending /\ WellNamed(saved)
    BY DEF IInv, TypeOK, Checkpoint
<1> DEFINE s == saved.pending
           t == c.pending
<1>2. /\ t \in Seq(Pending) /\ Len(t) = Len(s) - 1 /\ Len(s) \in Nat /\ Len(s) >= 1
      /\ \A j \in 1 .. Len(t) : t[j] = s[j + 1] /\ j + 1 \in 1 .. Len(s)
      /\ Head(s) = s[1] /\ s[1] \in Pending
    <2>1. s \in Seq(Pending) /\ s # << >> /\ t = Tail(s)
        BY <1>1
    <2> HIDE DEF s, t
    <2> QED BY <2>1
<1>3. \A j \in 1 .. Len(s) : /\ s[j].id \in OpId
                             /\ s[j].id[1] \in Int /\ s[j].id[2] \in Int
    <2>1. \A p \in Pending : p.id \in OpId /\ p.id[1] \in Int /\ p.id[2] \in Int
        BY DEF Pending, OpId
    <2>2. \A j \in 1 .. Len(s) : s[j] \in Pending
        BY <1>1
    <2> QED BY <2>1, <2>2
<1>4. \A j \in 1 .. Len(t) : t[j].id[2] > s[1].id[2] /\ t[j].id \in OpId
    BY <1>1, <1>2, <1>3 DEF WellNamed
<1>9. ~ c.unnumbered => \A j \in 1 .. Len(t) : t[j].id[1] = c.batch
    BY <1>1, <1>2 DEF WellNamed
<1>5. \A j \in 1 .. Len(t) : t[j].id # s[1].id
    BY <1>2, <1>3, <1>4
<1>6. ~ saved.unnumbered =>
         \A a \in saved.answered, j \in 1 .. Len(t) : a.id # t[j].id
    <2> SUFFICES ASSUME ~ saved.unnumbered, NEW a \in saved.answered, NEW j \in 1 .. Len(t)
                 PROVE a.id # t[j].id
        OBVIOUS
    <2>1. t[j] = s[j + 1] /\ j + 1 \in 1 .. Len(s) /\ j + 1 # 1
        BY <1>2
    <2>2. \A k \in 1 .. Len(s) : a.id = s[k].id => k = 1
        BY <1>1 DEF WellNamed
    <2> QED BY <2>1, <2>2
<1>7. WellNamed(c)
    <2>1. \A j, k \in 1 .. Len(t) : j < k => t[j].id[2] < t[k].id[2]
        BY <1>1, <1>2 DEF WellNamed
    <2>2. ~ c.unnumbered => \A a \in c.answered : a.id[1] <= c.batch
        BY <1>1, <1>2, <1>3 DEF WellNamed
    <2>3. ~ c.unnumbered => \A a \in c.answered, j \in 1 .. Len(t) : a.id # t[j].id
        <3> SUFFICES ASSUME ~ saved.unnumbered, NEW a \in c.answered, NEW j \in 1 .. Len(t)
                     PROVE a.id # t[j].id
            OBVIOUS
        <3>1. a \in saved.answered \/ a = s[1]
            BY <1>2
        <3> QED BY <1>5, <1>6, <3>1
    <2>4. /\ ~ c.unnumbered => \A j \in 1 .. Len(c.pending) : c.pending[j].id[1] = c.batch
          /\ \A j, k \in 1 .. Len(c.pending) : j < k => c.pending[j].id[2] < c.pending[k].id[2]
          /\ ~ c.unnumbered => \A a \in c.answered, j \in 1 .. Len(c.pending) :
                                 a.id # c.pending[j].id
        BY <1>9, <2>1, <2>3
    <2> HIDE DEF t
    <2> QED BY <2>2, <2>4 DEF WellNamed
<1>8. t # << >> => 1 \in 1 .. Len(t)
    BY <1>2
<1> QED BY <1>2, <1>4, <1>5, <1>6, <1>7, <1>8

-----------------------------------------------------------------------------
\* One lemma per part of Next.

\* Phases a step may enter without having an operation in hand.
Plain == Phases \ {"idle", "start", "release", "began", "ran", "answer", "converge"}

\* Entering a plain phase keeps the invariant.
LEMMA GotoKeeps ==
    ASSUME IInv, TaskAssumption, Working, NEW next \in Plain, NEW n \in 0 .. MaxIterations,
           next \in {"model", "review", "more", "deny"} => cp.pending = << >>,
           pc' = next, iter' = n,
           UNCHANGED << cp, got, outcome, saved, faults, task, ops, active, booted,
                        effects, retried, decisions >>
    PROVE  IInv'
<1>1. TypeOK'
    BY DEF IInv, TypeOK, Plain
<1>2. WellNamed(saved)' /\ Agrees(saved)'
    BY DEF IInv, WellNamed, Agrees, Open, IsAnswered, Unstarted
<1>3. RecordInv' /\ EffectInv'
    BY DEF IInv, RecordInv, EffectInv
<1>4. PcInv'
    BY DEF IInv, PcInv, Plain, Working, Phases
<1> QED BY <1>1, <1>2, <1>3, <1>4 DEF IInv

\* A checkpoint whose calls are the saved ones agrees with the ledger, and so does
\* what is left of its save.
LEMMA ScalarSound ==
    ASSUME IInv, NEW c \in Checkpoint,
           c.pending = saved.pending, c.answered = saved.answered,
           c.batch = saved.batch, c.unnumbered = saved.unnumbered,
           c.repeats = saved.repeats \/ (WellNamed(c) /\ Agrees(c))
    PROVE  \A d \in Torn(c) : Sound(d)
<1>1. saved \in Checkpoint /\ WellNamed(saved) /\ Agrees(saved)
    BY DEF IInv, TypeOK
<1>2. WellNamed(c) /\ Agrees(c)
    BY <1>1, SameCalls
<1>3. ASSUME NEW d \in Torn(c), d # saved, d # c PROVE Sound(d)
    <2>1. saved.unnumbered \in BOOLEAN
        BY <1>1 DEF Checkpoint
    <2>2. /\ d \in Checkpoint /\ d.pending = saved.pending /\ d.answered = saved.answered
          /\ d.batch = saved.batch /\ d.repeats = saved.repeats
          /\ d.unnumbered = saved.unnumbered
        BY <1>1, <1>3, <2>1, TornLines
    <2> QED BY <1>1, <2>2, SameCalls DEF Sound
<1> QED BY <1>1, <1>2, <1>3 DEF Sound

\* Saving changed scalar fields keeps the invariant.
LEMMA ScalarSaveKeeps ==
    ASSUME IInv, TaskAssumption, NEW c \in Checkpoint, NEW next \in Plain,
           c.pending = saved.pending, c.answered = saved.answered,
           c.batch = saved.batch, c.unnumbered = saved.unnumbered,
           c.repeats = saved.repeats,
           next \in {"model", "review", "more", "deny"} => c.pending = << >>,
           SaveStep(c, next)
    PROVE  IInv'
<1>1. \A d \in Torn(c) : Sound(d)
    BY ScalarSound
<1> QED BY <1>1, SaveKeeps DEF Plain

\* Updating fields with values of their type yields a checkpoint.
LEMMA CheckpointUpdates ==
    ASSUME NEW d \in Checkpoint, NEW b \in 0 .. MaxBatch, NEW p \in Seq(Pending),
           NEW k \in BOOLEAN, NEW n \in 0 .. RepeatLimit
    PROVE  /\ [d EXCEPT !.batch = b, !.candidate = k, !.pending = p] \in Checkpoint
           /\ [d EXCEPT !.batch = b, !.stalls = n, !.pending = p] \in Checkpoint
           /\ [d EXCEPT !.stalls = n] \in Checkpoint
           /\ [d EXCEPT !.noProgress = n] \in Checkpoint
           /\ [d EXCEPT !.candidate = k, !.stalls = n] \in Checkpoint
BY DEF Checkpoint

\* The bounds are numbers.
LEMMA Bounds ==
    ASSUME TaskAssumption
    PROVE  /\ MaxBatch \in Nat /\ MaxIterations \in Nat /\ MaxSlices \in Nat
           /\ MaxRetries \in Nat /\ MaxFaults \in Nat /\ MaxDecisions \in Nat
           /\ RepeatLimit \in Nat /\ RepeatLimit > 0
BY DEF TaskAssumption

LEMMA LoopKeeps == ASSUME IInv, TaskAssumption, LoopStep PROVE IInv'
<1> DEFINE Quiet == UNCHANGED << task, ops, active, booted, effects, retried, decisions >>
<1>1. /\ saved \in Checkpoint /\ iter \in 0 .. MaxIterations
      /\ \A n \in 0 .. RepeatLimit : Bump(n) \in 0 .. RepeatLimit
      /\ saved.stalls \in 0 .. RepeatLimit /\ saved.noProgress \in 0 .. RepeatLimit
    <2>1. saved \in Checkpoint /\ iter \in 0 .. MaxIterations
        BY DEF IInv, TypeOK
    <2>2. saved.stalls \in 0 .. RepeatLimit /\ saved.noProgress \in 0 .. RepeatLimit
        BY <2>1 DEF Checkpoint
    <2>3. \A n \in 0 .. RepeatLimit : Bump(n) \in 0 .. RepeatLimit
        BY DEF Bump, TaskAssumption
    <2> QED BY <2>1, <2>2, <2>3
<1>2. Working => cp = saved
    BY DEF IInv, PcInv
<1>3. CASE OutOfIterations \/ ReturnAfterSave
    BY <1>3, StopKeeps DEF OutOfIterations, ReturnAfterSave, Outcomes
<1>4. CASE NextIteration
    <2>1. iter - 1 \in 0 .. MaxIterations
        BY <1>1, <1>4 DEF NextIteration, TaskAssumption
    <2> QED BY <1>4, <2>1, GotoKeeps DEF NextIteration, world, Plain, Phases, Working
<1>5. CASE Interrupted
    BY <1>5, StopKeeps DEF Interrupted, Outcomes
<1>6. CASE ResumeVerified
    <2>1. CASE ProofHolds(cp.assessed)
        BY <1>1, <1>6, <2>1, GotoKeeps DEF ResumeVerified, Goto, world, Plain, Phases, Working
    <2>2. CASE ~ ProofHolds(cp.assessed)
        <3> DEFINE c == [saved EXCEPT !.verdict = "none", !.assessed = {}]
        <3>1. /\ c \in Checkpoint /\ c.pending = saved.pending /\ c.answered = saved.answered
              /\ c.batch = saved.batch /\ c.repeats = saved.repeats
              /\ c.unnumbered = saved.unnumbered
            BY <1>1 DEF Checkpoint, Verdict
        <3>2. SaveStep(c, "head")
            BY <1>2, <1>6, <2>2 DEF ResumeVerified, Working
        <3> QED BY <3>1, <3>2, ScalarSaveKeeps DEF Plain, Phases
    <2> QED BY <2>1, <2>2
<1>7. CASE RoutePending \/ RouteCandidate \/ RouteModel
    BY <1>1, <1>7, GotoKeeps
    DEF RoutePending, RouteCandidate, RouteModel, Unverified, Goto, world, Plain, Phases, Working
<1>8. CASE GateAsksForTools
    <2>1. PICK calls \in Batches :
             SaveStep([cp EXCEPT !.batch = @ + 1, !.candidate = FALSE,
                                 !.pending = Named(cp.batch + 1, calls)], "loop")
        BY <1>8 DEF GateAsksForTools
    <2> DEFINE c == [saved EXCEPT !.batch = @ + 1, !.candidate = FALSE,
                                  !.pending = Named(saved.batch + 1, calls)]
    <2>2. cp = saved /\ saved.pending = << >> /\ saved.batch < MaxBatch
        BY <1>2, <1>8 DEF GateAsksForTools, GateApplies, Unverified, Working
    <2>3. /\ c.batch = saved.batch + 1 /\ c.pending = Named(saved.batch + 1, calls)
          /\ c.answered = saved.answered /\ c.repeats = saved.repeats
          /\ c.unnumbered = saved.unnumbered
        BY <1>1 DEF Checkpoint
    <2>4. /\ c.pending \in Seq(Pending)
          /\ c \in Checkpoint => \A d \in Torn(c) : Sound(d)
        BY <2>2, <2>3, NewBatch
    <2>5. c \in Checkpoint
        <3>1. saved.batch + 1 \in 0 .. MaxBatch
            <4>1. saved.batch \in 0 .. MaxBatch
                BY <1>1 DEF Checkpoint
            <4> QED BY <2>2, <4>1, Bounds
        <3>2. 0 \in 0 .. RepeatLimit
            BY DEF TaskAssumption
        <3> DEFINE b == saved.batch + 1
                   p == Named(b, calls)
        <3>3. p \in Seq(Pending)
            BY <2>3, <2>4
        <3> HIDE DEF p, b
        <3>4. \A k \in BOOLEAN :
                 /\ [saved EXCEPT !.batch = b, !.candidate = k, !.pending = p] \in Checkpoint
                 /\ [saved EXCEPT !.batch = b, !.stalls = 0, !.pending = p] \in Checkpoint
            BY <1>1, <3>1, <3>2, <3>3, CheckpointUpdates DEF b
        <3> QED BY <3>4 DEF b, p
    <2> QED BY <2>1, <2>2, <2>4, <2>5, SaveKeeps DEF Phases
<1>9. CASE GateAsksForSynthesis
    <2> DEFINE c == [saved EXCEPT !.candidate = FALSE, !.synthesis = TRUE]
    <2>1. /\ c \in Checkpoint /\ c.pending = saved.pending /\ c.answered = saved.answered
          /\ c.batch = saved.batch /\ c.repeats = saved.repeats
          /\ c.unnumbered = saved.unnumbered
        BY <1>1 DEF Checkpoint
    <2>2. SaveStep(c, "model") /\ saved.pending = << >>
        BY <1>2, <1>9 DEF GateAsksForSynthesis, GateApplies, Unverified, Working
    <2> QED BY <2>1, <2>2, ScalarSaveKeeps DEF Plain, Phases
<1>10. CASE ProviderFails
    BY <1>10, StopKeeps DEF ProviderFails, Outcomes
<1>11. CASE ModelAsksForTools
    <2>1. PICK calls \in Batches :
             AfterReply([cp EXCEPT !.batch = @ + 1, !.stalls = 0,
                                   !.pending = Named(cp.batch + 1, calls)])
        BY <1>11 DEF ModelAsksForTools
    <2> DEFINE c == [saved EXCEPT !.batch = @ + 1, !.stalls = 0,
                                  !.pending = Named(saved.batch + 1, calls)]
    <2>2. cp = saved /\ saved.pending = << >> /\ saved.batch < MaxBatch
        BY <1>2, <1>11, <2>1 DEF ModelAsksForTools, AfterReply, Working, IInv, PcInv
    <2>3. /\ c.batch = saved.batch + 1 /\ c.pending = Named(saved.batch + 1, calls)
          /\ c.answered = saved.answered /\ c.repeats = saved.repeats
          /\ c.unnumbered = saved.unnumbered
        BY <1>1 DEF Checkpoint
    <2>4. /\ c.pending \in Seq(Pending)
          /\ c \in Checkpoint => \A d \in Torn(c) : Sound(d)
        BY <2>2, <2>3, NewBatch
    <2>5. c \in Checkpoint
        <3>1. saved.batch + 1 \in 0 .. MaxBatch
            <4>1. saved.batch \in 0 .. MaxBatch
                BY <1>1 DEF Checkpoint
            <4> QED BY <2>2, <4>1, Bounds
        <3>2. 0 \in 0 .. RepeatLimit
            BY DEF TaskAssumption
        <3> DEFINE b == saved.batch + 1
                   p == Named(b, calls)
        <3>3. p \in Seq(Pending)
            BY <2>3, <2>4
        <3> HIDE DEF p, b
        <3>4. \A k \in BOOLEAN :
                 /\ [saved EXCEPT !.batch = b, !.candidate = k, !.pending = p] \in Checkpoint
                 /\ [saved EXCEPT !.batch = b, !.stalls = 0, !.pending = p] \in Checkpoint
            BY <1>1, <3>1, <3>2, <3>3, CheckpointUpdates DEF b
        <3> QED BY <3>4 DEF b, p
    <2>6. PICK next \in {"yielding", "blocking", "loop"} : SaveStep(c, next)
        BY <2>1, <2>2 DEF AfterReply
    <2> QED BY <2>4, <2>5, <2>6, SaveKeeps DEF Phases
<1>12. CASE ModelStalls \/ AnswerRefused \/ AnswerProposed \/ ObserveOnlyLimit
    <2>1. PICK c \in {[saved EXCEPT !.stalls = Bump(@)], [saved EXCEPT !.noProgress = Bump(@)],
                      [saved EXCEPT !.candidate = TRUE, !.stalls = 0], saved},
               next \in {"yielding", "blocking", "loop"} : SaveStep(c, next)
        BY <1>2, <1>12 DEF ModelStalls, AnswerRefused, AnswerProposed, ObserveOnlyLimit,
                           AfterReply, Working
    <2>2. c \in Checkpoint
        <3>1. /\ [saved EXCEPT !.stalls = Bump(@)] \in Checkpoint
              /\ [saved EXCEPT !.noProgress = Bump(@)] \in Checkpoint
            <4>1. Bump(saved.stalls) \in 0 .. RepeatLimit /\ Bump(saved.noProgress) \in 0 .. RepeatLimit
                BY <1>1
            <4> QED BY <1>1, <4>1 DEF Checkpoint
        <3>2. [saved EXCEPT !.candidate = TRUE, !.stalls = 0] \in Checkpoint
            <4>1. 0 \in 0 .. RepeatLimit
                BY Bounds
            <4> QED BY <1>1, <4>1 DEF Checkpoint
        <3> QED BY <1>1, <3>1, <3>2
    <2>3. /\ c.pending = saved.pending /\ c.answered = saved.answered
          /\ c.batch = saved.batch /\ c.repeats = saved.repeats
          /\ c.unnumbered = saved.unnumbered
        BY <1>1 DEF Checkpoint
    <2> QED BY <2>1, <2>2, <2>3, ScalarSaveKeeps DEF Plain, Phases
<1> QED BY <1>3, <1>4, <1>5, <1>6, <1>7, <1>8, <1>9, <1>10, <1>11, <1>12 DEF LoopStep

LEMMA ReviewKeeps == ASSUME IInv, TaskAssumption, ReviewStep PROVE IInv'
<1>1. saved \in Checkpoint /\ iter \in 0 .. MaxIterations /\ (Working => cp = saved)
    BY DEF IInv, TypeOK, PcInv
<1>2. UnresolvedFailures \in SUBSET OpId
    BY DEF UnresolvedFailures, Recorded
<1>3. ASSUME NEW s \in SUBSET OpId, cp = saved, SaveStep(Verified(s), "finish") PROVE IInv'
    <2> DEFINE c == [saved EXCEPT !.verdict = "complete", !.assessed = s]
    <2>1. /\ c \in Checkpoint /\ c.pending = saved.pending /\ c.answered = saved.answered
          /\ c.batch = saved.batch /\ c.repeats = saved.repeats
          /\ c.unnumbered = saved.unnumbered
        BY <1>1 DEF Checkpoint, Verdict
    <2>2. SaveStep(c, "finish")
        BY <1>3 DEF Verified
    <2> QED BY <2>1, <2>2, ScalarSaveKeeps DEF Plain, Phases
<1>4. CASE DirectResponse \/ LedgerShortcut
    BY <1>1, <1>3, <1>4 DEF DirectResponse, LedgerShortcut, Working
<1>5. CASE Review
    <2>1. cp = saved /\ saved.pending = << >>
        BY <1>1, <1>5 DEF Review, IInv, PcInv, Working
    <2>2. CASE Stop("blocked")
        BY <2>2, StopKeeps DEF Outcomes
    <2>3. CASE SaveStep(Verified(UnresolvedFailures), "finish")
        BY <1>2, <1>3, <2>1, <2>3
    <2>4. ASSUME NEW next \in {"more", "deny"},
                 SaveStep([cp EXCEPT !.verdict = "other"], next)
          PROVE  IInv'
        <3> DEFINE c == [saved EXCEPT !.verdict = "other"]
        <3>1. /\ c \in Checkpoint /\ c.pending = saved.pending /\ c.answered = saved.answered
              /\ c.batch = saved.batch /\ c.repeats = saved.repeats
              /\ c.unnumbered = saved.unnumbered
            BY <1>1 DEF Checkpoint, Verdict
        <3>2. SaveStep(c, next)
            BY <2>1, <2>4
        <3> QED BY <2>1, <3>1, <3>2, ScalarSaveKeeps DEF Plain, Phases
    <2> QED BY <1>5, <2>2, <2>3, <2>4 DEF Review
<1>6. CASE WithdrawCandidate
    <2> DEFINE c == [saved EXCEPT !.candidate = FALSE, !.verdict = "none"]
    <2>1. PICK next \in {"loop", "blocking"} : SaveStep(c, next)
        BY <1>1, <1>6 DEF WithdrawCandidate, Working
    <2>2. /\ c \in Checkpoint /\ c.pending = saved.pending /\ c.answered = saved.answered
          /\ c.batch = saved.batch /\ c.repeats = saved.repeats
          /\ c.unnumbered = saved.unnumbered
        BY <1>1 DEF Checkpoint, Verdict
    <2> QED BY <2>1, <2>2, ScalarSaveKeeps DEF Plain, Phases
<1>7. CASE FinishLoop
    <2>1. CASE Stop("blocked") \/ FaultStop("blocked")
        BY <2>1, StopKeeps DEF Outcomes
    <2>2. CASE SaveStep(cp, "finished") /\ cp = saved
        BY <1>1, <2>2, ScalarSaveKeeps DEF Plain, Phases
    <2> QED BY <1>1, <1>7, <2>1, <2>2 DEF FinishLoop, Working
<1>8. CASE ReportDone
    BY <1>8, StopKeeps DEF ReportDone, Outcomes
<1> QED BY <1>4, <1>5, <1>6, <1>7, <1>8 DEF ReviewStep

\* What the invariant says of the next call, the only one that can be open.
LEMMA NextCall ==
    ASSUME IInv, Working, cp.pending # << >>
    PROVE  /\ cp = saved /\ Current = saved.pending[1] /\ Current \in Pending
           /\ Current.id \in OpId /\ Current.call \in Call
           /\ ops[Current.id].state \in {"started", "retry"} =>
                 ops[Current.id].call = Current.call
           /\ ops[Current.id].state = "completed" /\ ~ saved.unnumbered =>
                 ops[Current.id].call = Current.call
           /\ \A i \in OpId : ops[i].state # "absent" /\ i # Current.id => IsAnswered(saved, i)
<1>1. cp = saved /\ saved.pending \in Seq(Pending) /\ saved.pending # << >>
    BY DEF IInv, PcInv, TypeOK, Checkpoint
<1>2. Current = saved.pending[1] /\ Current \in Pending /\ 1 \in 1 .. Len(saved.pending)
    BY <1>1 DEF Current
<1>3. Current.id \in OpId /\ Current.call \in Call
    BY <1>2 DEF Pending
<1>4. \A i \in OpId : ops[i].state # "absent" =>
         \/ IsAnswered(saved, i)
         \/ i = Current.id /\ ops[i].call = Current.call
    BY <1>2 DEF IInv, Agrees, Open
<1>5. ops[Current.id].state = "completed" /\ ~ saved.unnumbered =>
         ops[Current.id].call = Current.call
    <2>1. ASSUME NEW a \in saved.answered, a.id = Current.id, ~ saved.unnumbered
          PROVE  ops[Current.id].call = Current.call
        <3>1. a = Current
            BY <1>2, <2>1 DEF IInv, WellNamed
        <3> QED BY <2>1, <3>1 DEF IInv, Agrees
    <2> QED BY <1>3, <1>4, <2>1 DEF IsAnswered
<1> QED BY <1>1, <1>2, <1>3, <1>4, <1>5 DEF IsAnswered

\* Rewriting the record of the next call keeps ledger and transcript in step.
LEMMA RecordChange ==
    ASSUME IInv, saved.pending # << >>, saved.pending[1].call \notin saved.repeats,
           ops[saved.pending[1].id].state # "completed",
           NEW r \in Op, r.state # "absent", r.call = saved.pending[1].call,
           r.state = "completed" <=> r.result # None,
           ops' = [ops EXCEPT ![saved.pending[1].id] = r],
           saved' = saved, effects' = effects,
           retried' = retried \/ retried' = [retried EXCEPT ![saved.pending[1].id] = @ + 1],
           r.call \notin ReplaySafe =>
               /\ effects[saved.pending[1].id] <= 1 + retried'[saved.pending[1].id]
               /\ r.state = "retry" =>
                     effects[saved.pending[1].id] <= retried'[saved.pending[1].id]
    PROVE  /\ ops' \in [OpId -> Op] /\ retried' \in [OpId -> Nat]
           /\ WellNamed(saved)' /\ Agrees(saved)' /\ RecordInv' /\ EffectInv'
<1> DEFINE h == saved.pending[1]
<1>1. /\ saved.pending \in Seq(Pending) /\ ops \in [OpId -> Op]
      /\ effects \in [OpId -> Nat] /\ retried \in [OpId -> Nat]
    BY DEF IInv, TypeOK, Checkpoint
<1>2. h \in Pending /\ 1 \in 1 .. Len(saved.pending)
    BY <1>1
<1>3. h.id \in OpId /\ h.call \in Call
    BY <1>2 DEF Pending
<1>4. \A a \in saved.answered : a.id # h.id /\ a.id \in OpId
    BY <1>2, SMTT(20) DEF IInv, Agrees, TypeOK, Checkpoint, Pending
<1>5. /\ ops' \in [OpId -> Op] /\ retried' \in [OpId -> Nat]
      /\ ops'[h.id] = r /\ \A i \in OpId : i # h.id => ops'[i] = ops[i] /\ retried'[i] = retried[i]
    BY <1>1, <1>3
<1>6. WellNamed(saved)'
    BY DEF IInv, WellNamed
<1>7. Agrees(saved)'
    <2>1. \A a \in saved.answered : /\ ops'[a.id].state = "completed"
                                    /\ ~ saved.unnumbered => ops'[a.id].call = a.call
        BY <1>4, <1>5 DEF IInv, Agrees
    <2>2. \A i \in OpId : ops'[i].state # "absent" =>
             \/ ops'[i].state = "completed" /\ \E a \in saved.answered : a.id = i
             \/ h.id = i /\ ops'[i].call = h.call
        BY <1>5 DEF IInv, Agrees, Open, IsAnswered
    <2> QED BY <2>1, <2>2 DEF Agrees, Open, IsAnswered
<1>8. RecordInv'
    BY <1>3, <1>5 DEF IInv, RecordInv
<1>9. EffectInv'
    BY <1>3, <1>5 DEF IInv, EffectInv
<1> QED BY <1>5, <1>6, <1>7, <1>8, <1>9

\* What holds at the next call just before its record is rewritten.
LEMMA OpenCall ==
    ASSUME IInv, saved.pending # << >>,
           ops[saved.pending[1].id].state \in {"started", "retry"}
    PROVE  /\ saved.pending[1].call \notin saved.repeats
           /\ ops[saved.pending[1].id].call = saved.pending[1].call
           /\ ops[saved.pending[1].id].result = None
<1>1. saved.pending \in Seq(Pending) /\ 1 \in 1 .. Len(saved.pending)
    BY DEF IInv, TypeOK, Checkpoint
<1>2. saved.pending[1] \in Pending
    BY <1>1
<1>3. saved.pending[1].id \in OpId
    BY <1>2 DEF Pending
<1> QED BY <1>3 DEF IInv, Agrees, Open, IsAnswered, Unstarted, RecordInv

LEMMA BeginKeeps ==
    ASSUME IInv, TaskAssumption, BeginOperation \/ BeginOperationFails PROVE IInv'
<1>1. /\ pc = "exec" /\ cp.pending # << >> /\ Current.call \notin cp.repeats
      /\ ops[Current.id].state \in {"absent", "retry"}
    BY DEF BeginOperation, BeginOperationFails, Reached
<1>2. /\ cp = saved /\ Current = saved.pending[1] /\ Current.id \in OpId /\ Current.call \in Call
      /\ ops[Current.id].state = "retry" => ops[Current.id].call = Current.call
      /\ ops \in [OpId -> Op] /\ effects \in [OpId -> Nat] /\ retried \in [OpId -> Nat]
    BY <1>1, NextCall DEF Working, IInv, TypeOK
<1> DEFINE r == [ops[Current.id] EXCEPT !.state = "started", !.call = Current.call]
<1>3. /\ r \in Op /\ r.state = "started" /\ r.call = Current.call /\ r.result = None
      /\ Intended = [ops EXCEPT ![Current.id] = r]
    <2>1. ops[Current.id] \in Op /\ ops[Current.id].result = None
        BY <1>1, <1>2 DEF IInv, RecordInv
    <2> QED BY <1>2, <2>1 DEF Intended, Op, OpState
<1> HIDE DEF r
<1>4. Current.call \notin ReplaySafe => effects[Current.id] <= retried[Current.id]
    BY <1>1, <1>2 DEF IInv, RecordInv, EffectInv
<1>5. UNCHANGED << cp, saved, task, active, booted, effects, retried, decisions >>
    BY DEF BeginOperation, BeginOperationFails, StopWith, counted
<1>6. CASE ops' = Intended
    <2> DEFINE i == saved.pending[1].id
    <2>1. r.call \notin ReplaySafe => effects[i] <= 1 + retried'[i] /\ effects[i] <= retried'[i]
        <3>1. i \in OpId /\ effects[i] \in Nat /\ retried[i] \in Nat /\ retried' = retried
            BY <1>2, <1>5
        <3>2. r.call \notin ReplaySafe => effects[i] <= retried[i]
            BY <1>2, <1>3, <1>4
        <3> QED BY <3>1, <3>2
    <2>2. /\ ops' \in [OpId -> Op] /\ retried' \in [OpId -> Nat]
          /\ WellNamed(saved)' /\ Agrees(saved)' /\ RecordInv' /\ EffectInv'
        <3>1. /\ saved.pending # << >> /\ saved.pending[1].call \notin saved.repeats
              /\ ops[saved.pending[1].id].state # "completed"
            BY <1>1, <1>2
        <3>3. r.call = saved.pending[1].call
            BY <1>2, <1>3
        <3>4. ops' = [ops EXCEPT ![saved.pending[1].id] = r]
            BY <1>2, <1>3, <1>6
        <3>5. r.call \notin ReplaySafe =>
                    /\ effects[saved.pending[1].id] <= 1 + retried'[saved.pending[1].id]
                    /\ r.state = "retry" =>
                          effects[saved.pending[1].id] <= retried'[saved.pending[1].id]
            BY <2>1
        <3>2. r.state # "absent" /\ (r.state = "completed" <=> r.result # None)
            BY <1>3
        <3> QED BY <1>3, <1>5, <3>1, <3>2, <3>3, <3>4, <3>5, RecordChange
    <2>3. ops'[Current.id].state = "started" /\ Current' = Current
        BY <1>2, <1>3, <1>5, <1>6 DEF Current
    <2>4. PcInv'
        BY <1>1, <1>2, <1>4, <1>5, <2>3
        DEF PcInv, Working, BeginOperation, BeginOperationFails, StopWith
    <2>5. TypeOK'
        BY <1>5, <2>2
        DEF IInv, TypeOK, BeginOperation, BeginOperationFails, StopWith, Fault, Phases, TaskAssumption
    <2> QED BY <2>2, <2>4, <2>5 DEF IInv
<1>7. CASE ops' = ops /\ BeginOperationFails
    <2>1. FaultStop("blocked")
        BY <1>7 DEF BeginOperationFails, FaultStop, counted, world
    <2> QED BY <2>1, StopKeeps DEF Outcomes
<1> QED BY <1>6, <1>7 DEF BeginOperation, BeginOperationFails

LEMMA FinishKeeps ==
    ASSUME IInv, TaskAssumption, FinishOperation \/ FinishOperationFails PROVE IInv'
<1>1. /\ pc = "ran" /\ cp.pending # << >> /\ got.result \in Result
      /\ ops[Current.id].state = "started"
    BY DEF FinishOperation, FinishOperationFails, IInv, PcInv
<1>2. /\ cp = saved /\ Current = saved.pending[1] /\ Current.id \in OpId
      /\ ops \in [OpId -> Op] /\ effects \in [OpId -> Nat] /\ retried \in [OpId -> Nat]
    BY <1>1, NextCall DEF Working, IInv, TypeOK
<1> DEFINE i == saved.pending[1].id
           r == [ops[i] EXCEPT !.state = "completed", !.result = got.result]
<1>3. /\ saved.pending # << >> /\ i \in OpId
      /\ saved.pending[1].call \notin saved.repeats /\ ops[i].call = saved.pending[1].call
      /\ ops[i].state # "completed"
    BY <1>1, <1>2, OpenCall
<1>4. /\ r \in Op /\ r.state = "completed" /\ r.call = ops[i].call /\ r.result = got.result
      /\ Completed(Current.id, got.result) = [ops EXCEPT ![i] = r]
    <2>1. ops[i] \in Op
        BY <1>2, <1>3
    <2> QED BY <1>1, <1>2, <2>1 DEF Completed, Op, OpState
<1> HIDE DEF r
<1>5. UNCHANGED << cp, saved, task, active, booted, effects, retried, decisions >>
    BY DEF FinishOperation, FinishOperationFails, StopWith, counted
<1>6. CASE ops' = Completed(Current.id, got.result)
    <2>1. r.call \notin ReplaySafe => effects[i] <= 1 + retried'[i]
        BY <1>3, <1>4, <1>5 DEF IInv, EffectInv
    <2>2. r.state # "absent" /\ r.state # "retry" /\ (r.state = "completed" <=> r.result # None)
        BY <1>1, <1>4 DEF TaskAssumption
    <2>3. ops' = [ops EXCEPT ![i] = r] /\ r.call = saved.pending[1].call
        BY <1>3, <1>4, <1>6
    <2>4. /\ ops' \in [OpId -> Op] /\ retried' \in [OpId -> Nat]
          /\ WellNamed(saved)' /\ Agrees(saved)' /\ RecordInv' /\ EffectInv'
        BY <1>3, <1>4, <1>5, <2>1, <2>2, <2>3, RecordChange
    <2>5. ops'[Current.id].state = "completed" /\ Current' = Current
        BY <1>2, <1>4, <1>5, <2>3 DEF Current
    <2>6. PcInv'
        BY <1>1, <1>2, <1>5, <2>5
        DEF PcInv, Working, FinishOperation, FinishOperationFails, StopWith
    <2>7. TypeOK'
        BY <1>5, <2>4
        DEF IInv, TypeOK, FinishOperation, FinishOperationFails, StopWith, Fault, Phases, TaskAssumption
    <2> QED BY <2>4, <2>6, <2>7 DEF IInv
<1>7. CASE ops' = ops /\ FinishOperationFails
    <2>1. FaultStop("blocked")
        BY <1>7 DEF FinishOperationFails, FaultStop, counted, world
    <2> QED BY <2>1, StopKeeps DEF Outcomes
<1> QED BY <1>6, <1>7 DEF FinishOperation, FinishOperationFails

\* Running the tool uses up the permission the invariant holds in reserve.
LEMMA RunKeeps ==
    ASSUME IInv, TaskAssumption, RunTool \/ RunInterrupted PROVE IInv'
<1>1. /\ pc = "began" /\ cp.pending # << >> /\ ops[Current.id].state = "started"
      /\ Current.call \notin ReplaySafe => effects[Current.id] <= retried[Current.id]
      /\ effects' = [effects EXCEPT ![Current.id] = @ + 1]
      /\ UNCHANGED << cp, saved, ops, task, active, booted, retried, decisions >>
    BY DEF RunTool, RunInterrupted, StopWith, IInv, PcInv
<1>2. /\ cp = saved /\ Current.id \in OpId /\ Current.call \in Call
      /\ ops[Current.id].call = Current.call
      /\ ops \in [OpId -> Op] /\ effects \in [OpId -> Nat] /\ retried \in [OpId -> Nat]
    BY <1>1, NextCall DEF Working, IInv, TypeOK
<1>3. /\ effects' \in [OpId -> Nat] /\ effects'[Current.id] = effects[Current.id] + 1
      /\ \A i \in OpId : i # Current.id => effects'[i] = effects[i]
    BY <1>1, <1>2
<1>4. WellNamed(saved)' /\ Agrees(saved)'
    BY <1>1 DEF IInv, WellNamed, Agrees, Open, IsAnswered, Unstarted
<1>5. RecordInv'
    BY <1>1, <1>2, <1>3 DEF IInv, RecordInv
<1>6. EffectInv'
    <2>1. ASSUME NEW i \in OpId, ops[i].call \notin ReplaySafe
          PROVE  /\ effects'[i] <= 1 + retried[i]
                 /\ ops[i].state = "retry" => effects'[i] <= retried[i]
        <3>1. CASE i = Current.id
            BY <1>1, <1>2, <1>3, <2>1, <3>1
        <3>2. CASE i # Current.id
            BY <1>3, <2>1, <3>2 DEF IInv, EffectInv
        <3> QED BY <3>1, <3>2
    <2> QED BY <1>1, <2>1 DEF EffectInv
<1>7. FreshAnswers \subseteq Answer /\ \A g \in FreshAnswers : g.result \in Result
    BY <1>2 DEF FreshAnswers, Answer
<1>8. PcInv'
    BY <1>1, <1>2, <1>7 DEF PcInv, Working, RunTool, RunInterrupted, StopWith, Current
<1>9. TypeOK'
    <2>1. /\ got' \in Answer /\ pc' \in {"ran", "release"} /\ iter' = iter
          /\ outcome' \in {outcome, "blocked"} /\ faults' \in 0 .. MaxFaults
        <3>1. got \in Answer /\ faults \in 0 .. MaxFaults
            BY DEF IInv, TypeOK
        <3>2. CASE RunTool
            BY <1>7, <3>1, <3>2 DEF RunTool
        <3>3. CASE RunInterrupted
            BY <3>1, <3>3, Bounds DEF RunInterrupted, StopWith, Fault
        <3> QED BY <3>2, <3>3
    <2> QED BY <1>1, <1>3, <2>1 DEF IInv, TypeOK, Phases
<1> QED BY <1>4, <1>5, <1>6, <1>8, <1>9 DEF IInv

LEMMA AnswerKeeps == ASSUME IInv, TaskAssumption, AnswerCall PROVE IInv'
<1>1. /\ pc = "answer" /\ cp.pending # << >> /\ got.result \in Result
      /\ ops[Current.id].state = "completed"
    BY DEF AnswerCall, IInv, PcInv
<1>2. /\ cp = saved /\ Current = saved.pending[1] /\ Current \in Pending
      /\ Current.id \in OpId /\ Current.call \in Call
      /\ ~ saved.unnumbered => ops[Current.id].call = Current.call
      /\ \A i \in OpId : ops[i].state # "absent" /\ i # Current.id => IsAnswered(saved, i)
    BY <1>1, NextCall DEF Working
<1>3. saved \in Checkpoint /\ got \in Answer /\ WellNamed(saved) /\ Agrees(saved)
    BY DEF IInv, TypeOK
<1> DEFINE c == Answered
<1>4. /\ c.pending = Tail(saved.pending) /\ c.batch = saved.batch
      /\ c.answered = saved.answered \cup {Current} /\ c.repeats = saved.repeats
      /\ c.unnumbered = saved.unnumbered
    BY <1>2, <1>3 DEF Answered, Checkpoint
<1>5. /\ c.pending \in Seq(Pending) /\ WellNamed(c) /\ Head(saved.pending) = Current
      /\ c.pending # << >> => 1 \in 1 .. Len(c.pending)
      /\ \A j \in 1 .. Len(c.pending) :
            /\ c.pending[j].id # Current.id /\ c.pending[j].id \in OpId
            /\ ~ saved.unnumbered => \A a \in saved.answered : a.id # c.pending[j].id
    <2>1. Head(saved.pending) = Current /\ saved.pending # << >>
        BY <1>1, <1>2 DEF Current
    <2>2. c.answered \in {saved.answered, saved.answered \cup {Head(saved.pending)}}
        BY <1>4, <2>1
    <2> HIDE DEF c
    <2> QED BY <1>2, <1>4, <2>1, <2>2, DropHead
<1>6. c.pending # << >> => Unstarted(c, c.pending[1].id)
    <2> HIDE DEF c
    <2> SUFFICES ASSUME c.pending # << >> PROVE Unstarted(c, c.pending[1].id)
        OBVIOUS
    <2>1. /\ c.pending[1].id # Current.id /\ c.pending[1].id \in OpId
          /\ ~ saved.unnumbered => \A a \in saved.answered : a.id # c.pending[1].id
        BY <1>5
    <2>2. ops[c.pending[1].id].state = "absent" \/ IsAnswered(saved, c.pending[1].id)
        BY <1>2, <2>1
    <2>3. IsAnswered(saved, c.pending[1].id) => saved.unnumbered /\ IsAnswered(c, c.pending[1].id)
        BY <1>4, <2>1 DEF IsAnswered
    <2> QED BY <1>4, <2>2, <2>3 DEF Unstarted
<1>12. /\ \A a \in c.answered : /\ ops[a.id].state = "completed"
                                /\ ~ c.unnumbered => ops[a.id].call = a.call
       /\ \A i \in OpId : ops[i].state # "absent" => IsAnswered(c, i)
    BY <1>1, <1>2, <1>3, <1>4 DEF Agrees, IsAnswered
<1>7. Agrees(c)
    BY <1>6, <1>12 DEF Agrees
<1>8. c \in Checkpoint
    <2>1. Bump(saved.noProgress) \in 0 .. RepeatLimit /\ 0 \in 0 .. RepeatLimit
        BY <1>3, Bounds DEF Bump, Checkpoint
    <2>2. c.answered \in SUBSET Pending
        BY <1>2, <1>3, <1>4 DEF Checkpoint
    <2>3. PICK n \in 0 .. RepeatLimit :
             c = [saved EXCEPT !.pending = Tail(@), !.answered = @ \cup {Current},
                               !.digests[Current.call] = got.result, !.noProgress = n]
        BY <1>2, <2>1 DEF Answered
    <2>4. Tail(saved.pending) \in Seq(Pending) /\ saved.answered \cup {Current} \in SUBSET Pending
        BY <1>4, <1>5, <2>2
    <2>5. [saved.digests EXCEPT ![Current.call] = got.result] \in [Call -> Result \cup {None}]
        BY <1>1, <1>3 DEF Checkpoint
    <2> QED BY <1>3, <2>3, <2>4, <2>5 DEF Checkpoint
<1> HIDE DEF c
<1>9. PICK next \in {"exec", "converge", "blocking"} :
         /\ SaveStep(c, next)
         /\ next = "converge" => got.call \in Converging
    BY DEF AnswerCall, CanConverge, c
<1>10. ASSUME NEW d \in Torn(c), d # saved, d # c PROVE Sound(d)
    <2>1. CASE d.pending = saved.pending /\ d.unnumbered = saved.unnumbered
        <3>1. d \in Checkpoint /\ d.answered = c.answered /\ d.repeats = saved.repeats
              /\ d.batch = saved.batch
            BY <1>3, <1>8, <1>10, TornLines
        <3>2. \A j \in 1 .. Len(saved.pending) : saved.pending[j].id = Current.id => j = 1
            <4>1. \A p \in Pending : p.id[2] \in Int
                BY DEF Pending, OpId
            <4>2. saved.pending \in Seq(Pending) /\ 1 \in 1 .. Len(saved.pending)
                BY <1>1, <1>2, <1>3 DEF Checkpoint
            <4>3. \A j \in 1 .. Len(saved.pending) : saved.pending[j].id[2] \in Int
                BY <4>1, <4>2
            <4> QED BY <1>2, <1>3, <4>2, <4>3 DEF WellNamed
        <3>3. WellNamed(d)
            <4>1. ~ saved.unnumbered => \A a \in c.answered : a.id[1] <= saved.batch
                BY <1>4, <1>5 DEF WellNamed
            <4>2. ~ saved.unnumbered =>
                     \A a \in c.answered, j \in 1 .. Len(saved.pending) :
                        a.id = saved.pending[j].id => j = 1 /\ a = saved.pending[1]
                BY <1>2, <1>3, <1>4, <3>2 DEF WellNamed
            <4> QED BY <1>3, <2>1, <3>1, <4>1, <4>2 DEF WellNamed
        <3>4. Agrees(d)
            <4>1. saved.pending[1].call \in saved.repeats => Unstarted(d, saved.pending[1].id)
                BY <1>1, <1>2, <1>3, <1>4, <2>1, <3>1 DEF Agrees, Unstarted, IsAnswered
            <4>2. \A i \in OpId : ops[i].state # "absent" => IsAnswered(d, i)
                BY <1>12, <3>1 DEF IsAnswered
            <4> QED BY <1>12, <1>4, <2>1, <3>1, <4>1, <4>2 DEF Agrees
        <3> QED BY <3>1, <3>3, <3>4 DEF Sound
    <2>2. CASE d.pending = c.pending /\ d.unnumbered = saved.unnumbered
        <3>1. /\ d \in Checkpoint /\ d.answered = c.answered /\ d.repeats = c.repeats
              /\ d.batch = c.batch /\ d.unnumbered = c.unnumbered
            BY <1>3, <1>4, <1>8, <1>10, <2>2, TornLines
        <3> QED BY <1>5, <1>7, <2>2, <3>1, SameCalls DEF Sound
    <2>3. saved.unnumbered \in BOOLEAN /\ c.batch = saved.batch
        BY <1>3, <1>4 DEF Checkpoint
    <2> QED BY <1>3, <1>8, <1>10, <2>1, <2>2, <2>3, TornLines
<1>11. \A d \in Torn(c) : Sound(d)
    BY <1>3, <1>5, <1>7, <1>8, <1>10 DEF Sound
<1> QED BY <1>6, <1>9, <1>11, SaveKeeps DEF Phases, TaskAssumption

LEMMA SkipKeeps == ASSUME IInv, TaskAssumption, SkipRepeated PROVE IInv'
<1>1. pc = "exec" /\ cp.pending # << >> /\ Current.call \in cp.repeats
    BY DEF SkipRepeated
<1>2. /\ cp = saved /\ Current = saved.pending[1] /\ Current \in Pending
      /\ Current.id \in OpId
      /\ \A i \in OpId : ops[i].state # "absent" /\ i # Current.id => IsAnswered(saved, i)
    BY <1>1, NextCall DEF Working
<1>3. /\ saved \in Checkpoint /\ WellNamed(saved) /\ Agrees(saved)
      /\ Unstarted(saved, Current.id)
    BY <1>1, <1>2 DEF IInv, TypeOK, Agrees
<1> DEFINE c == [saved EXCEPT !.pending = Tail(@), !.skipped = @ \cup {Current}]
<1>4. /\ c.pending = Tail(saved.pending) /\ c.batch = saved.batch
      /\ c.answered = saved.answered /\ c.repeats = saved.repeats
      /\ c.unnumbered = saved.unnumbered
    BY <1>3 DEF Checkpoint
<1>5. SaveStep(c, "exec")
    BY <1>2 DEF SkipRepeated
<1>6. /\ c.pending \in Seq(Pending) /\ WellNamed(c)
      /\ c.pending # << >> => 1 \in 1 .. Len(c.pending)
      /\ \A j \in 1 .. Len(c.pending) :
            /\ c.pending[j].id # Current.id /\ c.pending[j].id \in OpId
            /\ ~ saved.unnumbered => \A a \in saved.answered : a.id # c.pending[j].id
    BY <1>1, <1>2, <1>4, DropHead
<1>7. Agrees(c)
    <2> HIDE DEF c
    <2>1. ASSUME c.pending # << >> PROVE Unstarted(c, c.pending[1].id)
        <3>1. /\ c.pending[1].id # Current.id /\ c.pending[1].id \in OpId
              /\ ~ saved.unnumbered => \A a \in saved.answered : a.id # c.pending[1].id
            BY <1>6, <2>1
        <3>2. ops[c.pending[1].id].state = "absent" \/ IsAnswered(saved, c.pending[1].id)
            BY <1>2, <3>1
        <3>3. IsAnswered(saved, c.pending[1].id) =>
                 saved.unnumbered /\ IsAnswered(c, c.pending[1].id)
            BY <1>4, <3>1 DEF IsAnswered
        <3> QED BY <1>4, <3>2, <3>3 DEF Unstarted
    <2>2. \A i \in OpId : ops[i].state # "absent" => IsAnswered(c, i)
        BY <1>2, <1>3, <1>4 DEF Unstarted, IsAnswered
    <2> QED BY <1>3, <1>4, <2>1, <2>2 DEF Agrees
<1>8. c \in Checkpoint
    <2>1. Tail(saved.pending) \in Seq(Pending)
        BY <1>4, <1>6
    <2>2. saved.skipped \cup {Current} \in SUBSET Pending
        BY <1>2, <1>3 DEF Checkpoint
    <2> QED BY <1>3, <2>1, <2>2 DEF Checkpoint
<1> HIDE DEF c
<1>9. ASSUME NEW d \in Torn(c), d # saved, d # c PROVE Sound(d)
    <2>1. /\ d \in Checkpoint /\ d.answered = saved.answered /\ d.repeats = saved.repeats
          /\ d.batch = saved.batch /\ d.unnumbered = saved.unnumbered
          /\ d.pending = saved.pending \/ d.pending = c.pending
        <3>1. saved.unnumbered \in BOOLEAN
            BY <1>3 DEF Checkpoint
        <3> QED BY <1>3, <1>4, <1>8, <1>9, <3>1, TornLines
    <2>2. WellNamed(d) /\ Agrees(d)
        BY <1>3, <1>4, <1>6, <1>7, <2>1, SameCalls
    <2> QED BY <2>1, <2>2 DEF Sound
<1>10. \A d \in Torn(c) : Sound(d)
    BY <1>3, <1>6, <1>7, <1>8, <1>9 DEF Sound
<1> QED BY <1>5, <1>10, SaveKeeps DEF Phases

LEMMA ExecKeeps == ASSUME IInv, TaskAssumption, ExecStep PROVE IInv'
<1>1. /\ saved \in Checkpoint /\ ops \in [OpId -> Op] /\ got \in Answer
      /\ iter \in 0 .. MaxIterations /\ (Working => cp = saved)
    BY DEF IInv, TypeOK, PcInv
<1>2. CASE ExecInterrupted \/ RefuseAmbiguous \/ CancelBeforeRun \/ SessionGone
    BY <1>2, StopKeeps
    DEF ExecInterrupted, RefuseAmbiguous, CancelBeforeRun, SessionGone, Outcomes
<1>3. CASE SkipRepeated
    BY <1>3, SkipKeeps
<1>4. CASE BeginOperation \/ BeginOperationFails
    BY <1>4, BeginKeeps
<1>5. CASE ReplayStarted \/ ReuseCompleted \/ AnswerWithoutRunning
    <2>1. /\ cp.pending # << >> /\ Working /\ pc \in {"exec", "began"}
          /\ UNCHANGED << cp, iter, outcome, saved, faults, task, ops, active, booted,
                          effects, retried, decisions >>
        BY <1>5 DEF ReplayStarted, ReuseCompleted, AnswerWithoutRunning, Reached, Goto, world,
                    Working, IInv, PcInv
    <2>2. /\ cp = saved /\ Current.id \in OpId /\ Current.call \in Call
        BY <2>1, NextCall DEF IInv
    <2>3. WellNamed(saved)' /\ Agrees(saved)' /\ RecordInv' /\ EffectInv'
        <3>1. /\ saved' = saved /\ ops' = ops /\ effects' = effects /\ retried' = retried
              /\ WellNamed(saved) /\ Agrees(saved) /\ RecordInv /\ EffectInv
            BY <2>1 DEF IInv
        <3>2. WellNamed(saved)'
            BY <3>1 DEF WellNamed
        <3>3. Agrees(saved)'
            BY <3>1 DEF Agrees, Open, IsAnswered, Unstarted
        <3>4. RecordInv' /\ EffectInv'
            BY <3>1 DEF RecordInv, EffectInv
        <3> QED BY <3>2, <3>3, <3>4
    <2>4. /\ pc' \in {"began", "answer", "ran"} /\ got' \in Answer
          /\ pc' = "began" => /\ ops[Current.id].state = "started"
                              /\ Current.call \in ReplaySafe
          /\ pc' = "answer" => ops[Current.id].state = "completed" /\ got'.result \in Result
          /\ pc' = "ran" => ops[Current.id].state = "started" /\ got'.result \in Result
        <3>1. CASE ReplayStarted
            BY <1>1, <3>1 DEF ReplayStarted, Reached, Goto
        <3>2. CASE ReuseCompleted
            <4>1. ops[Current.id].state = "completed" /\ ops[Current.id].result \in Result
                BY <1>1, <2>2, <3>2 DEF ReuseCompleted, Reached, IInv, RecordInv, Op
            <4> QED BY <2>2, <3>2, <4>1 DEF ReuseCompleted, Answer
        <3>3. CASE AnswerWithoutRunning
            <4>1. ops[Current.id].state = "started"
                BY <3>3 DEF AnswerWithoutRunning, IInv, PcInv
            <4> QED BY <2>2, <3>3, <4>1 DEF AnswerWithoutRunning, FreshAnswers, Answer
        <3> QED BY <1>5, <3>1, <3>2, <3>3
    <2>5. PcInv'
        BY <2>1, <2>2, <2>4 DEF PcInv, Working, Current
    <2>6. TypeOK'
        BY <2>1, <2>4 DEF IInv, TypeOK, Phases
    <2> QED BY <2>3, <2>5, <2>6 DEF IInv
<1>6. CASE RunTool \/ RunInterrupted
    BY <1>6, RunKeeps
<1>7. CASE FinishOperation \/ FinishOperationFails
    BY <1>7, FinishKeeps
<1>8. CASE AnswerCall
    BY <1>8, AnswerKeeps
<1>9. CASE Converge
    <2> DEFINE c == [saved EXCEPT !.repeats = @ \cup {got.call}, !.noProgress = 0]
    <2>1. SaveStep(c, "exec") /\ got.call \in Call /\ cp = saved
        BY <1>1, <1>9 DEF Converge, Working, IInv, PcInv
    <2>2. saved.pending # << >> => Unstarted(saved, saved.pending[1].id)
        BY <1>1, <1>9, <2>1, NextCall DEF Converge, Working, IInv, PcInv
    <2>3. /\ c.pending = saved.pending /\ c.answered = saved.answered /\ c.batch = saved.batch
          /\ c.unnumbered = saved.unnumbered /\ c \in Checkpoint
        <3>1. saved.repeats \cup {got.call} \in SUBSET Call
            BY <1>1, <2>1 DEF Checkpoint
        <3>2. 0 \in 0 .. RepeatLimit
            BY Bounds
        <3>3. \A r \in SUBSET Call, n \in 0 .. RepeatLimit :
                 [saved EXCEPT !.repeats = r, !.noProgress = n] \in Checkpoint
            BY <1>1 DEF Checkpoint
        <3>4. c \in Checkpoint
            BY <3>1, <3>2, <3>3
        <3>5. /\ c.pending = saved.pending /\ c.answered = saved.answered
              /\ c.batch = saved.batch /\ c.unnumbered = saved.unnumbered
            BY <1>1 DEF Checkpoint
        <3> QED BY <3>4, <3>5
    <2> HIDE DEF c
    <2>4. WellNamed(c) /\ Agrees(c)
        BY <2>2, <2>3 DEF IInv, WellNamed, Agrees, Open, IsAnswered, Unstarted
    <2> QED BY <2>1, <2>3, <2>4, ScalarSound, SaveKeeps DEF Phases
<1>10. CASE BatchDone
    <2>1. CASE cp.repeats = {}
        BY <1>1, <1>10, <2>1, GotoKeeps DEF BatchDone, Goto, world, Plain, Phases, Working
    <2>2. CASE cp.repeats # {}
        <3> DEFINE c == [saved EXCEPT !.repeats = {}]
        <3>1. SaveStep(c, "loop") /\ saved.pending = << >>
            BY <1>1, <1>10, <2>2 DEF BatchDone, Working
        <3>2. /\ c.pending = saved.pending /\ c.answered = saved.answered /\ c.batch = saved.batch
              /\ c.unnumbered = saved.unnumbered /\ c \in Checkpoint
            BY <1>1 DEF Checkpoint
        <3> HIDE DEF c
        <3>3. WellNamed(c) /\ Agrees(c)
            BY <3>1, <3>2 DEF IInv, WellNamed, Agrees, Open, IsAnswered
        <3> QED BY <3>1, <3>2, <3>3, ScalarSound, SaveKeeps DEF Phases
    <2> QED BY <2>1, <2>2
<1> QED BY <1>2, <1>3, <1>4, <1>5, <1>6, <1>7, <1>8, <1>9, <1>10 DEF ExecStep

\* Steps outside the loop's phases leave the calls and the ledger alone.
LEMMA IdleKeeps ==
    ASSUME IInv, TaskAssumption, UNCHANGED << ops, saved, effects, retried >>,
           pc' \in {"idle", "start"}, TypeOK'
    PROVE  IInv'
<1>1. WellNamed(saved)' /\ Agrees(saved)' /\ RecordInv' /\ EffectInv'
    BY DEF IInv, WellNamed, Agrees, Open, IsAnswered, Unstarted, RecordInv, EffectInv
<1>2. PcInv'
    BY DEF PcInv, Working
<1> QED BY <1>1, <1>2 DEF IInv

\* The types of the counters, one fact each.
LEMMA Types ==
    ASSUME IInv, TaskAssumption
    PROVE  /\ task \in [state : {"ready", "in_progress", "blocked", "done"},
                        attempts : 0 .. MaxSlices, retries : 0 .. MaxRetries]
           /\ task.attempts \in 0 .. MaxSlices /\ task.retries \in 0 .. MaxRetries
           /\ faults \in 0 .. MaxFaults /\ decisions \in 0 .. MaxDecisions
           /\ 0 \in 0 .. MaxIterations /\ MaxIterations \in 0 .. MaxIterations
           /\ Fault => faults' \in 0 .. MaxFaults
           /\ Decide => decisions' \in 0 .. MaxDecisions
BY Bounds DEF IInv, TypeOK, Fault, Decide

LEMMA ControlKeeps ==
    ASSUME IInv, TaskAssumption, ClaimSlice \/ LeaveTask \/ StartLoop \/ ReleaseSlice
    PROVE  IInv'
<1>1. CASE ClaimSlice
    <2>1. task' \in [state : {"ready", "in_progress", "blocked", "done"},
                     attempts : 0 .. MaxSlices, retries : 0 .. MaxRetries]
        <3>1. task.attempts + 1 \in 0 .. MaxSlices
            BY <1>1, Types, Bounds DEF ClaimSlice
        <3> QED BY <1>1, <3>1, Types DEF ClaimSlice
    <2>2. TypeOK'
        BY <1>1, <2>1, Types DEF ClaimSlice, counted, IInv, TypeOK, Phases
    <2> QED BY <1>1, <2>2, IdleKeeps DEF ClaimSlice, counted
<1>2. CASE LeaveTask
    <2>1. TypeOK'
        BY <1>2, Types DEF LeaveTask, slice, IInv, TypeOK
    <2> QED BY <1>2, <2>1, IdleKeeps DEF LeaveTask, slice
<1>3. CASE StartLoop
    <2> DEFINE c == [saved EXCEPT !.stalls = 0]
    <2>1. saved \in Checkpoint /\ 0 \in 0 .. RepeatLimit
        BY Bounds DEF IInv, TypeOK
    <2>2. /\ c \in Checkpoint /\ c.pending = saved.pending /\ c.answered = saved.answered
          /\ c.batch = saved.batch /\ c.repeats = saved.repeats
          /\ c.unnumbered = saved.unnumbered
        BY <2>1 DEF Checkpoint
    <2>3. SaveStep(c, "loop")
        BY <1>3 DEF StartLoop
    <2> HIDE DEF c
    <2> QED BY <2>2, <2>3, ScalarSaveKeeps DEF Plain, Phases
<1>4. CASE ReleaseSlice
    <2>1. task' \in [state : {"ready", "in_progress", "blocked", "done"},
                     attempts : 0 .. MaxSlices, retries : 0 .. MaxRetries]
        <3>1. \A o \in Outcomes : \A t \in AfterSlice(o) :
                 t \in [state : {"ready", "in_progress", "blocked", "done"},
                        attempts : 0 .. MaxSlices, retries : 0 .. MaxRetries]
            <4>1. task.retries < MaxRetries => task.retries + 1 \in 0 .. MaxRetries
                BY Types, Bounds
            <4> QED BY <4>1, Types, ZenonT(40) DEF AfterSlice, Outcomes
        <3>2. outcome \in Outcomes
            BY DEF IInv, TypeOK, Outcomes
        <3> QED BY <1>4, <3>1, <3>2, Types DEF ReleaseSlice
    <2>2. active' \in BOOLEAN /\ faults' \in 0 .. MaxFaults
        BY <1>4, Types DEF ReleaseSlice
    <2>3. TypeOK'
        BY <1>4, <2>1, <2>2, Types, FreshTyped DEF ReleaseSlice, IInv, TypeOK, Phases
    <2> QED BY <1>4, <2>3, IdleKeeps DEF ReleaseSlice
<1> QED BY <1>1, <1>2, <1>3, <1>4

\* The only operation without a result is the one the checkpoint asks for next.
LEMMA UnresolvedIsNext ==
    ASSUME IInv, NEW i \in Unresolved
    PROVE  /\ i \in OpId /\ ops[i].state = "started" /\ saved.pending # << >>
           /\ saved.pending[1].id = i
BY DEF Unresolved, IInv, Agrees, Open, IsAnswered

\* What the queue makes of the task between two runs has its type.
LEMMA OutsideTyped ==
    ASSUME IInv, TaskAssumption
    PROVE  /\ Reloaded \in [state : {"ready", "in_progress", "blocked", "done"},
                            attempts : 0 .. MaxSlices, retries : 0 .. MaxRetries]
           /\ Opened \in [state : {"ready", "in_progress", "blocked", "done"},
                          attempts : 0 .. MaxSlices, retries : 0 .. MaxRetries]
           /\ [Opened EXCEPT !.state = "blocked"]
                 \in [state : {"ready", "in_progress", "blocked", "done"},
                      attempts : 0 .. MaxSlices, retries : 0 .. MaxRetries]
           /\ [state |-> "ready", attempts |-> 0, retries |-> 0]
                 \in [state : {"ready", "in_progress", "blocked", "done"},
                      attempts : 0 .. MaxSlices, retries : 0 .. MaxRetries]
<1>1. 0 \in 0 .. MaxSlices /\ 0 \in 0 .. MaxRetries
    BY Bounds
<1> QED BY <1>1, Types DEF Reloaded, Opened

LEMMA OutsideKeeps == ASSUME IInv, TaskAssumption, Outside PROVE IInv'
<1>1. /\ Reloaded \in [state : {"ready", "in_progress", "blocked", "done"},
                      attempts : 0 .. MaxSlices, retries : 0 .. MaxRetries]
      /\ Opened \in [state : {"ready", "in_progress", "blocked", "done"},
                    attempts : 0 .. MaxSlices, retries : 0 .. MaxRetries]
      /\ [Opened EXCEPT !.state = "blocked"]
            \in [state : {"ready", "in_progress", "blocked", "done"},
                 attempts : 0 .. MaxSlices, retries : 0 .. MaxRetries]
      /\ [state |-> "ready", attempts |-> 0, retries |-> 0]
            \in [state : {"ready", "in_progress", "blocked", "done"},
                 attempts : 0 .. MaxSlices, retries : 0 .. MaxRetries]
    BY OutsideTyped
<1>2. CASE Crash
    <2>1. TypeOK'
        BY <1>2, Types, FreshTyped DEF Crash, Die, IInv, TypeOK, Phases
    <2> QED BY <1>2, <2>1, IdleKeeps DEF Crash, Die
<1>3. CASE ListTasks
    <2>1. TypeOK'
        BY <1>1, <1>3 DEF ListTasks, slice, IInv, TypeOK
    <2> QED BY <1>3, <2>1, IdleKeeps DEF ListTasks, Between, slice
<1>4. CASE ResumeAtStartup
    <2>1. TypeOK'
        BY <1>1, <1>4 DEF ResumeAtStartup, slice, IInv, TypeOK
    <2> QED BY <1>4, <2>1, IdleKeeps DEF ResumeAtStartup, Between, slice
<1>5. CASE ContinueTask
    <2>1. task' \in [state : {"ready", "in_progress", "blocked", "done"},
                     attempts : 0 .. MaxSlices, retries : 0 .. MaxRetries]
        BY <1>1, <1>5 DEF ContinueTask
    <2>2. active' \in BOOLEAN /\ decisions' \in 0 .. MaxDecisions
        BY <1>5, Types DEF ContinueTask
    <2>3. TypeOK'
        BY <1>5, <2>1, <2>2 DEF ContinueTask, slice, IInv, TypeOK
    <2> QED BY <1>5, <2>3, IdleKeeps DEF ContinueTask, Between, slice
<1>6. CASE ResolveOperation
    <2>1. PICK i \in Unresolved :
             \/ /\ ops' = [ops EXCEPT ![i].state = "retry"]
                /\ retried' = [retried EXCEPT ![i] = @ + 1]
             \/ /\ \E r \in Result \ Failure : ops' = Completed(i, r)
                /\ UNCHANGED retried
        BY <1>6 DEF ResolveOperation
    <2>2. /\ i \in OpId /\ ops[i].state = "started" /\ saved.pending # << >>
          /\ saved.pending[1].id = i
        BY UnresolvedIsNext
    <2>3. /\ saved.pending[1].call \notin saved.repeats
          /\ ops[i].call = saved.pending[1].call /\ ops[i].result = None
        BY <2>2, OpenCall
    <2>4. /\ UNCHANGED << saved, cp, pc, iter, got, outcome, active, booted, effects, faults >>
          /\ pc = "idle" /\ decisions' \in 0 .. MaxDecisions /\ task' = Opened
        BY <1>6, Types DEF ResolveOperation, Between, slice
    <2>5. /\ ops[i] \in Op /\ effects[i] \in Nat /\ retried[i] \in Nat
          /\ retried \in [OpId -> Nat]
        BY <2>2 DEF IInv, TypeOK
    <2>6. ops[i].call \notin ReplaySafe => effects[i] <= 1 + retried[i]
        BY <2>2 DEF IInv, EffectInv
    <2>7. /\ ops' \in [OpId -> Op] /\ retried' \in [OpId -> Nat]
          /\ WellNamed(saved)' /\ Agrees(saved)' /\ RecordInv' /\ EffectInv'
        <3>1. CASE /\ ops' = [ops EXCEPT ![i].state = "retry"]
                   /\ retried' = [retried EXCEPT ![i] = @ + 1]
            <4> DEFINE r == [ops[i] EXCEPT !.state = "retry"]
            <4>1. /\ r \in Op /\ r.state = "retry" /\ r.call = ops[i].call /\ r.result = None
                  /\ ops' = [ops EXCEPT ![i] = r]
                BY <2>3, <2>5, <3>1 DEF Op, OpState
            <4>2. retried'[i] = retried[i] + 1
                BY <2>2, <2>5, <3>1
            <4>3. r.call \notin ReplaySafe =>
                     effects[i] <= 1 + retried'[i] /\ effects[i] <= retried'[i]
                BY <2>5, <2>6, <4>1, <4>2
            <4> HIDE DEF r
            <4> QED BY <2>2, <2>3, <2>4, <3>1, <4>1, <4>3, RecordChange
        <3>2. CASE (\E r \in Result \ Failure : ops' = Completed(i, r)) /\ retried' = retried
            <4>1. PICK v \in Result : ops' = Completed(i, v)
                BY <3>2
            <4> DEFINE r == [ops[i] EXCEPT !.state = "completed", !.result = v]
            <4>2. /\ r \in Op /\ r.state = "completed" /\ r.call = ops[i].call
                  /\ r.result = v /\ v # None
                  /\ ops' = [ops EXCEPT ![i] = r]
                <5>1. ops' = [ops EXCEPT ![i] = r]
                    BY <4>1 DEF Completed
                <5>2. ops[i] \in Op /\ v # None
                    BY <2>5, <4>1 DEF TaskAssumption
                <5>3. /\ r \in Op /\ r.state = "completed" /\ r.call = ops[i].call
                      /\ r.result = v
                    BY <5>2 DEF Op, OpState
                <5> QED BY <5>1, <5>2, <5>3
            <4>3. r.call \notin ReplaySafe => effects[i] <= 1 + retried'[i]
                BY <2>5, <2>6, <3>2, <4>2
            <4> HIDE DEF r
            <4> QED BY <2>2, <2>3, <2>4, <3>2, <4>2, <4>3, RecordChange
        <3> QED BY <2>1, <3>1, <3>2
    <2>8. PcInv'
        BY <2>4 DEF PcInv, Working
    <2>9. TypeOK'
        BY <1>1, <2>4, <2>7 DEF IInv, TypeOK
    <2> QED BY <2>7, <2>8, <2>9 DEF IInv
<1> QED BY <1>2, <1>3, <1>4, <1>5, <1>6 DEF Outside

-----------------------------------------------------------------------------
\* The inductive invariant and what follows from it.

LEMMA StepKeeps == ASSUME IInv, TaskAssumption, [Next]_vars PROVE IInv'
<1>1. CASE UNCHANGED vars
    BY <1>1 DEF vars, IInv, TypeOK, WellNamed, Agrees, Open, IsAnswered, Unstarted,
                RecordInv, EffectInv, PcInv, Working, Current
<1>2. CASE RunStep
    BY <1>2, ControlKeeps, LoopKeeps, ReviewKeeps, ExecKeeps DEF RunStep, SliceStep
<1>3. CASE Outside
    BY <1>3, OutsideKeeps
<1> QED BY <1>1, <1>2, <1>3 DEF Next

\* Ledger, checkpoint and the running slice agree in every reachable state.
THEOREM Invariance == ASSUME TaskAssumption PROVE Spec => []IInv
<1>1. Init => IInv
    BY InitInv
<1>2. IInv /\ [Next]_vars => IInv'
    BY StepKeeps
<1> QED BY <1>1, <1>2, PTL DEF Spec

\* Every variable keeps its type.
THEOREM TypeCorrect == ASSUME TaskAssumption PROVE Spec => []TypeOK
<1>1. IInv => TypeOK
    BY DEF IInv
<1> QED BY <1>1, Invariance, PTL

\* A tool that is not replay safe runs once, and once more for every repetition
\* the operator allowed (BeginOperation before, FinishOperation after the run).
THEOREM ToolsRunAtMostOnce == ASSUME TaskAssumption PROVE Spec => []AtMostOnce
<1>1. IInv => AtMostOnce
    BY DEF IInv, EffectInv, AtMostOnce
<1> QED BY <1>1, Invariance, PTL

\* Every operation of the ledger is answered in the checkpoint a restart loads,
\* or it is the next call of that checkpoint.
THEOREM LedgerMatchesTranscript == ASSUME TaskAssumption PROVE Spec => []OnlyNextCallIsOpen
<1>1. ASSUME IInv PROVE OnlyNextCallIsOpen
    <2>1. saved.pending # << >> => Head(saved.pending) = saved.pending[1]
        OBVIOUS
    <2> QED BY <1>1, <2>1 DEF IInv, Agrees, Open, IsAnswered, OnlyNextCallIsOpen, Recorded,
                          AnsweredIds
<1> QED BY <1>1, Invariance, PTL

\* Every tool message of the transcript has a recorded result.
THEOREM TranscriptHasRecords == ASSUME TaskAssumption PROVE Spec => []TranscriptIsRecorded
<1>1. IInv => TranscriptIsRecorded
    BY DEF IInv, Agrees, TranscriptIsRecorded
<1> QED BY <1>1, Invariance, PTL

\* A call waiting in the checkpoint or answered by it never meets the record of
\* another call in the ledger, through failed saves and crashes, inside a save
\* too, unless one of them kept the calls of a batch without its number.
THEOREM RecordsAreNotMixedUp == ASSUME TaskAssumption PROVE Spec => []LedgerAnswersItsOwnCall
<1>1. ASSUME IInv, ~ saved.unnumbered PROVE LedgerAnswersItsOwnCall
    <2>1. ASSUME NEW a \in saved.answered PROVE ops[a.id].call = a.call
        BY <1>1 DEF IInv, Agrees
    <2>2. ASSUME NEW j \in DOMAIN saved.pending, ops[saved.pending[j].id].state # "absent"
          PROVE  ops[saved.pending[j].id].call = saved.pending[j].call
        <3>1. saved.pending \in Seq(Pending) /\ j \in 1 .. Len(saved.pending)
            <4>1. saved \in Checkpoint
                BY <1>1 DEF IInv, TypeOK
            <4>2. saved.pending \in Seq(Pending)
                BY <4>1 DEF Checkpoint
            <4> QED BY <2>2, <4>2
        <3>2. /\ saved.pending[j] \in Pending /\ 1 \in 1 .. Len(saved.pending)
              /\ saved.pending[1] \in Pending
            BY <3>1
        <3>3. saved.pending[j].id \in OpId
            BY <3>2 DEF Pending
        <3>4. CASE IsAnswered(saved, saved.pending[j].id)
            <4>1. PICK a \in saved.answered : a.id = saved.pending[j].id
                BY <3>4 DEF IsAnswered
            <4>2. a = saved.pending[j]
                BY <1>1, <3>1, <4>1 DEF IInv, WellNamed
            <4> QED BY <2>1, <4>2
        <3>5. CASE /\ saved.pending[1].id = saved.pending[j].id
                   /\ ops[saved.pending[j].id].call = saved.pending[1].call
            <4>1. saved.pending[j].id[2] \in Int
                BY <3>3 DEF OpId
            <4>2. j = 1
                BY <1>1, <3>1, <3>2, <3>5, <4>1 DEF IInv, WellNamed
            <4> QED BY <3>5, <4>2
        <3> QED BY <1>1, <2>2, <3>3, <3>4, <3>5 DEF IInv, Agrees, Open
    <2> QED BY <2>1, <2>2 DEF LedgerAnswersItsOwnCall
<1>2. IInv => LedgerAnswersItsOwnCall
    BY <1>1 DEF LedgerAnswersItsOwnCall
<1> QED BY <1>2, Invariance, PTL

-----------------------------------------------------------------------------
\* What a verified checkpoint stands for.

\* The steps that write the ledger or run a tool.
LEMMA LedgerWrites ==
    ASSUME Next
    PROVE  \/ UNCHANGED << ops, effects, retried >>
           \/ (BeginOperation \/ BeginOperationFails) /\ ops' = Intended
           \/ RunTool \/ RunInterrupted
           \/ /\ FinishOperation \/ FinishOperationFails
              /\ ops' = Completed(Current.id, got.result)
           \/ ResolveOperation
<1> USE DEF world, counted, SaveStep, SaveDies, Die, Stop, FaultStop, StopWith, Goto
<1>1. CASE LoopStep
    BY <1>1 DEF LoopStep, OutOfIterations, NextIteration, Interrupted, ResumeVerified,
         RoutePending, RouteCandidate, RouteModel, GateAsksForTools, GateAsksForSynthesis,
         ProviderFails, ModelAsksForTools, ModelStalls, AnswerRefused, AnswerProposed,
         ObserveOnlyLimit, ReturnAfterSave, AfterReply
<1>2. CASE ReviewStep
    BY <1>2 DEF ReviewStep, DirectResponse, LedgerShortcut, Review, WithdrawCandidate,
         FinishLoop, ReportDone
<1>3. CASE ExecStep
    BY <1>3 DEF ExecStep, ExecInterrupted, SkipRepeated, BeginOperation,
         BeginOperationFails, ReplayStarted, RefuseAmbiguous, ReuseCompleted,
         CancelBeforeRun, AnswerWithoutRunning, FinishOperation, FinishOperationFails,
         AnswerCall, SessionGone, Converge, BatchDone
<1>4. CASE ClaimSlice \/ LeaveTask \/ StartLoop \/ ReleaseSlice
    BY <1>4 DEF ClaimSlice, LeaveTask, StartLoop, ReleaseSlice
<1>5. CASE Crash \/ ListTasks \/ ResumeAtStartup \/ ContinueTask
    BY <1>5 DEF Crash, ListTasks, ResumeAtStartup, ContinueTask
<1> QED BY <1>1, <1>2, <1>3, <1>4, <1>5 DEF Next, RunStep, SliceStep, Outside

\* A verified checkpoint has its proof, and nothing but the end of a slice
\* follows it; a verdict is reported, and a task done, only with one.
Proven(c) == c.pending = << >> /\ (c.unnumbered \/ ProofHolds(c.assessed))
VerifiedInv ==
    /\ saved.verdict = "complete" => Proven(saved)
    /\ saved.verdict = "complete" /\ Working => pc \in {"loop", "head", "finish", "finished"}
    /\ pc \in {"finish", "finished"} => saved.verdict = "complete"
    /\ outcome = "done" => pc = "release" /\ saved.verdict = "complete"
    /\ pc # "idle" => task.state = "in_progress"
    /\ task.state = "done" => saved.verdict = "complete"

\* Nothing changes the ledger once the checkpoint is verified.
LEMMA VerifiedIsQuiet ==
    ASSUME IInv, VerifiedInv, TaskAssumption, Next, saved.verdict = "complete"
    PROVE  UNCHANGED << ops, effects >>
<1>1. pc \in {"exec", "began", "ran"} => FALSE
    BY DEF VerifiedInv, Working
<1>2. CASE ResolveOperation
    <2>1. PICK i \in Unresolved : TRUE
        BY <1>2 DEF ResolveOperation
    <2> QED BY <2>1, UnresolvedIsNext DEF VerifiedInv, Proven
<1>3. ~ (BeginOperation \/ BeginOperationFails \/ RunTool \/ RunInterrupted
         \/ FinishOperation \/ FinishOperationFails)
    BY <1>1 DEF BeginOperation, BeginOperationFails, RunTool, RunInterrupted,
                FinishOperation, FinishOperationFails, Reached
<1> QED BY <1>2, <1>3, LedgerWrites

\* A step that leaves the ledger alone and saves a proven verdict or none keeps
\* the invariant.
LEMMA VerdictKept ==
    ASSUME VerifiedInv, UNCHANGED ops,
           saved'.verdict = "complete" => Proven(saved'),
           saved'.verdict = "complete" /\ Working' => pc' \in {"loop", "head", "finish", "finished"},
           pc' \in {"finish", "finished"} => saved'.verdict = "complete",
           outcome' = "done" => pc' = "release" /\ saved'.verdict = "complete",
           pc' # "idle" => task'.state = "in_progress",
           task'.state = "done" => saved'.verdict = "complete"
    PROVE  VerifiedInv'
<1>1. \A c : Proven(c) => Proven(c)'
    BY DEF Proven, ProofHolds, LedgerSettled, UnresolvedFailures, Recorded
<1>2. PICK c : c = saved'
    OBVIOUS
<1>3. saved'.verdict = "complete" => Proven(saved)'
    BY <1>2 DEF Proven, ProofHolds, LedgerSettled, UnresolvedFailures, Recorded
<1> QED BY <1>3 DEF VerifiedInv

\* What is left of a save that was cut has the verdict of before.
LEMMA TornVerdict ==
    ASSUME saved \in Checkpoint, NEW c, NEW d \in Torn(c),
           saved.verdict = "complete" => Proven(saved) /\ c.pending = << >>,
           c.verdict = "complete" => Proven(c)
    PROVE  /\ d.verdict = "complete" => Proven(d)
           /\ d.verdict = saved.verdict \/ d = c
<1>1. CASE d = saved \/ d = c
    BY <1>1
<1>2. CASE d # saved /\ d # c
    <2>1. /\ d.verdict = saved.verdict /\ d.assessed = saved.assessed
          /\ d.pending = saved.pending \/ d.pending = c.pending
          /\ saved.unnumbered => d.unnumbered
        BY <1>2 DEF Torn, Checkpoint
    <2> QED BY <2>1 DEF Proven
<1> QED BY <1>1, <1>2

\* A save in the loop.
LEMMA VerdictSaved ==
    ASSUME IInv, VerifiedInv, NEW c, NEW next \in Phases \ {"idle"},
           SaveStep(c, next), pc \notin {"idle", "release"},
           c.verdict = "complete" => Proven(c),
           saved.verdict = "complete" => c.pending = << >>,
           c.verdict = "complete" => next \in {"loop", "head", "finish", "finished"},
           next \in {"finish", "finished"} => c.verdict = "complete"
    PROVE  VerifiedInv'
<1>1. /\ UNCHANGED << task, ops >> /\ outcome # "done" /\ saved \in Checkpoint
      /\ task.state = "in_progress"
    BY DEF SaveStep, SaveDies, Die, world, VerifiedInv, Working, IInv, TypeOK
<1>2. saved' \in Torn(c)
    BY DEF SaveStep, Save, SaveFails, SaveDies, Torn
<1>3. saved'.verdict = "complete" => Proven(saved')
    BY <1>1, <1>2, TornVerdict DEF VerifiedInv
<1>4. CASE Save(c, next)
    BY <1>1, <1>3, <1>4, VerdictKept DEF Save
<1>5. CASE SaveFails(c)
    BY <1>1, <1>3, <1>5, VerdictKept DEF SaveFails, StopWith, Working
<1>6. CASE SaveDies(c)
    BY <1>1, <1>3, <1>6, VerdictKept DEF SaveDies, Die, Working
<1> QED BY <1>4, <1>5, <1>6 DEF SaveStep

\* A save of a checkpoint without a verdict, where there is none.
LEMMA OpenSaved ==
    ASSUME IInv, VerifiedInv, NEW c, NEW next \in Phases \ {"idle"},
           SaveStep(c, next), Working, c.verdict # "complete",
           saved.verdict # "complete", next \notin {"finish", "finished"}
    PROVE  VerifiedInv'
BY VerdictSaved DEF Working

\* A step of the loop that saves nothing.
LEMMA VerdictUnsaved ==
    ASSUME VerifiedInv, UNCHANGED << saved, ops, task >>,
           saved.verdict = "complete" /\ Working' => pc' \in {"loop", "head", "finish", "finished"},
           pc' \in {"finish", "finished"} => saved.verdict = "complete",
           outcome' = "done" => pc' = "release" /\ saved.verdict = "complete",
           pc' # "idle" => pc # "idle"
    PROVE  VerifiedInv'
<1>1. /\ task'.state = "done" => saved.verdict = "complete"
      /\ saved.verdict = "complete" => Proven(saved')
      /\ pc' # "idle" => task'.state = "in_progress"
    BY DEF VerifiedInv
<1> QED BY <1>1, VerdictKept

\* A slice that stops.
LEMMA VerdictStopped ==
    ASSUME VerifiedInv, NEW o, Stop(o) \/ FaultStop(o), o = "done" => saved.verdict = "complete",
           pc # "idle"
    PROVE  VerifiedInv'
BY VerdictUnsaved DEF Stop, FaultStop, StopWith, world, Working

LEMMA LoopVerified == ASSUME IInv, VerifiedInv, TaskAssumption, LoopStep PROVE VerifiedInv'
<1>1. /\ saved \in Checkpoint /\ (Working => cp = saved)
      /\ pc \in {"model", "review"} => saved.verdict # "complete"
      /\ {"loop", "head", "model", "yielding", "blocking"} \subseteq Phases \ {"idle"}
    BY DEF Phases, IInv, TypeOK, PcInv, VerifiedInv, Working
<1>2. CASE OutOfIterations \/ ReturnAfterSave
    BY <1>2, VerdictStopped DEF OutOfIterations, ReturnAfterSave
<1>3. CASE NextIteration
    BY <1>3, VerdictUnsaved DEF NextIteration, world, VerifiedInv, Working
<1>4. CASE Interrupted \/ ProviderFails
    BY <1>4, VerdictStopped DEF Interrupted, ProviderFails
<1>5. CASE ResumeVerified
    <2>1. /\ cp = saved /\ saved.verdict = "complete" /\ pc = "head"
          /\ saved.pending = << >>
        BY <1>1, <1>5 DEF ResumeVerified, Working, VerifiedInv, Proven
    <2>2. CASE ProofHolds(cp.assessed)
        BY <1>5, <2>1, <2>2, VerdictUnsaved DEF ResumeVerified, Goto, world, VerifiedInv
    <2>3. CASE ~ ProofHolds(cp.assessed)
        <3> DEFINE c == [cp EXCEPT !.verdict = "none", !.assessed = {}]
        <3>1. c.verdict = "none" /\ c.pending = << >>
            BY <1>1, <2>1 DEF Checkpoint
        <3>2. SaveStep(c, "head")
            BY <1>5, <2>3 DEF ResumeVerified
        <3> HIDE DEF c
        <3> QED BY <1>1, <2>1, <3>1, <3>2, VerdictSaved
    <2> QED BY <2>2, <2>3
<1>6. CASE RoutePending \/ RouteCandidate \/ RouteModel
    <2>1. saved.verdict # "complete" /\ pc = "head"
        BY <1>1, <1>6 DEF RoutePending, RouteCandidate, RouteModel, Unverified, Working
    <2> QED BY <1>6, <2>1, VerdictUnsaved
        DEF RoutePending, RouteCandidate, RouteModel, Goto, world, VerifiedInv
<1>7. CASE GateAsksForTools \/ GateAsksForSynthesis
    <2>1. saved.verdict # "complete" /\ cp = saved /\ Working
        BY <1>1, <1>7 DEF GateAsksForTools, GateAsksForSynthesis, GateApplies, Unverified, Working
    <2>2. ASSUME NEW c, NEW next \in {"loop", "model"}, c.verdict = saved.verdict, SaveStep(c, next)
          PROVE  VerifiedInv'
        BY <1>1, <2>1, <2>2, OpenSaved
    <2>3. CASE GateAsksForSynthesis
        <3> DEFINE c == [cp EXCEPT !.candidate = FALSE, !.synthesis = TRUE]
        <3>1. c.verdict = saved.verdict
            BY <1>1, <2>1 DEF Checkpoint
        <3>2. SaveStep(c, "model")
            BY <2>3 DEF GateAsksForSynthesis
        <3> HIDE DEF c
        <3> QED BY <2>2, <3>1, <3>2
    <2>4. CASE GateAsksForTools
        <3>1. PICK calls \in Batches :
                 SaveStep([cp EXCEPT !.batch = @ + 1, !.candidate = FALSE,
                                     !.pending = Named(cp.batch + 1, calls)], "loop")
            BY <2>4 DEF GateAsksForTools
        <3> DEFINE c == [cp EXCEPT !.batch = @ + 1, !.candidate = FALSE,
                                   !.pending = Named(cp.batch + 1, calls)]
        <3>2. c.verdict = saved.verdict
            BY <1>1, <2>1 DEF Checkpoint
        <3>3. SaveStep(c, "loop")
            BY <3>1
        <3> HIDE DEF c
        <3> QED BY <2>2, <3>2, <3>3
    <2> QED BY <1>7, <2>3, <2>4
<1>8. CASE ModelAsksForTools \/ ModelStalls \/ AnswerRefused \/ AnswerProposed \/ ObserveOnlyLimit
    <2>1. pc = "model" /\ saved.verdict # "complete" /\ cp = saved /\ Working
        BY <1>1, <1>8 DEF ModelAsksForTools, ModelStalls, AnswerRefused, AnswerProposed,
                          ObserveOnlyLimit, AfterReply, Working
    <2>2. ASSUME NEW c, NEW next \in {"yielding", "blocking", "loop"},
                 c.verdict = saved.verdict, SaveStep(c, next)
          PROVE  VerifiedInv'
        BY <1>1, <2>1, <2>2, OpenSaved
    <2>3. ASSUME NEW c, c.verdict = saved.verdict, AfterReply(c) PROVE VerifiedInv'
        BY <2>2, <2>3 DEF AfterReply
    <2>4. CASE ModelAsksForTools
        <3>1. PICK calls \in Batches :
                 AfterReply([cp EXCEPT !.batch = @ + 1, !.stalls = 0,
                                       !.pending = Named(cp.batch + 1, calls)])
            BY <2>4 DEF ModelAsksForTools
        <3> DEFINE c == [cp EXCEPT !.batch = @ + 1, !.stalls = 0,
                                   !.pending = Named(cp.batch + 1, calls)]
        <3>2. c.verdict = saved.verdict
            BY <1>1, <2>1 DEF Checkpoint
        <3>3. AfterReply(c)
            BY <3>1
        <3> HIDE DEF c
        <3> QED BY <2>3, <3>2, <3>3
    <2>5. CASE ModelStalls
        <3> DEFINE c == [cp EXCEPT !.stalls = Bump(@)]
        <3>1. c.verdict = saved.verdict
            BY <1>1, <2>1 DEF Checkpoint
        <3>2. AfterReply(c)
            BY <2>5 DEF ModelStalls
        <3> HIDE DEF c
        <3> QED BY <2>3, <3>1, <3>2
    <2>6. CASE AnswerRefused
        <3> DEFINE c == [cp EXCEPT !.noProgress = Bump(@)]
        <3>1. c.verdict = saved.verdict
            BY <1>1, <2>1 DEF Checkpoint
        <3>2. AfterReply(c)
            BY <2>6 DEF AnswerRefused
        <3> HIDE DEF c
        <3> QED BY <2>3, <3>1, <3>2
    <2>7. CASE AnswerProposed
        <3> DEFINE c == [cp EXCEPT !.candidate = TRUE, !.stalls = 0]
        <3>1. c.verdict = saved.verdict
            BY <1>1, <2>1 DEF Checkpoint
        <3>2. AfterReply(c)
            BY <2>7 DEF AnswerProposed
        <3> HIDE DEF c
        <3> QED BY <2>3, <3>1, <3>2
    <2>8. CASE ObserveOnlyLimit
        BY <2>1, <2>2, <2>8 DEF ObserveOnlyLimit
    <2> QED BY <1>8, <2>4, <2>5, <2>6, <2>7, <2>8
<1> QED BY <1>2, <1>3, <1>4, <1>5, <1>6, <1>7, <1>8 DEF LoopStep

\* Before the first batch of calls the ledger is empty, unless a batch lost its
\* number.
LEMMA NoBatchNoRecord ==
    ASSUME IInv, saved.pending = << >>, saved.batch = 0, ~ saved.unnumbered
    PROVE  Recorded = {}
<1>1. ASSUME NEW i \in Recorded PROVE FALSE
    <2>1. PICK a \in saved.answered : a.id = i
        BY <1>1 DEF IInv, Agrees, Open, IsAnswered, Recorded
    <2>2. i[1] <= 0 /\ i \in OpId
        BY <2>1, <1>1 DEF IInv, WellNamed, Recorded
    <2> QED BY <2>2 DEF OpId
<1> QED BY <1>1

LEMMA ReviewVerified == ASSUME IInv, VerifiedInv, TaskAssumption, ReviewStep PROVE VerifiedInv'
<1>1. /\ saved \in Checkpoint /\ (Working => cp = saved)
      /\ pc \in {"review", "more", "deny"} => saved.verdict # "complete" /\ cp.pending = << >>
      /\ {"loop", "more", "deny", "blocking", "finish", "finished"} \subseteq Phases \ {"idle"}
    BY DEF Phases, IInv, TypeOK, PcInv, VerifiedInv, Working
<1>2. ASSUME NEW s \in SUBSET OpId, pc = "review", saved.unnumbered \/ ProofHolds(s),
             SaveStep(Verified(s), "finish")
      PROVE  VerifiedInv'
    <2>1. cp = saved /\ saved.verdict # "complete" /\ saved.pending = << >> /\ Working
        BY <1>1, <1>2 DEF Working
    <2>2. /\ Verified(s).verdict = "complete" /\ Verified(s).assessed = s
          /\ Verified(s).pending = << >> /\ Verified(s).unnumbered = saved.unnumbered
        BY <1>1, <2>1 DEF Verified, Checkpoint
    <2>3. Proven(Verified(s))
        BY <1>2, <2>2 DEF Proven
    <2> QED BY <1>1, <1>2, <2>1, <2>2, <2>3, VerdictSaved
<1>3. CASE DirectResponse
    <2>1. saved.unnumbered \/ Recorded = {}
        BY <1>1, <1>3, NoBatchNoRecord DEF DirectResponse, Working
    <2>2. saved.unnumbered \/ ProofHolds({})
        BY <2>1 DEF ProofHolds, LedgerSettled, UnresolvedFailures
    <2> QED BY <1>2, <1>3, <2>2 DEF DirectResponse
<1>4. CASE LedgerShortcut
    <2>1. ProofHolds({})
        BY <1>4 DEF LedgerShortcut, CompleteLedger, ProofHolds
    <2> QED BY <1>2, <1>4, <2>1 DEF LedgerShortcut
<1>5. CASE Review
    <2>1. pc = "review" /\ cp = saved /\ saved.verdict # "complete" /\ Working
        BY <1>1, <1>5 DEF Review, Working
    <2>2. CASE ~ LedgerSettled
        BY <1>5, <2>2, VerdictStopped DEF Review
    <2>3. CASE LedgerSettled /\ SaveStep(Verified(UnresolvedFailures), "finish")
        <3>1. UnresolvedFailures \in SUBSET OpId /\ ProofHolds(UnresolvedFailures)
            BY <2>3 DEF UnresolvedFailures, Recorded, ProofHolds
        <3> QED BY <1>2, <2>1, <2>3, <3>1
    <2>4. ASSUME NEW next \in {"more", "deny"}, SaveStep([cp EXCEPT !.verdict = "other"], next)
          PROVE  VerifiedInv'
        <3>1. [cp EXCEPT !.verdict = "other"].verdict = "other"
            BY <1>1, <2>1 DEF Checkpoint
        <3> QED BY <2>1, <2>4, <3>1, <1>1, OpenSaved
    <2> QED BY <1>5, <2>2, <2>3, <2>4 DEF Review
<1>6. CASE WithdrawCandidate
    <2>1. cp = saved /\ saved.verdict # "complete" /\ Working
        BY <1>1, <1>6 DEF WithdrawCandidate, Working
    <2>2. [cp EXCEPT !.candidate = FALSE, !.verdict = "none"].verdict = "none"
        BY <1>1, <2>1 DEF Checkpoint
    <2>3. PICK next \in {"loop", "blocking"} :
             SaveStep([cp EXCEPT !.candidate = FALSE, !.verdict = "none"], next)
        BY <1>6 DEF WithdrawCandidate
    <2> QED BY <2>1, <2>2, <2>3, <1>1, OpenSaved
<1>7. CASE FinishLoop
    <2>1. cp = saved /\ saved.verdict = "complete" /\ Working
        BY <1>1, <1>7 DEF FinishLoop, Working, VerifiedInv
    <2>2. CASE Stop("blocked") \/ FaultStop("blocked")
        BY <1>7, <2>2, VerdictStopped DEF FinishLoop
    <2>3. CASE SaveStep(cp, "finished")
        <3>1. Proven(saved) /\ saved.pending = << >>
            BY <2>1 DEF VerifiedInv, Proven
        <3> QED BY <1>1, <1>7, <2>1, <2>3, <3>1, VerdictSaved DEF FinishLoop
    <2> QED BY <1>7, <2>2, <2>3 DEF FinishLoop
<1>8. CASE ReportDone
    BY <1>8, VerdictStopped DEF ReportDone, VerifiedInv
<1> QED BY <1>3, <1>4, <1>5, <1>6, <1>7, <1>8 DEF ReviewStep

\* While a batch runs there is no verdict, and none is given.
LEMMA ExecVerified == ASSUME IInv, VerifiedInv, TaskAssumption, ExecStep PROVE VerifiedInv'
<1>1. CASE ExecInterrupted \/ RefuseAmbiguous \/ CancelBeforeRun \/ SessionGone
    <2>1. pc # "idle" /\ \E o \in {"deadline", "cancelled", "blocked", "error", "session"} :
             Stop(o) \/ FaultStop(o)
        BY <1>1 DEF ExecInterrupted, RefuseAmbiguous, CancelBeforeRun, SessionGone, Reached
    <2> QED BY <2>1, VerdictStopped
<1>2. CASE pc \in {"exec", "began", "ran", "answer", "converge"}
    <2>1. cp = saved /\ saved \in Checkpoint /\ saved.verdict # "complete" /\ Working
          /\ outcome # "done" /\ task.state = "in_progress"
          /\ {"exec", "converge", "blocking", "loop"} \subseteq Phases \ {"idle"}
        BY <1>2 DEF Phases, IInv, TypeOK, PcInv, VerifiedInv, Working
    <2>2. ASSUME NEW c, NEW next \in {"exec", "converge", "blocking", "loop"},
                 c.verdict = saved.verdict, SaveStep(c, next)
          PROVE  VerifiedInv'
        BY <2>1, <2>2, OpenSaved
    <2>9. CASE SkipRepeated
        <3> DEFINE c == [cp EXCEPT !.pending = Tail(@), !.skipped = @ \cup {Current}]
        <3>1. c.verdict = saved.verdict
            BY <2>1 DEF Checkpoint
        <3>2. SaveStep(c, "exec")
            BY <2>9 DEF SkipRepeated
        <3> HIDE DEF c
        <3> QED BY <2>2, <3>1, <3>2
    <2>10. CASE AnswerCall
        <3>1. Answered.verdict = saved.verdict
            BY <2>1 DEF Checkpoint, Answered
        <3> QED BY <2>2, <2>10, <3>1 DEF AnswerCall
    <2>11. CASE Converge
        <3> DEFINE c == [cp EXCEPT !.repeats = @ \cup {got.call}, !.noProgress = 0]
        <3>1. c.verdict = saved.verdict
            BY <2>1 DEF Checkpoint
        <3>2. SaveStep(c, "exec")
            BY <2>11 DEF Converge
        <3> HIDE DEF c
        <3> QED BY <2>2, <3>1, <3>2
    <2>12. CASE BatchDone /\ cp.repeats # {}
        <3> DEFINE c == [cp EXCEPT !.repeats = {}]
        <3>1. c.verdict = saved.verdict
            BY <2>1 DEF Checkpoint
        <3>2. SaveStep(c, "loop")
            BY <2>12 DEF BatchDone
        <3> HIDE DEF c
        <3> QED BY <2>2, <3>1, <3>2
    <2>3. ASSUME UNCHANGED << saved, task >>, pc' \notin {"finish", "finished"}, outcome' # "done"
          PROVE  VerifiedInv'
        BY <2>1, <2>3 DEF VerifiedInv
    <2>4. CASE BeginOperation \/ BeginOperationFails
        BY <2>1, <2>3, <2>4 DEF BeginOperation, BeginOperationFails, StopWith, counted
    <2>5. CASE ReplayStarted \/ ReuseCompleted \/ AnswerWithoutRunning
        BY <2>1, <2>3, <2>5 DEF ReplayStarted, ReuseCompleted, AnswerWithoutRunning, Goto, world
    <2>6. CASE RunTool \/ RunInterrupted
        BY <2>1, <2>3, <2>6 DEF RunTool, RunInterrupted, StopWith
    <2>7. CASE FinishOperation \/ FinishOperationFails
        BY <2>1, <2>3, <2>7 DEF FinishOperation, FinishOperationFails, StopWith, counted
    <2>8. CASE BatchDone /\ cp.repeats = {}
        BY <2>1, <2>3, <2>8 DEF BatchDone, Goto, world
    <2> QED BY <1>1, <2>4, <2>5, <2>6, <2>7, <2>8, <2>9, <2>10, <2>11, <2>12
        DEF ExecStep, BatchDone
<1>3. CASE pc \notin {"exec", "began", "ran", "answer", "converge"}
    BY <1>1, <1>3 DEF ExecStep, SkipRepeated, BeginOperation, BeginOperationFails, ReplayStarted,
        ReuseCompleted, AnswerWithoutRunning, RunTool, RunInterrupted, FinishOperation,
        FinishOperationFails, AnswerCall, Converge, BatchDone, Reached
<1> QED BY <1>2, <1>3

LEMMA ControlVerified ==
    ASSUME IInv, VerifiedInv, TaskAssumption, ClaimSlice \/ LeaveTask \/ StartLoop \/ ReleaseSlice
    PROVE  VerifiedInv'
<1>1. CASE ClaimSlice
    <2>1. task'.state # "done" /\ outcome' # "done"
        BY <1>1, Types DEF ClaimSlice, VerifiedInv
    <2> QED BY <1>1, <2>1, VerdictKept DEF ClaimSlice, VerifiedInv, Working
<1>2. CASE LeaveTask
    BY <1>2, VerdictUnsaved DEF LeaveTask, slice, VerifiedInv, Working
<1>3. CASE StartLoop
    <2> DEFINE c == [saved EXCEPT !.stalls = 0]
    <2>1. /\ c.verdict = saved.verdict /\ c.pending = saved.pending
          /\ c.assessed = saved.assessed /\ c.unnumbered = saved.unnumbered
        BY DEF IInv, TypeOK, Checkpoint
    <2>2. SaveStep(c, "loop") /\ pc = "start"
        BY <1>3 DEF StartLoop
    <2> HIDE DEF c
    <2>3. /\ c.verdict = "complete" => Proven(c)
          /\ saved.verdict = "complete" => c.pending = << >>
        BY <2>1 DEF VerifiedInv, Proven
    <2> QED BY <2>2, <2>3, VerdictSaved DEF Phases
<1>4. CASE ReleaseSlice
    <2>1. task'.state = "done" => saved.verdict = "complete"
        <3>1. CASE task' \in AfterSlice(outcome)
            <4>1. outcome = "done" \/ task'.state # "done" \/ task' = task
                BY <3>1, Types DEF AfterSlice
            <4> QED BY <4>1 DEF VerifiedInv
        <3>2. CASE task' = task
            BY <3>2 DEF VerifiedInv
        <3> QED BY <1>4, <3>1, <3>2 DEF ReleaseSlice
    <2> QED BY <1>4, <2>1, VerdictKept DEF ReleaseSlice, VerifiedInv, Working
<1> QED BY <1>1, <1>2, <1>3, <1>4

LEMMA OutsideVerified == ASSUME IInv, VerifiedInv, TaskAssumption, Outside PROVE VerifiedInv'
<1>1. saved' = saved /\ outcome' # "done" /\ pc' \notin {"finish", "finished"} /\ pc' = "idle"
    BY DEF Outside, Crash, Die, ListTasks, ResumeAtStartup, ContinueTask, ResolveOperation, Between,
           slice, VerifiedInv, Working
<1>2. task'.state = "done" => task.state = "done"
    <2>1. Opened.state = "done" => task.state = "done"
        BY Types DEF Opened, Reloaded
    <2>2. Reloaded.state = "done" => task.state = "done"
        BY Types DEF Reloaded
    <2> QED BY <2>1, <2>2, OutsideTyped
        DEF Outside, Crash, Die, ListTasks, ResumeAtStartup, ContinueTask, ResolveOperation
<1>3. saved.verdict = "complete" => UNCHANGED ops
    BY VerifiedIsQuiet DEF Next
<1>4. CASE saved.verdict = "complete"
    BY <1>1, <1>2, <1>3, <1>4, VerdictKept DEF VerifiedInv, Proven, Working
<1>5. CASE saved.verdict # "complete"
    BY <1>1, <1>2, <1>5 DEF VerifiedInv, Working
<1> QED BY <1>4, <1>5

LEMMA InitVerified == ASSUME Init PROVE VerifiedInv
BY DEF Init, Fresh, VerifiedInv, Working

\* Every step keeps the verdict proven.
LEMMA VerifiedStep == ASSUME IInv, VerifiedInv, TaskAssumption, [Next]_vars PROVE VerifiedInv'
<1>1. CASE LoopStep
    BY <1>1, LoopVerified
<1>2. CASE ReviewStep
    BY <1>2, ReviewVerified
<1>3. CASE ExecStep
    BY <1>3, ExecVerified
<1>4. CASE ClaimSlice \/ LeaveTask \/ StartLoop \/ ReleaseSlice
    BY <1>4, ControlVerified
<1>5. CASE Outside
    BY <1>5, OutsideVerified
<1>6. CASE UNCHANGED vars
    BY <1>6 DEF vars, VerifiedInv, Proven, Working, ProofHolds, LedgerSettled, UnresolvedFailures, Recorded
<1> QED BY <1>1, <1>2, <1>3, <1>4, <1>5, <1>6 DEF Next, RunStep, SliceStep

LEMMA VerifiedInvariance == ASSUME TaskAssumption PROVE Spec => []VerifiedInv
<1>1. Init => VerifiedInv
    BY InitVerified
<1>2. IInv /\ VerifiedInv /\ [Next]_vars => VerifiedInv'
    BY VerifiedStep
<1> QED BY <1>1, <1>2, Invariance, PTL DEF Spec

\* A verified checkpoint has nothing pending and its proof holds against the
\* ledger through crashes and new slices (durableProofValid); a finished task
\* has such a checkpoint.
THEOREM VerdictsAreProven == ASSUME TaskAssumption PROVE Spec => []VerifiedMeansProven
<1>1. VerifiedInv => VerifiedMeansProven
    BY DEF VerifiedInv, Proven, VerifiedMeansProven
<1> QED BY <1>1, VerifiedInvariance, PTL

\* A verdict once saved is not lost again, unless a batch lost its number: then
\* its proof may fail and is dropped (ResumeVerified).
LEMMA VerdictStays ==
    ASSUME IInv, VerifiedInv, TaskAssumption, Next, saved.verdict = "complete"
    PROVE  saved'.verdict = "complete" \/ saved.unnumbered
<1>1. /\ saved \in Checkpoint /\ (Working => cp = saved)
      /\ pc \in {"idle", "start", "release", "loop", "head", "finish", "finished"}
      /\ saved.unnumbered \/ ProofHolds(saved.assessed)
    BY DEF IInv, TypeOK, PcInv, VerifiedInv, Proven, Working
<1>2. ASSUME NEW c, NEW next, SaveStep(c, next), c.verdict = "complete"
      PROVE  saved'.verdict = "complete"
    <2>1. saved' \in Torn(c)
        BY <1>2 DEF SaveStep, Save, SaveFails, SaveDies, Torn
    <2> QED BY <1>1, <1>2, <2>1 DEF Torn, Checkpoint
<1>3. CASE StartLoop
    <2> DEFINE c == [saved EXCEPT !.stalls = 0]
    <2>1. c.verdict = "complete" /\ SaveStep(c, "loop")
        BY <1>1, <1>3 DEF StartLoop, Checkpoint
    <2> HIDE DEF c
    <2> QED BY <1>2, <2>1
<1>4. CASE ResumeVerified
    BY <1>1, <1>4 DEF ResumeVerified, Goto, Working
<1>5. CASE FinishLoop
    BY <1>1, <1>2, <1>5 DEF FinishLoop, Stop, FaultStop, Working
<1>6. CASE ClaimSlice \/ LeaveTask \/ ReleaseSlice \/ Outside
    BY <1>6 DEF ClaimSlice, LeaveTask, ReleaseSlice, Outside, Crash, Die, ListTasks, ResumeAtStartup,
                ContinueTask, ResolveOperation
<1>7. CASE OutOfIterations \/ NextIteration \/ Interrupted \/ RoutePending \/ RouteCandidate
           \/ RouteModel
    BY <1>7 DEF OutOfIterations, NextIteration, Interrupted, RoutePending, RouteCandidate,
                RouteModel, Stop, FaultStop, Goto
<1>8. CASE ReportDone \/ SessionGone
    BY <1>8 DEF ReportDone, SessionGone, Stop, FaultStop
<1>9. CASE GateAsksForTools \/ GateAsksForSynthesis
    BY <1>1, <1>9 DEF GateAsksForTools, GateAsksForSynthesis, GateApplies, Unverified, Working
<1>10. ~ (ProviderFails \/ ModelAsksForTools \/ ModelStalls \/ AnswerRefused \/ AnswerProposed
          \/ ObserveOnlyLimit \/ ReturnAfterSave)
    BY <1>1 DEF ProviderFails, ModelAsksForTools, ModelStalls, AnswerRefused, AnswerProposed,
                AfterReply, ObserveOnlyLimit, ReturnAfterSave
<1>11. ~ (DirectResponse \/ LedgerShortcut \/ Review \/ WithdrawCandidate)
    BY <1>1 DEF DirectResponse, LedgerShortcut, Review, WithdrawCandidate
<1>12. ~ (ExecInterrupted \/ SkipRepeated \/ BeginOperation \/ BeginOperationFails
          \/ ReplayStarted \/ RefuseAmbiguous \/ ReuseCompleted \/ CancelBeforeRun
          \/ AnswerWithoutRunning \/ RunTool \/ RunInterrupted \/ FinishOperation
          \/ FinishOperationFails \/ AnswerCall \/ Converge \/ BatchDone)
    BY <1>1 DEF ExecInterrupted, SkipRepeated, BeginOperation, BeginOperationFails, ReplayStarted,
        RefuseAmbiguous, ReuseCompleted, CancelBeforeRun, AnswerWithoutRunning, RunTool,
        RunInterrupted, FinishOperation, FinishOperationFails, AnswerCall, Converge, BatchDone,
        Reached
<1> QED BY <1>3, <1>4, <1>5, <1>6, <1>7, <1>8, <1>9, <1>10, <1>11, <1>12
        DEF Next, RunStep, SliceStep, LoopStep, ReviewStep, ExecStep

\* Once verified, a task runs no tool and records nothing any more, and no step,
\* crash, torn save or restart loses the verdict; only after a batch lost its
\* number may the verdict be dropped, because its proof is missing.
THEOREM VerdictsAreFinal == ASSUME TaskAssumption PROVE Spec => VerifiedIsFinal
<1>1. IInv /\ VerifiedInv /\ [Next]_vars =>
          [saved.verdict = "complete" =>
              /\ UNCHANGED << ops, effects >>
              /\ saved'.verdict = "complete" \/ saved.unnumbered]_vars
    BY VerdictStays, VerifiedIsQuiet DEF vars
<1> QED BY <1>1, Invariance, VerifiedInvariance, PTL DEF Spec, VerifiedIsFinal

-----------------------------------------------------------------------------
\* What a skipped call stands for.

\* Call x was answered twice with one and the same recorded result.
Twice(c, x) ==
    \E a, b \in c.answered : /\ a # b /\ a.call = x /\ b.call = x
                             /\ ops[a.id].result = ops[b.id].result

\* A digest is the recorded result of an answered call that is not pending again;
\* what is skipped, now or in the rest of the batch, was answered twice alike.
DigestsEarned(c) ==
    \A x \in Call : c.digests[x] # None =>
        \E a \in c.answered : /\ a.call = x /\ ops[a.id].result = c.digests[x]
                              /\ \A j \in 1 .. Len(c.pending) : a.id # c.pending[j].id
RepeatsEarned(c) == RepeatLimit > 1 => \A x \in c.repeats : Twice(c, x)
SkipsEarned(c)   == RepeatLimit > 1 => \A s \in c.skipped : Twice(c, s.call)
Earned(c)        == DigestsEarned(c) /\ RepeatsEarned(c) /\ SkipsEarned(c)

RepeatInv ==
    /\ ~ saved.unnumbered => Earned(saved)
    /\ pc \in {"ran", "answer"} => got.call = Current.call
    /\ pc = "answer" => got.result = ops[Current.id].result
    /\ RepeatLimit > 1 /\ pc = "converge" /\ ~ saved.unnumbered => Twice(saved, got.call)

\* The record of an answered call does not change any more.
LEMMA AnsweredStay ==
    ASSUME IInv, TaskAssumption, Next, NEW a \in saved.answered
    PROVE  ops'[a.id] = ops[a.id]
<1>1. a.id \in OpId /\ ops[a.id].state = "completed" /\ ops \in [OpId -> Op]
    BY DEF IInv, TypeOK, Checkpoint, Agrees, Pending
<1>2. CASE (BeginOperation \/ BeginOperationFails) /\ ops' = Intended
    <2>1. /\ pc = "exec" /\ cp.pending # << >>
          /\ ops[Current.id].state \in {"absent", "retry"}
        BY <1>2 DEF BeginOperation, BeginOperationFails, Reached
    <2> QED BY <1>1, <1>2, <2>1 DEF Intended
<1>3. CASE RunTool \/ RunInterrupted
    BY <1>3 DEF RunTool, RunInterrupted
<1>4. CASE (FinishOperation \/ FinishOperationFails) /\ ops' = Completed(Current.id, got.result)
    <2>1. pc = "ran" /\ ops[Current.id].state = "started"
        BY <1>4 DEF FinishOperation, FinishOperationFails, IInv, PcInv
    <2> QED BY <1>1, <1>4, <2>1 DEF Completed
<1>5. CASE ResolveOperation
    <2>1. PICK i \in Unresolved :
             \/ ops' = [ops EXCEPT ![i].state = "retry"]
             \/ \E r \in Result \ Failure : ops' = Completed(i, r)
        BY <1>5 DEF ResolveOperation
    <2>2. i \in OpId /\ ops[i].state = "started"
        BY <2>1 DEF Unresolved
    <2> QED BY <1>1, <2>1, <2>2 DEF Completed
<1> QED BY <1>2, <1>3, <1>4, <1>5, LedgerWrites

\* Checkpoint c tells the same history as d, plans to skip no more, and repeats
\* no call d answered.
SameHistory(c, d) ==
    /\ c.answered = d.answered /\ c.skipped = d.skipped /\ c.digests = d.digests
    /\ c.repeats \subseteq d.repeats
    /\ d.unnumbered => c.unnumbered
    /\ \/ c.pending = d.pending
       \/ \A j \in 1 .. Len(c.pending) : c.pending[j].id[1] = d.batch + 1

Skipping  == [cp EXCEPT !.pending = Tail(@), !.skipped = @ \cup {Current}]
Converged == [cp EXCEPT !.repeats = @ \cup {got.call}, !.noProgress = 0]

\* A save with the same messages, calls and number leaves, when it is cut, what
\* was saved before.
LEMMA TornSame ==
    ASSUME saved \in Checkpoint, NEW c, NEW d \in Torn(c), d # c,
           c.answered = saved.answered, c.skipped = saved.skipped,
           c.pending = saved.pending, c.batch = saved.batch
    PROVE  d = saved
<1> DEFINE m == [saved EXCEPT !.answered = c.answered, !.skipped = c.skipped]
           k == [m EXCEPT !.pending = c.pending, !.unnumbered = @ \/ c.batch # saved.batch]
<1>1. m = saved
    BY DEF Checkpoint
<1>2. k = saved
    <2>1. [saved EXCEPT !.pending = saved.pending, !.unnumbered = saved.unnumbered] = saved
        BY DEF Checkpoint
    <2>2. (saved.unnumbered \/ c.batch # saved.batch) = saved.unnumbered
        BY DEF Checkpoint
    <2> QED BY <1>1, <2>1, <2>2
<1> QED BY <1>1, <1>2 DEF Torn

\* What a save of the same batch leaves when it is cut between its lines.
LEMMA TornParts ==
    ASSUME saved \in Checkpoint, NEW c, NEW d \in Torn(c), d # saved, d # c,
           c.batch = saved.batch
    PROVE  /\ d.answered = c.answered /\ d.skipped = c.skipped
           /\ d.repeats = saved.repeats /\ d.digests = saved.digests
           /\ d.pending \in {saved.pending, c.pending}
           /\ d.unnumbered = saved.unnumbered
<1> DEFINE m == [saved EXCEPT !.answered = c.answered, !.skipped = c.skipped]
           k == [m EXCEPT !.pending = c.pending, !.unnumbered = @ \/ c.batch # saved.batch]
<1>1. d = m \/ d = k
    BY DEF Torn
<1>2. /\ m.answered = c.answered /\ m.skipped = c.skipped
      /\ m.repeats = saved.repeats /\ m.digests = saved.digests
      /\ m.pending = saved.pending /\ m.unnumbered = saved.unnumbered
    BY DEF Checkpoint
<1>3. (saved.unnumbered \/ c.batch # saved.batch) = saved.unnumbered
    BY DEF Checkpoint
<1>4. /\ k.answered = c.answered /\ k.skipped = c.skipped
      /\ k.repeats = saved.repeats /\ k.digests = saved.digests
      /\ k.pending = c.pending /\ k.unnumbered = (saved.unnumbered \/ c.batch # saved.batch)
    BY DEF Checkpoint
<1> QED BY <1>1, <1>2, <1>3, <1>4

\* What is left of a save that adds nothing to the history adds nothing either.
LEMMA TornHistory ==
    ASSUME saved \in Checkpoint, NEW c, SameHistory(c, saved), NEW d \in Torn(c)
    PROVE  SameHistory(d, saved)
<1> DEFINE m == [saved EXCEPT !.answered = c.answered, !.skipped = c.skipped]
           k == [m EXCEPT !.pending = c.pending, !.unnumbered = @ \/ c.batch # saved.batch]
<1>1. d \in {saved, m, k, c}
    BY DEF Torn
<1>2. SameHistory(saved, saved) /\ SameHistory(m, saved)
    BY DEF Checkpoint, SameHistory
<1>3. SameHistory(k, saved)
    <2>1. /\ k.answered = c.answered /\ k.skipped = c.skipped /\ k.digests = saved.digests
          /\ k.repeats = saved.repeats /\ k.pending = c.pending
          /\ saved.unnumbered => k.unnumbered
        BY DEF Checkpoint
    <2> HIDE DEF k
    <2> QED BY <2>1 DEF SameHistory
<1> QED BY <1>1, <1>2, <1>3

\* The calls of a new batch carry its number.
LEMMA NewCalls ==
    ASSUME NEW calls \in Batches, NEW b
    PROVE  \A j \in 1 .. Len(Named(b, calls)) : Named(b, calls)[j].id[1] = b
<1>1. PICK n \in 1 .. MaxCalls : calls \in [1 .. n -> Call]
    BY DEF Batches
<1>2. Named(b, calls) = [j \in 1 .. n |-> [id |-> << b, j >>, call |-> calls[j]]]
    BY <1>1 DEF Named
<1>3. Len(Named(b, calls)) = n
    BY <1>1, <1>2
<1> QED BY <1>2, <1>3

\* What a step may do to the history in the saved checkpoint.
LEMMA HistoryWrites ==
    ASSUME IInv, TaskAssumption, Next
    PROVE  \/ SameHistory(saved', saved)
           \/ AnswerCall /\ saved' \in Torn(Answered)
           \/ SkipRepeated /\ saved' \in Torn(Skipping)
           \/ Converge /\ saved' = Converged
<1>1. saved \in Checkpoint /\ (Working => cp = saved)
    BY DEF IInv, TypeOK, PcInv
<1>2. saved' = saved => SameHistory(saved', saved)
    BY DEF SameHistory
<1>9. ASSUME NEW c, NEW next, SaveStep(c, next) PROVE saved' \in Torn(c)
    BY <1>9 DEF SaveStep, Save, SaveFails, SaveDies, Torn
<1>3. ASSUME NEW c, NEW next, SaveStep(c, next), SameHistory(c, saved)
      PROVE  SameHistory(saved', saved)
    BY <1>1, <1>3, <1>9, TornHistory
<1>4. CASE LoopStep
    <2>1. CASE \/ OutOfIterations \/ NextIteration \/ Interrupted \/ RoutePending
               \/ RouteCandidate \/ RouteModel \/ ProviderFails \/ ReturnAfterSave
        BY <1>2, <2>1 DEF OutOfIterations, NextIteration, Interrupted, RoutePending,
             RouteCandidate, RouteModel, ProviderFails, ReturnAfterSave, Stop, FaultStop, Goto
    <2>2. CASE \/ ResumeVerified \/ GateAsksForTools \/ GateAsksForSynthesis \/ ModelAsksForTools
               \/ ModelStalls \/ AnswerRefused \/ AnswerProposed \/ ObserveOnlyLimit
        <3>1. cp = saved
            BY <1>1, <2>2 DEF ResumeVerified, GateAsksForTools, GateAsksForSynthesis, GateApplies,
                 Unverified, ModelAsksForTools, ModelStalls, AnswerRefused, AnswerProposed,
                 AfterReply, ObserveOnlyLimit, Working
        <3>2. ASSUME NEW c, AfterReply(c), SameHistory(c, saved) PROVE SameHistory(saved', saved)
            BY <1>3, <3>2 DEF AfterReply
        <3>3. CASE ResumeVerified
            <4>1. SameHistory([saved EXCEPT !.verdict = "none", !.assessed = {}], saved)
                BY <1>1 DEF Checkpoint, SameHistory
            <4> QED BY <1>2, <1>3, <3>1, <3>3, <4>1 DEF ResumeVerified, Goto
        <3>4. CASE GateAsksForTools
            <4>1. PICK calls \in Batches :
                     SaveStep([saved EXCEPT !.batch = @ + 1, !.candidate = FALSE,
                                            !.pending = Named(cp.batch + 1, calls)], "loop")
                BY <3>1, <3>4 DEF GateAsksForTools
            <4>2. SameHistory([saved EXCEPT !.batch = @ + 1, !.candidate = FALSE,
                                            !.pending = Named(cp.batch + 1, calls)], saved)
                <5> DEFINE p == Named(cp.batch + 1, calls)
                <5>1. \A j \in 1 .. Len(p) : p[j].id[1] = saved.batch + 1
                    BY <3>1, NewCalls
                <5> HIDE DEF p
                <5>2. SameHistory([saved EXCEPT !.batch = @ + 1, !.candidate = FALSE,
                                                !.pending = p], saved)
                    BY <1>1, <5>1 DEF Checkpoint, SameHistory
                <5> QED BY <5>2 DEF p
            <4> QED BY <1>2, <1>3, <4>1, <4>2
        <3>5. CASE GateAsksForSynthesis
            <4>1. SameHistory([saved EXCEPT !.candidate = FALSE, !.synthesis = TRUE], saved)
                BY <1>1 DEF Checkpoint, SameHistory
            <4> QED BY <1>2, <1>3, <3>1, <3>5, <4>1 DEF GateAsksForSynthesis
        <3>6. CASE ModelAsksForTools
            <4>1. PICK calls \in Batches :
                     AfterReply([saved EXCEPT !.batch = @ + 1, !.stalls = 0,
                                              !.pending = Named(cp.batch + 1, calls)])
                BY <3>1, <3>6 DEF ModelAsksForTools
            <4>2. SameHistory([saved EXCEPT !.batch = @ + 1, !.stalls = 0,
                                            !.pending = Named(cp.batch + 1, calls)], saved)
                <5> DEFINE p == Named(cp.batch + 1, calls)
                <5>1. \A j \in 1 .. Len(p) : p[j].id[1] = saved.batch + 1
                    BY <3>1, NewCalls
                <5> HIDE DEF p
                <5>2. SameHistory([saved EXCEPT !.batch = @ + 1, !.stalls = 0,
                                                !.pending = p], saved)
                    BY <1>1, <5>1 DEF Checkpoint, SameHistory
                <5> QED BY <5>2 DEF p
            <4> QED BY <1>2, <3>2, <4>1, <4>2
        <3>7. CASE ModelStalls
            <4>1. SameHistory([saved EXCEPT !.stalls = Bump(@)], saved)
                BY <1>1 DEF Checkpoint, SameHistory
            <4> QED BY <1>2, <3>1, <3>2, <3>7, <4>1 DEF ModelStalls
        <3>8. CASE AnswerRefused
            <4>1. SameHistory([saved EXCEPT !.noProgress = Bump(@)], saved)
                BY <1>1 DEF Checkpoint, SameHistory
            <4> QED BY <1>2, <3>1, <3>2, <3>8, <4>1 DEF AnswerRefused
        <3>9. CASE AnswerProposed
            <4>1. SameHistory([saved EXCEPT !.candidate = TRUE, !.stalls = 0], saved)
                BY <1>1 DEF Checkpoint, SameHistory
            <4> QED BY <1>2, <3>1, <3>2, <3>9, <4>1 DEF AnswerProposed
        <3>10. CASE ObserveOnlyLimit
            <4>1. SameHistory(saved, saved)
                BY DEF SameHistory
            <4> QED BY <1>3, <3>1, <3>10, <4>1 DEF ObserveOnlyLimit
        <3> QED BY <2>2, <3>3, <3>4, <3>5, <3>6, <3>7, <3>8, <3>9, <3>10
    <2> QED BY <1>4, <2>1, <2>2 DEF LoopStep
<1>5. CASE ReviewStep
    <2>1. cp = saved
        BY <1>1, <1>5 DEF ReviewStep, DirectResponse, LedgerShortcut, Review, WithdrawCandidate,
             FinishLoop, ReportDone, Working
    <2>2. \A s : SameHistory(Verified(s), saved)
        BY <1>1, <2>1 DEF Checkpoint, SameHistory, Verified
    <2>3. CASE DirectResponse \/ LedgerShortcut
        BY <1>2, <1>3, <2>2, <2>3 DEF DirectResponse, LedgerShortcut
    <2>4. CASE Review
        <3>1. SameHistory([saved EXCEPT !.verdict = "other"], saved)
            BY <1>1 DEF Checkpoint, SameHistory
        <3> QED BY <1>2, <1>3, <2>1, <2>2, <2>4, <3>1 DEF Review, Stop
    <2>5. CASE WithdrawCandidate
        <3>1. SameHistory([saved EXCEPT !.candidate = FALSE, !.verdict = "none"], saved)
            BY <1>1 DEF Checkpoint, SameHistory
        <3> QED BY <1>2, <1>3, <2>1, <2>5, <3>1 DEF WithdrawCandidate
    <2>6. CASE FinishLoop \/ ReportDone
        <3>1. SameHistory(saved, saved)
            BY DEF SameHistory
        <3> QED BY <1>2, <1>3, <2>1, <2>6, <3>1 DEF FinishLoop, ReportDone, Stop, FaultStop
    <2> QED BY <1>5, <2>3, <2>4, <2>5, <2>6 DEF ReviewStep
<1>6. CASE ExecStep
    <2>1. CASE SkipRepeated
        BY <1>9, <2>1 DEF SkipRepeated, Skipping
    <2>2. CASE Converge
        <3>1. saved' \in Torn(Converged) /\ cp = saved
            BY <1>1, <1>9, <2>2 DEF Converge, Converged, Working
        <3>2. CASE saved' # Converged
            <4>1. /\ Converged.answered = saved.answered /\ Converged.skipped = saved.skipped
                  /\ Converged.pending = saved.pending /\ Converged.batch = saved.batch
                BY <1>1, <3>1 DEF Converged, Checkpoint
            <4> HIDE DEF Converged
            <4>2. saved' = saved
                BY <1>1, <3>1, <3>2, <4>1, TornSame
            <4> QED BY <1>2, <4>2
        <3> QED BY <2>2, <3>2
    <2>3. CASE AnswerCall
        BY <1>9, <2>3 DEF AnswerCall
    <2>4. CASE BatchDone
        <3>1. SameHistory([saved EXCEPT !.repeats = {}], saved)
            BY <1>1 DEF Checkpoint, SameHistory
        <3> QED BY <1>1, <1>2, <1>3, <2>4, <3>1 DEF BatchDone, Goto, Working
    <2>5. CASE ~ (SkipRepeated \/ Converge \/ AnswerCall \/ BatchDone)
        BY <1>2, <1>6, <2>5 DEF ExecStep, ExecInterrupted, BeginOperation, BeginOperationFails,
             ReplayStarted, RefuseAmbiguous, ReuseCompleted, CancelBeforeRun,
             AnswerWithoutRunning, RunTool, RunInterrupted, FinishOperation,
             FinishOperationFails, SessionGone, Stop, FaultStop, Goto
    <2> QED BY <2>1, <2>2, <2>3, <2>4, <2>5
<1>7. CASE StartLoop
    <2>1. SameHistory([saved EXCEPT !.stalls = 0], saved)
        BY <1>1 DEF Checkpoint, SameHistory
    <2> QED BY <1>2, <1>3, <1>7, <2>1 DEF StartLoop
<1>8. CASE ClaimSlice \/ LeaveTask \/ ReleaseSlice \/ Outside
    BY <1>2, <1>8 DEF ClaimSlice, LeaveTask, ReleaseSlice, Outside, Crash, Die, ListTasks,
         ResumeAtStartup, ContinueTask, ResolveOperation
<1> QED BY <1>4, <1>5, <1>6, <1>7, <1>8 DEF Next, RunStep, SliceStep

\* A result is in hand only after a run, a reuse or a record; convergence follows
\* an answer.
LEMMA ExecTargets ==
    ASSUME Next, pc' \in {"ran", "answer", "converge"}
    PROVE  AnswerWithoutRunning \/ RunTool \/ ReuseCompleted \/ FinishOperation \/ AnswerCall
<1>1. ASSUME NEW c, NEW next, SaveStep(c, next), next \notin {"ran", "answer", "converge"}
      PROVE  FALSE
    BY <1>1 DEF SaveStep, Save, SaveFails, SaveDies, Die, StopWith
<1>2. ASSUME NEW next, Goto(next), next \notin {"ran", "answer", "converge"} PROVE FALSE
    BY <1>2 DEF Goto
<1>3. ASSUME NEW o, Stop(o) \/ FaultStop(o) PROVE FALSE
    BY <1>3 DEF Stop, FaultStop, StopWith
<1>4. ~ (OutOfIterations \/ NextIteration \/ Interrupted \/ RoutePending \/ RouteCandidate
         \/ RouteModel)
    BY <1>2, <1>3 DEF OutOfIterations, NextIteration, Interrupted, RoutePending,
         RouteCandidate, RouteModel
<1>12. ~ ResumeVerified
    BY <1>1, <1>2 DEF ResumeVerified
<1>5. ~ (GateAsksForSynthesis \/ ProviderFails \/ ReturnAfterSave \/ ObserveOnlyLimit)
    BY <1>1, <1>3 DEF GateAsksForSynthesis, ProviderFails, ReturnAfterSave, ObserveOnlyLimit
<1>13. ~ GateAsksForTools
    <2>1. ASSUME GateAsksForTools PROVE \E c : SaveStep(c, "loop")
        BY <2>1 DEF GateAsksForTools
    <2> QED BY <1>1, <2>1
<1>6. ~ (ModelAsksForTools \/ ModelStalls \/ AnswerRefused \/ AnswerProposed)
    <2>1. \A c : ~ AfterReply(c)
        BY <1>1 DEF AfterReply
    <2> QED BY <2>1 DEF ModelAsksForTools, ModelStalls, AnswerRefused, AnswerProposed
<1>7. ~ ReviewStep
    BY <1>1, <1>3 DEF ReviewStep, DirectResponse, LedgerShortcut, Review, WithdrawCandidate,
         FinishLoop, ReportDone
<1>8. ~ (ClaimSlice \/ LeaveTask \/ StartLoop \/ ReleaseSlice)
    BY <1>1 DEF ClaimSlice, LeaveTask, StartLoop, ReleaseSlice, slice
<1>9. ~ Outside
    BY DEF Outside, Crash, Die, ListTasks, ResumeAtStartup, ContinueTask, ResolveOperation,
         Between, slice
<1>10. ~ (SkipRepeated \/ Converge \/ BatchDone)
    BY <1>1, <1>2 DEF SkipRepeated, Converge, BatchDone
<1>11. ~ (ExecInterrupted \/ BeginOperation \/ BeginOperationFails \/ ReplayStarted
          \/ RefuseAmbiguous \/ CancelBeforeRun \/ RunInterrupted \/ FinishOperationFails
          \/ SessionGone)
    BY <1>2, <1>3 DEF ExecInterrupted, BeginOperation, BeginOperationFails, ReplayStarted,
         RefuseAmbiguous, CancelBeforeRun, RunInterrupted, FinishOperationFails, SessionGone,
         StopWith
<1> QED BY <1>4, <1>5, <1>6, <1>7, <1>8, <1>9, <1>10, <1>11, <1>12,
   <1>13 DEF Next, RunStep, SliceStep, LoopStep, ExecStep

\* The result in hand is of the call at hand, and once recorded it is the record.
LEMMA InHand ==
    ASSUME IInv, RepeatInv, TaskAssumption, Next, pc' \in {"ran", "answer"}
    PROVE  /\ got'.call = Current'.call
           /\ pc' = "answer" => got'.result = ops'[Current'.id].result
<1>1. AnswerWithoutRunning \/ RunTool \/ ReuseCompleted \/ FinishOperation
    <2>1. ~ AnswerCall
        BY DEF AnswerCall, SaveStep, Save, SaveFails, SaveDies, Die, StopWith
    <2> QED BY <2>1, ExecTargets
<1>2. cp' = cp
    BY <1>1 DEF AnswerWithoutRunning, RunTool, ReuseCompleted, FinishOperation
<1>3. CASE AnswerWithoutRunning \/ RunTool
    BY <1>2, <1>3 DEF AnswerWithoutRunning, RunTool, FreshAnswers, Current
<1>4. CASE ReuseCompleted
    BY <1>2, <1>4 DEF ReuseCompleted, world, Current
<1>5. CASE FinishOperation
    <2>1. Working /\ cp.pending # << >> /\ got' = got /\ got.call = Current.call
          /\ ops' = Completed(Current.id, got.result) /\ Current' = Current
        BY <1>2, <1>5 DEF FinishOperation, IInv, PcInv, RepeatInv, Working, Current
    <2>2. Current.id \in OpId /\ ops \in [OpId -> Op]
        BY <2>1, NextCall DEF IInv, TypeOK
    <2>3. ops'[Current.id].result = got.result
        BY <2>1, <2>2 DEF Completed, Op
    <2> QED BY <2>1, <2>3
<1> QED BY <1>1, <1>3, <1>4, <1>5

\* What was earned stays earned while the history stays.
LEMMA EarnedStays ==
    ASSUME IInv, RepeatInv, TaskAssumption, SameHistory(saved', saved), ~ saved'.unnumbered,
           \A a \in saved.answered : ops'[a.id] = ops[a.id]
    PROVE  Earned(saved)'
<1>1. \A x : Twice(saved, x) => Twice(saved, x)'
    BY DEF Twice, SameHistory
<1>2. ~ saved.unnumbered /\ Earned(saved) /\ WellNamed(saved) /\ saved \in Checkpoint
    BY DEF RepeatInv, SameHistory, IInv, TypeOK
<1>3. ASSUME NEW a \in saved.answered,
             \A j \in 1 .. Len(saved.pending) : a.id # saved.pending[j].id
      PROVE  \A j \in 1 .. Len(saved'.pending) : a.id # saved'.pending[j].id
    <2>1. a.id[1] <= saved.batch /\ a.id[1] \in Int /\ saved.batch \in Int
        BY <1>2 DEF WellNamed, Checkpoint, Pending, OpId
    <2>2. CASE saved'.pending = saved.pending
        BY <1>3, <2>2
    <2>3. CASE \A j \in 1 .. Len(saved'.pending) : saved'.pending[j].id[1] = saved.batch + 1
        <3>1. a.id[1] # saved.batch + 1
            BY <2>1
        <3> QED BY <2>3, <3>1
    <2> QED BY <2>2, <2>3 DEF SameHistory
<1>4. DigestsEarned(saved)'
    BY <1>2, <1>3 DEF Earned, DigestsEarned, SameHistory
<1>5. RepeatsEarned(saved)' /\ SkipsEarned(saved)'
    BY <1>1, <1>2 DEF Earned, RepeatsEarned, SkipsEarned, SameHistory
<1> QED BY <1>4, <1>5 DEF Earned

\* Taking the next call off the batch brings no answered call back.
LEMMA FewerPending ==
    ASSUME saved \in Checkpoint, saved.pending # << >>,
           saved'.pending \in {saved.pending, Tail(saved.pending)},
           NEW a, \A j \in 1 .. Len(saved.pending) : a.id # saved.pending[j].id
    PROVE  \A j \in 1 .. Len(saved'.pending) : a.id # saved'.pending[j].id
<1>1. saved.pending \in Seq(Pending)
    BY DEF Checkpoint
<1>2. \A j \in 1 .. Len(Tail(saved.pending)) :
         j + 1 \in 1 .. Len(saved.pending) /\ Tail(saved.pending)[j] = saved.pending[j + 1]
    BY <1>1
<1> QED BY <1>2

\* An answered call enters the history with its recorded result, whole or torn.
LEMMA AnswerEarned ==
    ASSUME IInv, RepeatInv, TaskAssumption, AnswerCall, saved' \in Torn(Answered),
           ~ saved'.unnumbered
    PROVE  Earned(saved)'
<1>1. /\ cp = saved /\ saved \in Checkpoint /\ Current.call \in Call /\ ops' = ops
      /\ got.call = Current.call /\ got.result = ops[Current.id].result
      /\ saved.pending # << >> /\ Current = Head(saved.pending)
    BY NextCall DEF AnswerCall, SaveStep, SaveDies, Die, world, IInv, TypeOK, PcInv, Working,
                    RepeatInv, Current
<1>2. /\ Answered.answered = saved.answered \cup {Current} /\ Answered.skipped = saved.skipped
      /\ Answered.repeats = saved.repeats /\ Answered.pending = Tail(saved.pending)
      /\ Answered.digests = [saved.digests EXCEPT ![Current.call] = got.result]
      /\ Answered.batch = saved.batch /\ Answered.unnumbered = saved.unnumbered
    BY <1>1 DEF Answered, Checkpoint
<1>3. /\ saved'.answered \in {saved.answered, Answered.answered}
      /\ saved'.skipped = saved.skipped /\ saved'.repeats = saved.repeats
      /\ saved'.pending \in {saved.pending, Tail(saved.pending)}
      /\ saved'.digests = saved.digests \/ saved' = Answered
      /\ saved'.unnumbered = saved.unnumbered
    <2> HIDE DEF Answered
    <2>1. CASE saved' = saved \/ saved' = Answered
        BY <1>1, <1>2, <2>1
    <2>2. CASE saved' # saved /\ saved' # Answered
        <3>1. saved \in Checkpoint /\ Answered.batch = saved.batch
            BY <1>1, <1>2
        <3>2. /\ saved'.answered = Answered.answered /\ saved'.skipped = Answered.skipped
              /\ saved'.repeats = saved.repeats /\ saved'.digests = saved.digests
              /\ saved'.pending \in {saved.pending, Answered.pending}
              /\ saved'.unnumbered = saved.unnumbered
            BY <2>2, <3>1, TornParts
        <3> QED BY <1>2, <3>2
    <2> QED BY <2>1, <2>2
<1>4. Earned(saved)
    BY <1>3 DEF RepeatInv
<1> HIDE DEF Answered
<1>5. \A x : Twice(saved, x) => Twice(saved, x)'
    BY <1>1, <1>2, <1>3 DEF Twice
<1>6. RepeatsEarned(saved)' /\ SkipsEarned(saved)'
    BY <1>3, <1>4, <1>5 DEF Earned, RepeatsEarned, SkipsEarned
<1>7. DigestsEarned(saved)'
    <2>1. saved.digests \in [Call -> Result \cup {None}]
        BY <1>1 DEF Checkpoint
    <2>2. ASSUME NEW x \in Call, saved'.digests[x] # None
          PROVE  \E a \in saved'.answered :
                    /\ a.call = x /\ ops[a.id].result = saved'.digests[x]
                    /\ \A j \in 1 .. Len(saved'.pending) : a.id # saved'.pending[j].id
        <3>1. CASE saved'.digests[x] = saved.digests[x]
            <4>1. PICK a \in saved.answered :
                     /\ a.call = x /\ ops[a.id].result = saved.digests[x]
                     /\ \A j \in 1 .. Len(saved.pending) : a.id # saved.pending[j].id
                BY <1>4, <2>2, <3>1 DEF Earned, DigestsEarned
            <4>2. a \in saved'.answered
                BY <1>2, <1>3
            <4>3. \A j \in 1 .. Len(saved'.pending) : a.id # saved'.pending[j].id
                BY <1>1, <1>3, <4>1, FewerPending
            <4> QED BY <3>1, <4>1, <4>2, <4>3
        <3>2. CASE saved'.digests[x] # saved.digests[x]
            <4>1. saved' = Answered /\ x = Current.call /\ saved'.digests[x] = got.result
                BY <1>2, <1>3, <2>1, <3>2
            <4>2. \A j \in 1 .. Len(saved'.pending) : Current.id # saved'.pending[j].id
                BY <1>1, <1>2, <4>1, DropHead
            <4> QED BY <1>1, <1>2, <4>1, <4>2
        <3> QED BY <3>1, <3>2
    <2> QED BY <1>1, <2>2 DEF DigestsEarned
<1> QED BY <1>6, <1>7 DEF Earned

\* A skipped call was answered twice alike, and nothing else is added.
LEMMA SkipEarned ==
    ASSUME IInv, RepeatInv, TaskAssumption, SkipRepeated, saved' \in Torn(Skipping),
           ~ saved'.unnumbered
    PROVE  Earned(saved)'
<1>1. /\ cp = saved /\ saved \in Checkpoint /\ ops' = ops /\ saved.pending # << >>
      /\ Current.call \in saved.repeats
    BY DEF SkipRepeated, SaveStep, SaveDies, Die, world, IInv, TypeOK, PcInv, Working
<1>2. /\ Skipping.answered = saved.answered /\ Skipping.skipped = saved.skipped \cup {Current}
      /\ Skipping.repeats = saved.repeats /\ Skipping.pending = Tail(saved.pending)
      /\ Skipping.digests = saved.digests
      /\ Skipping.batch = saved.batch /\ Skipping.unnumbered = saved.unnumbered
    BY <1>1 DEF Skipping, Checkpoint
<1>3. /\ saved'.answered = saved.answered /\ saved'.digests = saved.digests
      /\ saved'.repeats = saved.repeats
      /\ saved'.skipped \in {saved.skipped, saved.skipped \cup {Current}}
      /\ saved'.pending \in {saved.pending, Tail(saved.pending)}
      /\ saved'.unnumbered = saved.unnumbered
    <2> HIDE DEF Skipping
    <2>1. CASE saved' = saved \/ saved' = Skipping
        BY <1>1, <1>2, <2>1
    <2>2. CASE saved' # saved /\ saved' # Skipping
        <3>1. saved \in Checkpoint /\ Skipping.batch = saved.batch
            BY <1>1, <1>2
        <3>2. /\ saved'.answered = Skipping.answered /\ saved'.skipped = Skipping.skipped
              /\ saved'.repeats = saved.repeats /\ saved'.digests = saved.digests
              /\ saved'.pending \in {saved.pending, Skipping.pending}
              /\ saved'.unnumbered = saved.unnumbered
            BY <2>2, <3>1, TornParts
        <3> QED BY <1>2, <3>2
    <2> QED BY <2>1, <2>2
<1>4. Earned(saved)
    BY <1>3 DEF RepeatInv
<1>5. \A x : Twice(saved, x) => Twice(saved, x)'
    BY <1>1, <1>3 DEF Twice
<1>6. RepeatsEarned(saved)' /\ SkipsEarned(saved)'
    BY <1>1, <1>3, <1>4, <1>5 DEF Earned, RepeatsEarned, SkipsEarned
<1>7. DigestsEarned(saved)'
    <2>1. ASSUME NEW a, \A j \in 1 .. Len(saved.pending) : a.id # saved.pending[j].id
          PROVE  \A j \in 1 .. Len(saved'.pending) : a.id # saved'.pending[j].id
        BY <1>1, <1>3, <2>1, FewerPending
    <2> QED BY <1>1, <1>3, <1>4, <2>1 DEF Earned, DigestsEarned
<1> QED BY <1>6, <1>7 DEF Earned

\* The loop converges on a call that was answered twice alike.
LEMMA ConvergesOnTwice ==
    ASSUME IInv, RepeatInv, TaskAssumption, AnswerCall, pc' = "converge", RepeatLimit > 1,
           ~ saved'.unnumbered
    PROVE  Twice(saved, got.call)'
<1>1. /\ pc = "answer" /\ cp = saved /\ saved \in Checkpoint /\ cp.pending # << >>
      /\ got.call = Current.call /\ got.result = ops[Current.id].result /\ got.result \in Result
      /\ Current = saved.pending[1] /\ Current.call \in Call
    BY NextCall DEF AnswerCall, IInv, TypeOK, PcInv, Working, RepeatInv
<1>2. /\ saved' = Answered /\ UNCHANGED << got, ops >>
      /\ Answered.noProgress + 1 >= RepeatLimit
    BY DEF AnswerCall, SaveStep, Save, SaveFails, SaveDies, Die, StopWith, world
<1>3. /\ saved'.answered = saved.answered \cup {Current}
      /\ Answered.noProgress = IF saved.digests[Current.call] = got.result
                               THEN Bump(saved.noProgress) ELSE 0
      /\ Answered.unnumbered = saved.unnumbered
    BY <1>1, <1>2 DEF Answered, Checkpoint
<1>4. saved.digests[Current.call] = got.result
    BY <1>2, <1>3, Bounds
<1>7. DigestsEarned(saved)
    BY <1>2, <1>3 DEF RepeatInv, Earned
<1>5. PICK a \in saved.answered : /\ a.call = Current.call /\ ops[a.id].result = got.result
                                  /\ \A j \in 1 .. Len(saved.pending) :
                                        a.id # saved.pending[j].id
    BY <1>1, <1>4, <1>7 DEF DigestsEarned, TaskAssumption
<1>6. a # Current
    BY <1>1, <1>5 DEF Checkpoint
<1> QED BY <1>1, <1>2, <1>3, <1>5, <1>6 DEF Twice

\* Every step keeps what was earned.
LEMMA RepeatStep == ASSUME IInv, RepeatInv, TaskAssumption, [Next]_vars PROVE RepeatInv'
<1>1. CASE UNCHANGED vars
    BY <1>1 DEF vars, RepeatInv, Earned, DigestsEarned, RepeatsEarned, SkipsEarned, Twice, Current
<1>2. CASE Next
    <2>1. ASSUME ~ saved'.unnumbered PROVE Earned(saved)'
        <3>1. CASE SameHistory(saved', saved)
            BY <1>2, <2>1, <3>1, EarnedStays, AnsweredStay
        <3>2. CASE AnswerCall /\ saved' \in Torn(Answered)
            BY <2>1, <3>2, AnswerEarned
        <3>3. CASE SkipRepeated /\ saved' \in Torn(Skipping)
            BY <2>1, <3>3, SkipEarned
        <3>4. CASE Converge /\ saved' = Converged
            <4>1. cp = saved /\ saved \in Checkpoint /\ ops' = ops /\ pc = "converge"
                BY <3>4 DEF Converge, SaveStep, SaveDies, Die, world, IInv, TypeOK, PcInv, Working
            <4>2. /\ saved'.answered = saved.answered /\ saved'.digests = saved.digests
                  /\ saved'.repeats = saved.repeats \cup {got.call}
                  /\ saved'.skipped = saved.skipped /\ saved'.pending = saved.pending
                  /\ saved'.unnumbered = saved.unnumbered
                BY <3>4, <4>1 DEF Converged, Checkpoint
            <4>3. \A x : Twice(saved, x) => Twice(saved, x)'
                BY <4>1, <4>2 DEF Twice
            <4>4. Earned(saved) /\ (RepeatLimit > 1 => Twice(saved, got.call))
                BY <2>1, <4>1, <4>2 DEF RepeatInv
            <4>5. RepeatsEarned(saved)' /\ SkipsEarned(saved)'
                BY <4>2, <4>3, <4>4 DEF Earned, RepeatsEarned, SkipsEarned
            <4>6. DigestsEarned(saved)'
                BY <4>1, <4>2, <4>4 DEF Earned, DigestsEarned
            <4> QED BY <4>5, <4>6 DEF Earned
        <3> QED BY <1>2, <3>1, <3>2, <3>3, <3>4, HistoryWrites
    <2>2. RepeatLimit > 1 /\ pc' = "converge" /\ ~ saved'.unnumbered => Twice(saved, got.call)'
        <3>1. pc' = "converge" => AnswerCall
            BY <1>2, ExecTargets DEF AnswerWithoutRunning, RunTool, ReuseCompleted, FinishOperation
        <3> QED BY <3>1, ConvergesOnTwice
    <2> QED BY <1>2, <2>1, <2>2, InHand DEF RepeatInv
<1> QED BY <1>1, <1>2

\* A repeated call is answered without running only after two recorded answers
\* of that call agreed, however crashes and torn saves cut the batch, unless they
\* made it lose its number.
THEOREM SkipsAreEarned == ASSUME TaskAssumption PROVE Spec => []SkippedAfterEqualResults
<1>1. Init => RepeatInv
    BY DEF Init, Fresh, RepeatInv, Earned, DigestsEarned, RepeatsEarned, SkipsEarned
<1>2. IInv /\ RepeatInv /\ [Next]_vars => RepeatInv'
    BY RepeatStep
<1>3. RepeatInv => SkippedAfterEqualResults
    BY DEF RepeatInv, Earned, SkipsEarned, Twice, SkippedAfterEqualResults
<1> QED BY <1>1, <1>2, <1>3, Invariance, PTL DEF Spec

-----------------------------------------------------------------------------
\* The task implements the abstract ledger.

\* Recording the intent names the next call, or leaves the ledger as it is when
\* the operator allowed a repetition.
LEMMA BeginIsName ==
    ASSUME IInv, TaskAssumption, BeginOperation \/ BeginOperationFails, ops' = Intended
    PROVE  [Ledger!Next]_(Ledger!vars)
<1>1. /\ pc = "exec" /\ cp.pending # << >> /\ UNCHANGED << effects, retried >>
      /\ ops[Current.id].state \in {"absent", "retry"}
    BY DEF BeginOperation, BeginOperationFails, Reached, counted
<1>2. /\ Current.id \in OpId /\ Current.call \in Call /\ ops \in [OpId -> Op]
      /\ ops[Current.id].state # "absent" => ops[Current.id].call = Current.call
    BY <1>1, NextCall DEF Working, IInv, TypeOK
<1>3. /\ ops' \in [OpId -> Op]
      /\ ops'[Current.id] = [ops[Current.id] EXCEPT !.state = "started", !.call = Current.call]
      /\ \A i \in OpId : i # Current.id => ops'[i] = ops[i]
    <2>1. ops[Current.id] \in Op
        BY <1>2
    <2>2. [ops[Current.id] EXCEPT !.state = "started", !.call = Current.call] \in Op
        BY <1>2, <2>1 DEF Op, OpState
    <2> QED BY <1>2, <2>2 DEF Intended
<1>4. ops'[Current.id].call = Current.call /\ ops'[Current.id].result = ops[Current.id].result
    BY <1>2, <1>3 DEF Op
<1>5. \A i \in OpId : ops'[i].result = ops[i].result
    BY <1>3, <1>4
<1>6. CASE ops[Current.id].state = "absent"
    <2>1. ops[Current.id].call = None
        BY <1>2, <1>6 DEF IInv, RecordInv
    <2>2. PICK j \in OpId, c \in Call : j = Current.id /\ c = Current.call
        BY <1>2
    <2>3. [i \in OpId |-> ops'[i].call] = [[i \in OpId |-> ops[i].call] EXCEPT ![j] = c]
        BY <1>2, <1>3, <1>4, <2>2
    <2>4. Ledger!Name(j, c)
        BY <1>1, <1>5, <2>1, <2>2, <2>3 DEF Ledger!Name
    <2> QED BY <2>4 DEF Ledger!Next
<1>7. CASE ops[Current.id].state = "retry"
    <2>1. \A i \in OpId : ops'[i].call = ops[i].call
        BY <1>2, <1>3, <1>4, <1>7
    <2> QED BY <1>1, <1>5, <2>1 DEF Ledger!vars
<1> QED BY <1>1, <1>6, <1>7

\* An operation that has started and has no result is open in the ledger.
LEMMA StartedIsOpen ==
    ASSUME IInv, TaskAssumption, NEW i \in OpId, ops[i].state \in {"started", "retry"}
    PROVE  Ledger!Open(i) /\ ops[i] \in Op
BY DEF IInv, TypeOK, RecordInv, Ledger!Open, TaskAssumption

\* Completing a started operation records its result.
LEMMA CompletedIsRecord ==
    ASSUME IInv, TaskAssumption, NEW i \in OpId, ops[i].state = "started",
           NEW r \in Result, ops' = Completed(i, r), UNCHANGED << effects, retried >>
    PROVE  [Ledger!Next]_(Ledger!vars)
<1>1. Ledger!Open(i) /\ ops \in [OpId -> Op]
    BY StartedIsOpen DEF IInv, TypeOK
<1>2. /\ ops'[i].call = ops[i].call /\ ops'[i].result = r
      /\ \A j \in OpId : j # i => ops'[j] = ops[j]
    BY <1>1 DEF Completed, Op
<1>3. /\ [j \in OpId |-> ops'[j].call] = [j \in OpId |-> ops[j].call]
      /\ [j \in OpId |-> ops'[j].result] = [[j \in OpId |-> ops[j].result] EXCEPT ![i] = r]
    BY <1>2
<1>4. Ledger!Record(i, r)
    BY <1>1, <1>3 DEF Ledger!Record
<1> QED BY <1>4 DEF Ledger!Next

LEMMA LedgerStep == ASSUME IInv, TaskAssumption, [Next]_vars PROVE [Ledger!Next]_(Ledger!vars)
<1>1. CASE UNCHANGED << ops, effects, retried >>
    BY <1>1 DEF Ledger!vars
<1>2. CASE (BeginOperation \/ BeginOperationFails) /\ ops' = Intended
    BY <1>2, BeginIsName
<1>3. CASE RunTool \/ RunInterrupted
    <2>1. /\ pc = "began" /\ cp.pending # << >> /\ ops[Current.id].state = "started"
          /\ Current.call \notin ReplaySafe => effects[Current.id] <= retried[Current.id]
          /\ effects' = [effects EXCEPT ![Current.id] = @ + 1] /\ UNCHANGED << ops, retried >>
        BY <1>3 DEF RunTool, RunInterrupted, IInv, PcInv
    <2>2. Current.id \in OpId /\ ops[Current.id].call = Current.call
        BY <2>1, NextCall DEF Working
    <2>3. Ledger!Open(Current.id)
        BY <2>1, <2>2, StartedIsOpen
    <2>4. Ledger!Run(Current.id)
        BY <2>1, <2>2, <2>3 DEF Ledger!Run, Ledger!MayRun
    <2> QED BY <2>2, <2>4 DEF Ledger!Next
<1>4. CASE (FinishOperation \/ FinishOperationFails) /\ ops' = Completed(Current.id, got.result)
    <2>1. /\ pc = "ran" /\ cp.pending # << >> /\ ops[Current.id].state = "started"
          /\ got.result \in Result /\ UNCHANGED << effects, retried >>
        BY <1>4 DEF FinishOperation, FinishOperationFails, counted, IInv, PcInv
    <2>2. Current.id \in OpId
        BY <2>1, NextCall DEF Working
    <2> QED BY <1>4, <2>1, <2>2, CompletedIsRecord
<1>5. CASE ResolveOperation
    <2>1. PICK i \in Unresolved :
             \/ /\ ops' = [ops EXCEPT ![i].state = "retry"]
                /\ retried' = [retried EXCEPT ![i] = @ + 1]
             \/ /\ \E r \in Result \ Failure : ops' = Completed(i, r)
                /\ UNCHANGED retried
        BY <1>5 DEF ResolveOperation
    <2>2. i \in OpId /\ ops[i].state = "started" /\ ops \in [OpId -> Op] /\ effects' = effects
        BY <1>5, UnresolvedIsNext DEF ResolveOperation, IInv, TypeOK
    <2>3. CASE /\ ops' = [ops EXCEPT ![i].state = "retry"]
               /\ retried' = [retried EXCEPT ![i] = @ + 1]
        <3>1. \A j \in OpId : ops'[j].call = ops[j].call /\ ops'[j].result = ops[j].result
            BY <2>2, <2>3 DEF Op
        <3>2. Ledger!Open(i)
            BY <2>2, StartedIsOpen
        <3>3. Ledger!Allow(i)
            BY <2>2, <2>3, <3>1, <3>2 DEF Ledger!Allow
        <3> QED BY <2>2, <3>3 DEF Ledger!Next
    <2>4. CASE (\E r \in Result \ Failure : ops' = Completed(i, r)) /\ UNCHANGED retried
        BY <2>2, <2>4, CompletedIsRecord
    <2> QED BY <2>1, <2>3, <2>4
<1> QED BY <1>1, <1>2, <1>3, <1>4, <1>5, LedgerWrites DEF vars

\* Every behaviour of the task is one of the abstract ledger: operations are
\* named once, run at most once plus the allowed repetitions, and results stay.
THEOREM ImplementsLedger == ASSUME TaskAssumption PROVE Spec => LedgerImplemented
<1>1. Init => Ledger!Init
    BY DEF Init, Ledger!Init, NoOp
<1>2. IInv /\ [Next]_vars => [Ledger!Next]_(Ledger!vars)
    BY LedgerStep
<1> QED BY <1>1, <1>2, Invariance, PTL DEF Spec, Ledger!Spec, LedgerImplemented
=============================================================================
