-------------------------- MODULE TurnPartsProofs --------------------------
(***************************************************************************)
(* Proofs about the parts of a turn, for every value of the constants: the *)
(* recall from memory with its timeout, the recap of a session after it,   *)
(* and the batch of tool calls between them.  Each has its inductive       *)
(* invariant (RecallInv, RecapInv, BatchInv with ResultsInv) and one lemma *)
(* for each action that changes what the invariant speaks of.              *)
(***************************************************************************)
EXTENDS MemoryRecall, Recaps, ToolBatch, FiniteSetTheorems, TLAPS

-----------------------------------------------------------------------------
(* MemoryRecall.                                                           *)

\* The outcome holds every hit of the search after asking for its note, if it has no error.
OutcomeIsWhole ==
    delivery.err = "nil" =>
        /\ \A i \in DOMAIN delivery.results : delivery.results[i] # "open"
        /\ search.hits # << >> => Len(delivery.results) = Len(search.hits)

\* The notes handled so far are those before the hit read next; an outcome is
\* there from its sending on, and the caller has it from the channel alone.
RecallInv ==
    /\ RecallTypeOK
    /\ Len(opened) + 1 = search.next /\ search.next <= Len(search.hits) + 1
    /\ \A i \in DOMAIN opened : opened[i] # "open"
    /\ search.reading => search.at = "read" /\ search.next <= Len(search.hits)
    /\ search.at = "scan" => search.hits = << >> /\ opened = << >>
    /\ delivery.sent => search.at = "end"
    /\ search.at \in {"send", "end"} => OutcomeIsWhole
    /\ recaller.returned /\ recaller.err = "nil" =>
          delivery.sent /\ delivery.err = "nil" /\ recaller.results = delivery.results

\* Hits are the sequences of hits up to the bound.
LEMMA HitsAreSequences ==
    /\ \A h \in Hits : h \in Seq(Hit) /\ Len(h) <= MaxHits /\ Len(h) \in Nat /\ DOMAIN h = 1..Len(h)
    /\ \A h \in Seq(Hit) : Len(h) <= MaxHits => h \in Hits
    /\ << >> \in Hits
<1>1. ASSUME NEW h \in Hits
      PROVE  h \in Seq(Hit) /\ Len(h) <= MaxHits /\ Len(h) \in Nat /\ DOMAIN h = 1..Len(h)
    <2>1. PICK n \in 0..MaxHits : h \in [1..n -> Hit]
        BY DEF Hits
    <2>2. n \in Nat /\ h \in Seq(Hit) /\ Len(h) = n
        BY <2>1, RecallAssumption
    <2> QED BY <2>1, <2>2, RecallAssumption
<1>2. ASSUME NEW h \in Seq(Hit), Len(h) <= MaxHits PROVE h \in Hits
    <2>1. Len(h) \in 0..MaxHits /\ h \in [1..Len(h) -> Hit]
        BY <1>2, RecallAssumption
    <2> QED BY <2>1 DEF Hits
<1>3. << >> \in Hits
    <2>1. << >> \in Seq(Hit) /\ Len(<< >>) = 0
        OBVIOUS
    <2>2. Len(<< >>) <= MaxHits
        BY <2>1, RecallAssumption
    <2> QED BY <1>2, <2>1, <2>2
<1> QED BY <1>1, <1>2, <1>3, RecallAssumption

\* Forming an outcome keeps the invariant when it is whole or has an error.
LEMMA FinishRecallKeeps ==
    ASSUME RecallInv, NEW err \in Err, NEW results \in Hits, FinishRecall(err, results),
           UNCHANGED <<opened, recaller, expired, observed>>, phase' \in {"scan", "read"},
           search.at \in {"scan", "read"},
           err = "nil" => /\ \A i \in DOMAIN results : results[i] # "open"
                          /\ search.hits # << >> => Len(results) = Len(search.hits)
    PROVE  RecallInv'
<1>1. /\ search \in Search /\ delivery \in [sent: BOOLEAN, err: Err, results: Hits]
      /\ delivery.sent = FALSE
    BY DEF RecallInv, RecallTypeOK
<1>2. /\ search' \in Search /\ search'.at = "send" /\ search'.reading = FALSE
      /\ search'.hits = search.hits /\ search'.next = search.next
    BY <1>1 DEF FinishRecall, Search
<1>3. /\ delivery' \in [sent: BOOLEAN, err: Err, results: Hits]
      /\ delivery'.sent = FALSE /\ delivery'.results = results
      /\ delivery'.err = "nil" => err = "nil"
    BY DEF FinishRecall, Err
<1>4. RecallTypeOK'
    BY <1>2, <1>3 DEF RecallInv, RecallTypeOK
<1>5. OutcomeIsWhole'
    BY <1>2, <1>3 DEF OutcomeIsWhole
<1>6. ~(recaller.returned /\ recaller.err = "nil")
    BY <1>1 DEF RecallInv
<1> QED BY <1>2, <1>3, <1>4, <1>5, <1>6 DEF RecallInv

\* Every step of a recall keeps the invariant.
LEMMA RecallStep == ASSUME RecallInv, [RecallNext]_recallVars PROVE RecallInv'
<1> DEFINE Deliveries == [sent: BOOLEAN, err: Err, results: Hits]
<1>1. /\ search \in Search /\ opened \in Hits /\ search.hits \in Hits
      /\ search.next \in 1..(MaxHits + 1) /\ delivery \in Deliveries
      /\ recaller \in [returned: BOOLEAN, err: Err, results: Hits]
    BY DEF RecallInv, RecallTypeOK, Search
<1>2. /\ opened \in Seq(Hit) /\ Len(opened) \in Nat /\ DOMAIN opened = 1..Len(opened)
      /\ Len(search.hits) \in Nat /\ Len(search.hits) <= MaxHits
      /\ DOMAIN search.hits = 1..Len(search.hits) /\ search.hits \in Seq(Hit)
    BY <1>1, HitsAreSequences
<1>3. ASSUME NEW note \in {"read", "gone"}, opened' = Append(opened, note), search.at = "read",
             search.next <= Len(search.hits),
             search' = [search EXCEPT !.next = @ + 1, !.reading = FALSE],
             UNCHANGED <<phase, delivery, recaller, expired, observed>>
      PROVE  RecallInv'
    <2>1. /\ opened' \in Seq(Hit) /\ Len(opened') = Len(opened) + 1
          /\ \A i \in DOMAIN opened' : opened'[i] # "open"
        BY <1>2, <1>3 DEF RecallInv, Hit
    <2>2. Len(opened) + 1 = search.next
        BY DEF RecallInv
    <2>3. search.next + 1 \in 1..(MaxHits + 1)
        BY <1>1, <1>2, <1>3, RecallAssumption
    <2>4. /\ search' \in Search /\ search'.next = search.next + 1 /\ search'.reading = FALSE
          /\ search'.at = "read" /\ search'.hits = search.hits
        BY <1>1, <1>3, <2>3 DEF Search
    <2>5. opened' \in Hits
        <3>1. Len(opened') <= MaxHits
            BY <1>1, <1>2, <1>3, <2>1, <2>2, RecallAssumption
        <3> QED BY <2>1, <3>1, HitsAreSequences
    <2>6. RecallTypeOK'
        BY <1>3, <2>4, <2>5 DEF RecallInv, RecallTypeOK
    <2>7. Len(opened') + 1 = search'.next /\ search'.next <= Len(search'.hits) + 1
        BY <1>1, <1>2, <1>3, <2>1, <2>2, <2>4
    <2>8. /\ delivery'.sent => search'.at = "end"
          /\ recaller'.returned /\ recaller'.err = "nil" =>
                delivery'.sent /\ delivery'.err = "nil" /\ recaller'.results = delivery'.results
        BY <1>3 DEF RecallInv
    <2> QED BY <2>1, <2>4, <2>6, <2>7, <2>8 DEF RecallInv
<1>4. Filled \in Hits /\ (IF Filled = << >> THEN search.hits ELSE Filled) \in Hits
    BY <1>1 DEF Filled
<1>5. CASE ScanReturns
    <2>1. PICK hits \in Hits, err \in Err :
             IF err = "nil" /\ \E i \in DOMAIN hits : hits[i] = "open"
             THEN /\ search' = [search EXCEPT !.at = "read", !.hits = hits]
                  /\ phase' = "read"
                  /\ UNCHANGED delivery
             ELSE FinishRecall(err, hits) /\ UNCHANGED phase
        BY <1>5 DEF ScanReturns
    <2>2. search.at = "scan" /\ UNCHANGED <<opened, recaller, expired, observed>>
        BY <1>5 DEF ScanReturns
    <2>3. search.hits = << >> /\ opened = << >>
        BY <2>2 DEF RecallInv
    <2>4. CASE err = "nil" /\ \E i \in DOMAIN hits : hits[i] = "open"
        <3>1. /\ search' \in Search /\ search'.at = "read" /\ search'.hits = hits
              /\ search'.next = search.next /\ search'.reading = search.reading
              /\ phase' = "read" /\ delivery' = delivery
            BY <1>1, <2>1, <2>4 DEF Search
        <3>2. Len(hits) \in Nat
            BY HitsAreSequences
        <3>3. ~search.reading /\ search.next = 1 /\ ~delivery.sent
            BY <1>1, <2>2, <2>3 DEF RecallInv
        <3>4. RecallTypeOK'
            BY <2>2, <3>1 DEF RecallInv, RecallTypeOK
        <3>5. search'.next <= Len(search'.hits) + 1
            BY <3>1, <3>2, <3>3
        <3> QED BY <2>2, <3>1, <3>3, <3>4, <3>5 DEF RecallInv
    <2>5. CASE ~(err = "nil" /\ \E i \in DOMAIN hits : hits[i] = "open")
        <3>1. err = "nil" => \A i \in DOMAIN hits : hits[i] # "open"
            BY <2>5
        <3>2. phase' \in {"scan", "read"} /\ FinishRecall(err, hits)
            BY <2>1, <2>5 DEF RecallInv, RecallTypeOK
        <3> QED BY <2>2, <2>3, <3>1, <3>2, FinishRecallKeeps
    <2> QED BY <2>4, <2>5
<1>6. CASE StopAtDeadline
    <2>1. phase' \in {"scan", "read"}
        BY <1>6 DEF StopAtDeadline, RecallInv, RecallTypeOK
    <2> QED BY <1>4, <1>6, <2>1, FinishRecallKeeps DEF StopAtDeadline, Err
<1>7. CASE TakeRead
    <2>1. CASE search.hits[search.next] = "read"
        <3>1. /\ opened' = Append(opened, "read") /\ search' = [search EXCEPT !.next = @ + 1]
              /\ ~search.reading
            BY <1>7, <2>1 DEF TakeRead
        <3>2. search' = [search EXCEPT !.next = @ + 1, !.reading = FALSE]
            BY <1>1, <3>1 DEF Search
        <3> QED BY <1>3, <1>7, <3>1, <3>2 DEF TakeRead
    <2>2. CASE search.hits[search.next] # "read"
        <3>1. /\ search' = [search EXCEPT !.reading = TRUE] /\ opened' = opened
              /\ search.at = "read" /\ search.next <= Len(search.hits)
              /\ UNCHANGED <<phase, delivery, recaller, expired, observed>>
            BY <1>7, <2>2 DEF TakeRead
        <3>2. /\ search' \in Search /\ search'.at = "read" /\ search'.hits = search.hits
              /\ search'.next = search.next
            BY <1>1, <3>1 DEF Search
        <3> QED BY <3>1, <3>2 DEF RecallInv, RecallTypeOK
    <2> QED BY <2>1, <2>2
<1>8. CASE NoteRead
    <2>1. search.next <= Len(search.hits)
        BY <1>8 DEF NoteRead, RecallInv
    <2> QED BY <1>3, <1>8, <2>1 DEF NoteRead
<1>9. CASE NoteFails
    <2>1. phase' \in {"scan", "read"}
        BY <1>9 DEF NoteFails, RecallInv, RecallTypeOK
    <2> QED BY <1>1, <1>4, <1>9, <2>1, FinishRecallKeeps DEF NoteFails, Err
<1>10. CASE AllRead
    <2>1. phase' \in {"scan", "read"} /\ search.at = "read" /\ FinishRecall("nil", opened)
        BY <1>10 DEF AllRead, Filled, RecallInv, RecallTypeOK
    <2>2. Len(opened) = Len(search.hits)
        BY <1>1, <1>2, <1>10 DEF AllRead, RecallInv
    <2>3. \A i \in DOMAIN opened : opened[i] # "open"
        BY DEF RecallInv
    <2> QED BY <1>1, <1>10, <2>1, <2>2, <2>3, FinishRecallKeeps DEF AllRead, Err
<1>11. CASE SendOutcome
    <2>1. /\ search.at = "send" /\ search' = [search EXCEPT !.at = "end"]
          /\ delivery' = [delivery EXCEPT !.sent = TRUE]
          /\ observed' = [observed EXCEPT !.search = expired]
          /\ UNCHANGED <<phase, opened, recaller, expired>>
        BY <1>11 DEF SendOutcome
    <2>2. /\ search' \in Search /\ search'.at = "end" /\ search'.hits = search.hits
          /\ search'.next = search.next /\ search'.reading = search.reading
        BY <1>1, <2>1 DEF Search
    <2>3. /\ delivery' \in Deliveries /\ delivery'.err = delivery.err
          /\ delivery'.results = delivery.results /\ delivery'.sent = TRUE
        BY <1>1, <2>1
    <2>4. observed' \in [search: BOOLEAN, caller: BOOLEAN]
        BY <2>1 DEF RecallInv, RecallTypeOK
    <2>5. RecallTypeOK'
        BY <2>1, <2>2, <2>3, <2>4 DEF RecallInv, RecallTypeOK
    <2>6. OutcomeIsWhole'
        BY <2>1, <2>2, <2>3 DEF RecallInv, OutcomeIsWhole
    <2> QED BY <2>1, <2>2, <2>3, <2>5, <2>6 DEF RecallInv
<1>12. CASE TakeOutcome
    <2>1. /\ recaller' = [returned |-> TRUE, err |-> delivery.err, results |-> delivery.results]
          /\ observed' = [observed EXCEPT !.caller = TRUE] /\ delivery.sent
          /\ UNCHANGED <<search, phase, opened, delivery, expired>>
        BY <1>12 DEF TakeOutcome
    <2>2. RecallTypeOK'
        BY <1>1, <2>1 DEF RecallInv, RecallTypeOK
    <2> QED BY <2>1, <2>2 DEF RecallInv, OutcomeIsWhole
<1>13. CASE TimeOut
    <2>1. /\ recaller' = [returned |-> TRUE, err |-> "timeout", results |-> opened]
          /\ observed' = [observed EXCEPT !.caller = TRUE]
          /\ UNCHANGED <<search, phase, opened, delivery, expired>>
        BY <1>13 DEF TimeOut
    <2>2. RecallTypeOK'
        BY <1>1, <2>1 DEF RecallInv, RecallTypeOK, Err
    <2> QED BY <2>1, <2>2 DEF RecallInv, OutcomeIsWhole
<1>14. CASE Deadline
    BY <1>14 DEF Deadline, RecallInv, RecallTypeOK, OutcomeIsWhole
<1>15. CASE UNCHANGED recallVars
    BY <1>15 DEF recallVars, RecallInv, RecallTypeOK, OutcomeIsWhole
<1> QED BY <1>5, <1>6, <1>7, <1>8, <1>9, <1>10, <1>11, <1>12, <1>13, <1>14, <1>15
        DEF RecallNext, RecallGoroutine

\* The invariant holds of every recall.
LEMMA RecallInvariant == RecallSpec => []RecallInv
<1>1. ASSUME RecallInit PROVE RecallInv
    <2>1. /\ search \in Search /\ search.at = "scan" /\ search.next = 1
          /\ search.hits = << >> /\ ~search.reading
        <3>1. 1 \in 1..(MaxHits + 1)
            BY RecallAssumption
        <3> QED BY <1>1, <3>1, HitsAreSequences DEF RecallInit, Search
    <2>2. opened = << >> /\ Len(opened) = 0 /\ DOMAIN opened = {}
        BY <1>1 DEF RecallInit
    <2>3. RecallTypeOK
        BY <1>1, <2>1, HitsAreSequences DEF RecallInit, RecallTypeOK, NoOutcome, Err
    <2>4. ~delivery.sent /\ ~recaller.returned
        BY <1>1 DEF RecallInit, NoOutcome
    <2> QED BY <2>1, <2>2, <2>3, <2>4 DEF RecallInv
<1>2. RecallInv /\ [RecallNext]_recallVars => RecallInv'
    BY RecallStep
<1> QED BY <1>1, <1>2, PTL DEF RecallSpec

\* Every variable of a recall keeps its type.
THEOREM RecallTypeCorrect == RecallSpec => []RecallTypeOK
<1>1. RecallInv => RecallTypeOK
    BY DEF RecallInv
<1> QED BY <1>1, RecallInvariant, PTL

\* A recall without an error hands over every hit of the search with its note,
\* however late the goroutine is (fillRecallEntries, memory_recall_timeout.go).
THEOREM RecallsAreWhole == RecallSpec => []RecallIsWhole
<1>1. RecallInv => RecallIsWhole
    BY DEF RecallInv, OutcomeIsWhole, RecallIsWhole
<1> QED BY <1>1, RecallInvariant, PTL

-----------------------------------------------------------------------------
(* Recaps.                                                                 *)

\* The state the argument is about has its types.
RecapTyped ==
    /\ version \in [Session -> Nat] /\ answered \in [Session -> Nat]
    /\ recap \in [Session -> Nat] /\ pending \in [Session -> Nat]
    /\ turn \in [Runner -> [at: {"idle", "asked", "done", "snapshot"}, sess: Session, version: Nat]]
    /\ worker \in [Session -> [at: {"none", "take", "slot", "chat"}, version: Nat]]
    /\ running \subseteq Session
    /\ overlapped \subseteq Session /\ failed \subseteq Session

\* The turns that have answered on a session and have not left their job yet.
Ending(t, s) == turn[t].at \in {"done", "snapshot"} /\ turn[t].sess = s

\* A snapshot is of the last answer, unless one was given while it was held.
SnapshotIsLast(s) ==
    /\ answered[s] <= version[s]
    /\ \A t \in Runner : Ending(t, s) =>
          /\ answered[s] # 0
          /\ turn[t].at = "snapshot" /\ s \notin overlapped => turn[t].version = answered[s]

\* Until the service closes the mark stands for the goroutine, and a job that
\* waits has one.
WorkerIsMarked(s) ==
    ~closed => /\ s \in running <=> worker[s].at # "none"
               /\ pending[s] # 0 => s \in running

\* The answer a session ends with is waited for, asked about, or what the recap
\* tells.
LastTurnIsUnderWay(s) ==
    /\ s \notin overlapped \cup failed /\ ~closed /\ answered[s] = version[s]
    /\ \A t \in Runner : ~Ending(t, s)
    =>
        \/ pending[s] # 0 /\ pending[s] = version[s]
        \/ pending[s] = 0 /\ worker[s].at \in {"slot", "chat"} /\ worker[s].version = version[s]
        \/ pending[s] = 0 /\ recap[s] = version[s]

RecapInv ==
    /\ RecapTyped
    /\ cancelled => closed
    /\ \A s \in Session : SnapshotIsLast(s) /\ WorkerIsMarked(s) /\ LastTurnIsUnderWay(s)

\* A goroutine that has nothing to do.
LEMMA IdleIsTyped ==
    /\ IdleTurn \in [at: {"idle", "asked", "done", "snapshot"}, sess: Session, version: Nat]
    /\ IdleTurn.at = "idle"
    BY RecapAssumption DEF IdleTurn

\* A question keeps the invariant: the session no longer ends with an answer.
LEMMA AskTurnKeeps ==
    ASSUME RecapInv, NEW t \in Runner, NEW s \in Session, AskTurn(t, s)
    PROVE  RecapInv'
<1>1. /\ turn[t].at = "idle" /\ version' = [version EXCEPT ![s] = @ + 1]
      /\ turn' = [turn EXCEPT ![t] = [at |-> "asked", sess |-> s, version |-> 0]]
      /\ UNCHANGED <<answered, recap, pending, worker, running, closed, cancelled, overlapped,
                     failed>>
    BY DEF AskTurn
<1>2. /\ turn'[t].at = "asked" /\ \A u \in Runner \ {t} : turn'[u] = turn[u]
      /\ version'[s] = version[s] + 1 /\ \A x \in Session \ {s} : version'[x] = version[x]
      /\ version[s] \in Nat /\ answered[s] \in Nat
    BY <1>1 DEF RecapInv, RecapTyped
<1>3. RecapTyped'
    BY <1>1 DEF RecapInv, RecapTyped
<1>4. \A u \in Runner, x \in Session : Ending(u, x)' <=> Ending(u, x)
    BY <1>1, <1>2 DEF Ending
<1>5. ASSUME NEW x \in Session
      PROVE  SnapshotIsLast(x)' /\ WorkerIsMarked(x)' /\ LastTurnIsUnderWay(x)'
    <2>1. SnapshotIsLast(x) /\ WorkerIsMarked(x) /\ LastTurnIsUnderWay(x)
        BY DEF RecapInv
    <2>2. WorkerIsMarked(x)'
        BY <1>1, <2>1 DEF WorkerIsMarked
    <2>3. \A u \in Runner : Ending(u, x) => turn'[u] = turn[u]
        BY <1>1, <1>2 DEF Ending
    <2>4. CASE x = s
        <3>1. answered[s] < version'[s]
            BY <1>2, <2>1, <2>4 DEF SnapshotIsLast
        <3>2. SnapshotIsLast(x)'
            BY <1>1, <1>2, <1>4, <2>1, <2>3, <2>4, <3>1 DEF SnapshotIsLast
        <3>3. answered'[x] # version'[x]
            BY <1>1, <1>2, <2>4, <3>1
        <3> QED BY <2>2, <3>2, <3>3 DEF LastTurnIsUnderWay
    <2>5. CASE x # s
        <3>1. version'[x] = version[x]
            BY <1>2, <2>5
        <3>2. SnapshotIsLast(x)'
            BY <1>1, <1>4, <2>1, <2>3, <3>1 DEF SnapshotIsLast
        <3>3. LastTurnIsUnderWay(x)'
            BY <1>1, <1>4, <2>1, <3>1 DEF LastTurnIsUnderWay
        <3> QED BY <2>2, <3>2, <3>3
    <2> QED BY <2>4, <2>5
<1> QED BY <1>1, <1>3, <1>5 DEF RecapInv

\* A turn that ends without an answer leaves nothing behind.
LEMMA FailTurnKeeps ==
    ASSUME RecapInv, NEW t \in Runner, FailTurn(t)
    PROVE  RecapInv'
<1>1. /\ turn[t].at = "asked" /\ turn' = [turn EXCEPT ![t] = IdleTurn]
      /\ UNCHANGED <<version, answered, recap, pending, worker, running, closed, cancelled,
                     overlapped, failed>>
    BY DEF FailTurn
<1>2. turn'[t].at = "idle" /\ \A u \in Runner \ {t} : turn'[u] = turn[u]
    BY <1>1, IdleIsTyped DEF RecapInv, RecapTyped
<1>3. RecapTyped'
    BY <1>1, IdleIsTyped DEF RecapInv, RecapTyped
<1>4. \A u \in Runner, x \in Session : Ending(u, x)' <=> Ending(u, x)
    BY <1>1, <1>2 DEF Ending
<1>5. ASSUME NEW x \in Session
      PROVE  SnapshotIsLast(x)' /\ WorkerIsMarked(x)' /\ LastTurnIsUnderWay(x)'
    <2>1. SnapshotIsLast(x) /\ WorkerIsMarked(x) /\ LastTurnIsUnderWay(x)
        BY DEF RecapInv
    <2>2. \A u \in Runner : Ending(u, x) => turn'[u] = turn[u]
        BY <1>1, <1>2 DEF Ending
    <2>3. SnapshotIsLast(x)'
        BY <1>1, <1>4, <2>1, <2>2 DEF SnapshotIsLast
    <2> QED BY <1>1, <1>4, <2>1, <2>3 DEF WorkerIsMarked, LastTurnIsUnderWay
<1> QED BY <1>1, <1>3, <1>5 DEF RecapInv

\* An answer keeps the invariant: it has its job to leave, and a snapshot that is
\* held makes an overlap.
LEMMA FinishTurnKeeps ==
    ASSUME RecapInv, NEW t \in Runner, FinishTurn(t)
    PROVE  RecapInv'
<1>1. PICK s \in Session : s = turn[t].sess
    BY DEF RecapInv, RecapTyped
<1>2. /\ turn[t].at = "asked" /\ version' = [version EXCEPT ![s] = @ + 1]
      /\ answered' = [answered EXCEPT ![s] = version[s] + 1]
      /\ turn' = [turn EXCEPT ![t].at = "done"]
      /\ overlapped' = IF \E u \in Runner : turn[u].at = "snapshot" /\ turn[u].sess = s
                       THEN overlapped \cup {s} ELSE overlapped
      /\ UNCHANGED <<recap, pending, worker, running, closed, cancelled, failed>>
    BY <1>1 DEF FinishTurn
<1>3. /\ turn'[t].at = "done" /\ turn'[t].sess = s /\ \A u \in Runner \ {t} : turn'[u] = turn[u]
      /\ version'[s] = version[s] + 1 /\ answered'[s] = version[s] + 1 /\ version[s] \in Nat
      /\ \A x \in Session \ {s} : version'[x] = version[x] /\ answered'[x] = answered[x]
    BY <1>1, <1>2 DEF RecapInv, RecapTyped
<1>4. RecapTyped'
    BY <1>2 DEF RecapInv, RecapTyped
<1>5. ASSUME NEW x \in Session
      PROVE  SnapshotIsLast(x)' /\ WorkerIsMarked(x)' /\ LastTurnIsUnderWay(x)'
    <2>1. SnapshotIsLast(x) /\ WorkerIsMarked(x) /\ LastTurnIsUnderWay(x)
        BY DEF RecapInv
    <2>2. WorkerIsMarked(x)'
        BY <1>2, <2>1 DEF WorkerIsMarked
    <2>3. CASE x = s
        <3>1. Ending(t, s)'
            BY <1>3 DEF Ending
        <3>2. ASSUME NEW u \in Runner, turn'[u].at = "snapshot", turn'[u].sess = s
              PROVE  s \in overlapped'
            <4>1. turn[u].at = "snapshot" /\ turn[u].sess = s
                BY <1>3, <3>2
            <4> QED BY <1>2, <4>1
        <3>3. version[s] + 1 # 0 /\ answered'[s] <= version'[s]
            BY <1>3
        <3>4. SnapshotIsLast(s)'
            BY <1>3, <3>2, <3>3 DEF SnapshotIsLast, Ending
        <3> QED BY <2>2, <2>3, <3>1, <3>4 DEF LastTurnIsUnderWay
    <2>4. CASE x # s
        <3>1. \A u \in Runner : Ending(u, x)' <=> Ending(u, x)
            BY <1>1, <1>2, <1>3, <2>4 DEF Ending
        <3>2. (x \in overlapped') <=> (x \in overlapped)
            BY <1>2, <2>4
        <3>3. \A u \in Runner : Ending(u, x) => turn'[u] = turn[u]
            BY <1>1, <1>3, <2>4 DEF Ending
        <3>4. SnapshotIsLast(x)'
            BY <1>3, <2>1, <2>4, <3>1, <3>2, <3>3 DEF SnapshotIsLast
        <3>5. LastTurnIsUnderWay(x)'
            BY <1>2, <1>3, <2>1, <2>4, <3>1, <3>2 DEF LastTurnIsUnderWay
        <3> QED BY <2>2, <3>4, <3>5
    <2> QED BY <2>3, <2>4
<1> QED BY <1>2, <1>4, <1>5 DEF RecapInv

\* A snapshot keeps it: it is of the answer the session ends with, or there is none.
LEMMA TakeSnapshotKeeps ==
    ASSUME RecapInv, NEW t \in Runner, TakeSnapshot(t)
    PROVE  RecapInv'
<1>1. PICK s \in Session : s = turn[t].sess
    BY DEF RecapInv, RecapTyped
<1>2. /\ turn[t].at = "done"
      /\ turn' = [turn EXCEPT ![t] =
                     IF answered[s] # version[s] THEN IdleTurn
                     ELSE [at |-> "snapshot", sess |-> s, version |-> version[s]]]
      /\ UNCHANGED <<version, answered, recap, pending, worker, running, closed, cancelled,
                     overlapped, failed>>
    BY <1>1 DEF TakeSnapshot
<1>3. /\ version[s] \in Nat /\ answered[s] \in Nat
      /\ \A u \in Runner \ {t} : turn'[u] = turn[u]
      /\ answered[s] # version[s] => turn'[t].at = "idle"
      /\ answered[s] = version[s] => /\ turn'[t].at = "snapshot" /\ turn'[t].sess = s
                                     /\ turn'[t].version = version[s]
    BY <1>1, <1>2, IdleIsTyped DEF RecapInv, RecapTyped
<1>4. RecapTyped'
    BY <1>1, <1>2, <1>3, IdleIsTyped DEF RecapInv, RecapTyped
<1>5. Ending(t, s) /\ \A x \in Session : x # s => ~Ending(t, x)
    BY <1>1, <1>2 DEF Ending
<1>6. ASSUME NEW x \in Session
      PROVE  SnapshotIsLast(x)' /\ WorkerIsMarked(x)' /\ LastTurnIsUnderWay(x)'
    <2>1. SnapshotIsLast(x) /\ WorkerIsMarked(x) /\ LastTurnIsUnderWay(x)
        BY DEF RecapInv
    <2>2. WorkerIsMarked(x)'
        BY <1>2, <2>1 DEF WorkerIsMarked
    <2>3. CASE x # s
        <3>1. \A u \in Runner : /\ Ending(u, x)' <=> Ending(u, x)
                                /\ Ending(u, x) => turn'[u] = turn[u]
            BY <1>3, <1>5, <2>3 DEF Ending
        <3>2. SnapshotIsLast(x)'
            <4> SUFFICES ASSUME NEW u \in Runner, Ending(u, x)'
                         PROVE  /\ answered[x] # 0
                                /\ turn'[u].at = "snapshot" /\ x \notin overlapped =>
                                      turn'[u].version = answered[x]
                BY <1>2, <2>1 DEF SnapshotIsLast
            <4>1. Ending(u, x) /\ turn'[u] = turn[u]
                BY <1>3, <1>5, <2>3 DEF Ending
            <4> QED BY <2>1, <4>1 DEF SnapshotIsLast
        <3>3. (\E u \in Runner : Ending(u, x)) <=> (\E u \in Runner : Ending(u, x)')
            BY <1>3, <1>5, <2>3 DEF Ending
        <3>4. LastTurnIsUnderWay(x)'
            BY <1>2, <2>1, <3>3 DEF LastTurnIsUnderWay
        <3> QED BY <2>2, <3>2, <3>4
    <2>4. CASE x = s
        <3>1. SnapshotIsLast(s)'
            <4> SUFFICES ASSUME NEW u \in Runner, Ending(u, s)'
                         PROVE  /\ answered[s] # 0
                                /\ turn'[u].at = "snapshot" /\ s \notin overlapped =>
                                      turn'[u].version = answered[s]
                BY <1>2, <2>1, <2>4 DEF SnapshotIsLast
            <4>1. answered[s] # 0
                BY <1>5, <2>1, <2>4 DEF SnapshotIsLast
            <4>2. CASE u = t
                BY <1>3, <4>1, <4>2 DEF Ending
            <4>3. CASE u # t
                BY <1>3, <2>1, <2>4, <4>1, <4>3 DEF Ending, SnapshotIsLast
            <4> QED BY <4>2, <4>3
        <3>2. CASE answered[s] # version[s]
            BY <1>2, <2>2, <2>4, <3>1, <3>2 DEF LastTurnIsUnderWay
        <3>3. CASE answered[s] = version[s]
            <4>1. Ending(t, s)'
                BY <1>3, <3>3 DEF Ending
            <4> QED BY <2>2, <2>4, <3>1, <4>1 DEF LastTurnIsUnderWay
        <3> QED BY <3>2, <3>3
    <2> QED BY <2>3, <2>4
<1> QED BY <1>2, <1>4, <1>6 DEF RecapInv

\* Leaving the job keeps it: the snapshot is of the last answer, and it waits.
LEMMA EnqueueKeeps ==
    ASSUME RecapInv, NEW t \in Runner, Enqueue(t)
    PROVE  RecapInv'
<1>1. PICK s \in Session : s = turn[t].sess
    BY DEF RecapInv, RecapTyped
<1>2. /\ turn[t].at = "snapshot" /\ turn' = [turn EXCEPT ![t] = IdleTurn]
      /\ pending' = IF closed THEN pending ELSE [pending EXCEPT ![s] = turn[t].version]
      /\ running' = IF closed THEN running ELSE running \cup {s}
      /\ worker' = IF closed \/ s \in running THEN worker ELSE [worker EXCEPT ![s].at = "take"]
      /\ UNCHANGED <<version, answered, recap, closed, cancelled, overlapped, failed>>
    BY <1>1 DEF Enqueue
<1>3. turn[t].version \in Nat /\ turn'[t].at = "idle" /\ \A u \in Runner \ {t} : turn'[u] = turn[u]
    BY <1>2, IdleIsTyped DEF RecapInv, RecapTyped
<1>4. worker' \in [Session -> [at: {"none", "take", "slot", "chat"}, version: Nat]]
    BY <1>2 DEF RecapInv, RecapTyped
<1>5. RecapTyped'
    BY <1>2, <1>3, <1>4, IdleIsTyped DEF RecapInv, RecapTyped
<1>6. \A u \in Runner, x \in Session : Ending(u, x)' <=> Ending(u, x) /\ u # t
    BY <1>2, <1>3 DEF Ending
<1>7. ASSUME NEW x \in Session
      PROVE  SnapshotIsLast(x)' /\ WorkerIsMarked(x)' /\ LastTurnIsUnderWay(x)'
    <2>1. SnapshotIsLast(x) /\ WorkerIsMarked(x) /\ LastTurnIsUnderWay(x)
        BY DEF RecapInv
    <2>2. SnapshotIsLast(x)'
        BY <1>2, <1>3, <1>6, <2>1 DEF SnapshotIsLast
    <2>3. CASE closed
        BY <1>2, <2>2, <2>3 DEF WorkerIsMarked, LastTurnIsUnderWay
    <2>4. CASE ~closed /\ x = s
        <3>1. /\ pending'[s] = turn[t].version /\ s \in running'
              /\ s \in running => worker'[s] = worker[s]
              /\ s \notin running => worker'[s].at = "take"
            BY <1>2, <2>4 DEF RecapInv, RecapTyped
        <3>2. WorkerIsMarked(s)'
            BY <1>2, <2>1, <2>4, <3>1 DEF WorkerIsMarked
        <3>3. Ending(t, s)
            BY <1>1, <1>2 DEF Ending
        <3>4. s \notin overlapped => turn[t].version = answered[s] /\ answered[s] # 0
            BY <1>2, <2>1, <2>4, <3>3 DEF SnapshotIsLast
        <3>5. LastTurnIsUnderWay(s)'
            BY <1>2, <3>1, <3>4 DEF LastTurnIsUnderWay
        <3> QED BY <2>2, <2>4, <3>2, <3>5
    <2>5. CASE ~closed /\ x # s
        <3>1. /\ pending'[x] = pending[x] /\ worker'[x] = worker[x]
              /\ (x \in running') = (x \in running)
            BY <1>2, <2>5 DEF RecapInv, RecapTyped
        <3>2. ~Ending(t, x)
            BY <1>1, <2>5 DEF Ending
        <3>3. \A u \in Runner : Ending(u, x)' <=> Ending(u, x)
            BY <1>6, <3>2
        <3>4. WorkerIsMarked(x)' /\ LastTurnIsUnderWay(x)'
            BY <1>2, <2>1, <3>1, <3>3 DEF WorkerIsMarked, LastTurnIsUnderWay
        <3> QED BY <2>2, <3>4
    <2> QED BY <2>3, <2>4, <2>5
<1> QED BY <1>2, <1>5, <1>7 DEF RecapInv

\* So does every step of a session's goroutine.
LEMMA RecapRunKeeps ==
    ASSUME RecapInv, NEW s \in Session, RecapRun(s)
    PROVE  RecapInv'
<1>1. UNCHANGED <<version, answered, turn, closed, cancelled, overlapped>> /\ failed \subseteq failed'
    BY DEF RecapRun, TakeJob, TakeSlot, GiveUp, RecapAnswer
<1>2. \A u \in Runner, x \in Session : Ending(u, x)' = Ending(u, x)
    BY <1>1 DEF Ending
<1>3. \A x \in Session : SnapshotIsLast(x)'
    BY <1>1, <1>2 DEF RecapInv, SnapshotIsLast
<1>4. ASSUME RecapTyped', WorkerIsMarked(s)', LastTurnIsUnderWay(s)',
             \A x \in Session \ {s} :
                 /\ recap'[x] = recap[x] /\ pending'[x] = pending[x] /\ worker'[x] = worker[x]
                 /\ (x \in running') = (x \in running)
      PROVE  RecapInv'
    <2>1. ASSUME NEW x \in Session PROVE WorkerIsMarked(x)' /\ LastTurnIsUnderWay(x)'
        <3>1. CASE x = s
            BY <1>4, <3>1
        <3>2. CASE x # s
            <4>1. WorkerIsMarked(x) /\ LastTurnIsUnderWay(x)
                BY DEF RecapInv
            <4> QED BY <1>1, <1>2, <1>4, <3>2, <4>1 DEF WorkerIsMarked, LastTurnIsUnderWay
        <3> QED BY <3>1, <3>2
    <2> QED BY <1>1, <1>3, <1>4, <2>1 DEF RecapInv
<1>5. /\ worker \in [Session -> [at: {"none", "take", "slot", "chat"}, version: Nat]]
      /\ pending \in [Session -> Nat] /\ version \in [Session -> Nat]
      /\ recap \in [Session -> Nat]
      /\ WorkerIsMarked(s) /\ LastTurnIsUnderWay(s) /\ (cancelled => closed)
    BY DEF RecapInv, RecapTyped
<1>6. NoWorker \in [at: {"none", "take", "slot", "chat"}, version: Nat] /\ NoWorker.at = "none"
    BY DEF NoWorker
<1>7. CASE TakeJob(s)
    <2>1. /\ worker[s].at = "take" /\ pending' = [pending EXCEPT ![s] = 0]
          /\ UNCHANGED <<recap, failed>>
        BY <1>7 DEF TakeJob
    <2>2. CASE pending[s] = 0
        <3>1. worker' = [worker EXCEPT ![s] = NoWorker] /\ running' = running \ {s}
            BY <1>7, <2>2 DEF TakeJob
        <3>2. RecapTyped'
            BY <1>1, <1>6, <2>1, <3>1 DEF RecapInv, RecapTyped
        <3>3. WorkerIsMarked(s)' /\ LastTurnIsUnderWay(s)'
            BY <1>1, <1>2, <1>5, <1>6, <2>1, <2>2, <3>1 DEF WorkerIsMarked, LastTurnIsUnderWay
        <3>4. \A x \in Session \ {s} :
                 /\ recap'[x] = recap[x] /\ pending'[x] = pending[x] /\ worker'[x] = worker[x]
                 /\ (x \in running') = (x \in running)
            BY <1>5, <2>1, <3>1
        <3> QED BY <1>4, <3>2, <3>3, <3>4
    <2>3. CASE pending[s] # 0
        <3>1. /\ worker' = [worker EXCEPT ![s] = [at |-> "slot", version |-> pending[s]]]
              /\ running' = running
            BY <1>7, <2>3 DEF TakeJob
        <3>2. RecapTyped'
            BY <1>1, <2>1, <3>1 DEF RecapInv, RecapTyped
        <3>3. WorkerIsMarked(s)' /\ LastTurnIsUnderWay(s)'
            BY <1>1, <1>2, <1>5, <2>1, <2>3, <3>1 DEF WorkerIsMarked, LastTurnIsUnderWay
        <3>4. \A x \in Session \ {s} :
                 /\ recap'[x] = recap[x] /\ pending'[x] = pending[x] /\ worker'[x] = worker[x]
                 /\ (x \in running') = (x \in running)
            BY <1>5, <2>1, <3>1
        <3> QED BY <1>4, <3>2, <3>3, <3>4
    <2> QED BY <2>2, <2>3
<1>8. CASE TakeSlot(s)
    <2>1. /\ worker[s].at = "slot" /\ worker' = [worker EXCEPT ![s].at = "chat"]
          /\ UNCHANGED <<recap, pending, running, failed>>
        BY <1>8 DEF TakeSlot
    <2>2. /\ worker'[s].at = "chat" /\ worker'[s].version = worker[s].version
          /\ \A x \in Session \ {s} : worker'[x] = worker[x]
          /\ worker' \in [Session -> [at: {"none", "take", "slot", "chat"}, version: Nat]]
        BY <1>5, <2>1
    <2>3. RecapTyped'
        BY <1>1, <2>1, <2>2 DEF RecapInv, RecapTyped
    <2>4. WorkerIsMarked(s)' /\ LastTurnIsUnderWay(s)'
        BY <1>1, <1>2, <1>5, <2>1, <2>2 DEF WorkerIsMarked, LastTurnIsUnderWay
    <2> QED BY <1>4, <2>1, <2>2, <2>3, <2>4
<1>9. CASE GiveUp(s)
    <2>1. /\ cancelled /\ worker' = [worker EXCEPT ![s] = NoWorker]
          /\ UNCHANGED <<recap, pending, running, failed>>
        BY <1>9 DEF GiveUp
    <2>2. RecapTyped'
        BY <1>1, <1>6, <2>1 DEF RecapInv, RecapTyped
    <2>3. WorkerIsMarked(s)' /\ LastTurnIsUnderWay(s)'
        BY <1>1, <1>5, <2>1 DEF WorkerIsMarked, LastTurnIsUnderWay
    <2>4. \A x \in Session \ {s} : worker'[x] = worker[x]
        BY <1>5, <2>1
    <2> QED BY <1>4, <2>1, <2>2, <2>3, <2>4
<1>10. CASE RecapAnswer(s)
    <2>1. PICK good \in {TRUE, FALSE} :
             /\ recap' = IF good /\ worker[s].version = version[s]
                         THEN [recap EXCEPT ![s] = version[s]] ELSE recap
             /\ failed' = IF good THEN failed ELSE failed \cup {s}
        BY <1>10 DEF RecapAnswer
    <2>2. /\ worker[s].at = "chat"
          /\ worker' = [worker EXCEPT ![s] = [at |-> "take", version |-> 0]]
          /\ UNCHANGED <<pending, running>>
        BY <1>10 DEF RecapAnswer
    <2>3. recap' \in [Session -> Nat] /\ \A x \in Session \ {s} : recap'[x] = recap[x]
        BY <1>5, <2>1
    <2>4. RecapTyped'
        BY <1>1, <2>1, <2>2, <2>3 DEF RecapInv, RecapTyped
    <2>5. WorkerIsMarked(s)'
        BY <1>1, <1>5, <2>2 DEF WorkerIsMarked
    <2>6. LastTurnIsUnderWay(s)'
        <3> SUFFICES ASSUME s \notin overlapped \cup failed, good, ~closed,
                            answered[s] = version[s],
                            \A u \in Runner : ~Ending(u, s)
                     PROVE  \/ pending[s] # 0 /\ pending[s] = version[s]
                            \/ pending[s] = 0 /\ recap'[s] = version[s]
            BY <1>1, <1>2, <2>1, <2>2 DEF LastTurnIsUnderWay
        <3>1. \/ pending[s] # 0 /\ pending[s] = version[s]
              \/ pending[s] = 0 /\ worker[s].version = version[s]
              \/ pending[s] = 0 /\ recap[s] = version[s]
            BY <1>5 DEF LastTurnIsUnderWay
        <3>2. worker[s].version = version[s] => recap'[s] = version[s]
            BY <1>5, <2>1
        <3>3. recap[s] = version[s] => recap'[s] = version[s]
            BY <1>5, <2>1
        <3> QED BY <3>1, <3>2, <3>3
    <2>7. \A x \in Session \ {s} : worker'[x] = worker[x]
        BY <1>5, <2>2
    <2> QED BY <1>4, <2>2, <2>3, <2>4, <2>5, <2>6, <2>7
<1> QED BY <1>7, <1>8, <1>9, <1>10 DEF RecapRun

\* The invariant holds of the service.
LEMMA RecapInvariant == RecapSpec => []RecapInv
<1>1. ASSUME RecapInit PROVE RecapInv
    <2>1. /\ \A t \in Runner : turn[t].at = "idle"
          /\ \A s \in Session : /\ version[s] = 0 /\ answered[s] = 0 /\ recap[s] = 0 /\ pending[s] = 0
                                /\ worker[s].at = "none"
          /\ running = {} /\ ~closed /\ ~cancelled
        BY <1>1 DEF RecapInit, IdleTurn, NoWorker
    <2>2. NoWorker \in [at: {"none", "take", "slot", "chat"}, version: Nat]
        BY DEF NoWorker
    <2>3. RecapTyped
        BY <1>1, <2>2, IdleIsTyped DEF RecapInit, RecapTyped
    <2> QED BY <2>1, <2>3
            DEF RecapInv, SnapshotIsLast, WorkerIsMarked, LastTurnIsUnderWay, Ending
<1>2. ASSUME RecapInv, [RecapNext]_recapVars PROVE RecapInv'
    <2>1. CASE Close \/ Cancel
        BY <1>2, <2>1 DEF Close, Cancel, RecapInv, RecapTyped, SnapshotIsLast, WorkerIsMarked,
                          LastTurnIsUnderWay, Ending
    <2>2. CASE UNCHANGED recapVars
        BY <1>2, <2>2 DEF recapVars, RecapInv, RecapTyped, SnapshotIsLast, WorkerIsMarked,
                          LastTurnIsUnderWay, Ending
    <2> QED BY <1>2, <2>1, <2>2, AskTurnKeeps, FailTurnKeeps, FinishTurnKeeps, TakeSnapshotKeeps,
               EnqueueKeeps, RecapRunKeeps
            DEF RecapNext, RecapTurn
<1> QED BY <1>1, <1>2, PTL DEF RecapSpec

\* When nothing is under way for a session that ends with an answer, its recap is
\* about that answer: no turn is forgotten between a goroutine that leaves and one
\* that is not started, whatever questions failed in between (recapService,
\* session_recap.go).
THEOREM LatestTurnsAreRecapped == RecapSpec => []LatestTurnIsRecapped
<1>1. ASSUME RecapInv PROVE LatestTurnIsRecapped
    <2> SUFFICES ASSUME NEW s \in Session \ (overlapped \cup failed), RecapIsQuiet(s),
                        answered[s] = version[s]
                 PROVE  recap[s] = version[s]
        BY DEF LatestTurnIsRecapped
    <2>1. LastTurnIsUnderWay(s)
        BY <1>1 DEF RecapInv
    <2> QED BY <2>1 DEF LastTurnIsUnderWay, RecapIsQuiet, Ending
<1> QED BY <1>1, RecapInvariant, PTL

-----------------------------------------------------------------------------
(* ToolBatch: the types, and one call.                                     *)

\* The places of a call that is under way.
UnderWay == {"enter", "approve", "ask", "form", "run", "confirm", "rerun"}

BatchTyped == BatchTypeOK /\ arrived \in Seq(Index)

\* What the user must have agreed to, and the sandbox, before the tool may act.
Consented(i) ==
    /\ batch.calls[i] \in AlwaysAsked => allowed[i]
    /\ batch.calls[i] \in Interactive \cup ByPermission /\ ~batch.auto => allowed[i]
    /\ batch.calls[i] = "plugin" => ~batch.restricted

\* A call that is under way passed the screening, and it is past the questions
\* only with the consent; its effect ends it.
CallIsScreened(i) ==
    /\ at[i] # "idle" => i \notin blocked /\ ~Blocks(args[i]) /\ pc # "screen"
    /\ ran[i] > 0 => at[i] = "done"
    /\ at[i] \in {"run", "confirm", "rerun"} \/ ran[i] > 0 => Consented(i)
    /\ at[i] \in {"approve", "run", "confirm", "rerun"} =>
          /\ batch.calls[i] \notin {"ask", "form"}
          /\ batch.calls[i] = "plugin" => ~batch.restricted
    /\ at[i] = "ask" => batch.calls[i] = "ask"
    /\ at[i] = "form" => batch.calls[i] = "form"

\* A question that waits is given up before the deadline.
AskIsEarly(i) ==
    /\ at[i] = "ask" /\ batch.deadline > 0 =>
          clock < until[i] + Margin /\ until[i] + Margin <= batch.deadline
    /\ batch.calls[i] = "ask" /\ result[i] = "unanswered" => turnCancelled

\* Before the screening nothing is planned and nothing runs; after it the guard
\* has nothing against a call that is not blocked.
ScreenedAtOnce ==
    /\ pc = "screen" => /\ blocked = {}
                        /\ \A i \in Index : at[i] = "idle" /\ ran[i] = 0 /\ result[i] = ""
    /\ pc # "screen" => \A i \in Index \ blocked : ~Blocks(args[i])

CallsInv ==
    /\ BatchTyped /\ ScreenedAtOnce
    /\ \A i \in Index : CallIsScreened(i) /\ AskIsEarly(i)

\* What the plan of a batch says of its calls.
PlanIsSound ==
    /\ pc = "screen" => groups = <<>>
    /\ \A n, m \in DOMAIN groups : n # m => groups[n] \cap groups[m] = {}
    /\ \A n \in DOMAIN groups : groups[n] \cap blocked = {}
    /\ pc # "run" => serial = {} /\ arrived = <<>>
    /\ pc = "run" => groups # <<>> /\ serial \subseteq groups[1]

\* Only calls of the group that runs are under way; the later groups wait.
GroupsInTurn ==
    /\ \A i \in Index : at[i] \in UnderWay => pc = "run" /\ i \in groups[1]
    /\ \A n \in DOMAIN groups : n # 1 \/ pc = "launch" => \A i \in groups[n] : at[i] = "idle"

\* The group is through when as many of its calls have arrived as it has.
ArrivedIsDone ==
    pc = "run" => Len(arrived) = Cardinality({i \in groups[1] : at[i] = "done"})

\* What the caller runs itself it runs in order.
SerialInOrder ==
    \A i \in serial : /\ at[i] # "done"
                      /\ at[i] # "idle" => \A j \in serial : i <= j

\* With a desktop call in the batch a group has one call, or it has a desktop
\* call and the caller runs it itself.
DesktopGroups ==
    HasDesktop(Index) =>
        /\ \A n \in DOMAIN groups :
              HasDesktop(groups[n]) \/ \A i, j \in groups[n] : i = j
        /\ pc = "run" /\ HasDesktop(groups[1]) =>
              \A i \in Index : at[i] \in UnderWay => i \in serial

BatchInv ==
    /\ CallsInv /\ PlanIsSound /\ GroupsInTurn /\ ArrivedIsDone /\ SerialInOrder
    /\ DesktopGroups

-----------------------------------------------------------------------------
(* Lemmas.                                                                 *)

\* What the batch and its places are.
LEMMA BatchFacts ==
    ASSUME BatchTyped
    PROVE  /\ batch \in Batch /\ Len(batch.calls) \in Nat /\ Index = 1..Len(batch.calls)
           /\ Index \subseteq Nat /\ IsFiniteSet(Index)
           /\ \A i \in Index : batch.calls[i] \in Tool
           /\ \A i \in Index : at[i] \in {"idle", "done"} \cup UnderWay
           /\ \A i \in Index : Active(i) <=> at[i] \in UnderWay
           /\ Safe \cap Desktop = {} /\ Margin \in Nat /\ Margin > 0 /\ AskLimit \in Nat
           /\ AskLimit > 0 /\ MaxTime \in Nat /\ batch.deadline \in Nat /\ clock \in Nat
<1>1. batch \in Batch /\ clock \in Nat
    BY BatchesAssumption DEF BatchTyped, BatchTypeOK
<1>2. batch.calls \in Seq(Tool) /\ batch.deadline \in Nat
    BY <1>1 DEF Batch
<1>3. Len(batch.calls) \in Nat /\ Index = 1..Len(batch.calls)
    BY <1>2 DEF Index
<1>4. Index \subseteq Nat /\ IsFiniteSet(Index) /\ \A i \in Index : batch.calls[i] \in Tool
    <2>1. IsFiniteSet(1..Len(batch.calls))
        BY <1>3, FS_Interval
    <2>2. 1..Len(batch.calls) \subseteq Nat
        BY <1>3
    <2>3. \A i \in 1..Len(batch.calls) : batch.calls[i] \in Tool
        BY <1>2
    <2> QED BY <1>3, <2>1, <2>2, <2>3
<1>5. \A i \in Index : /\ at[i] \in {"idle", "done"} \cup UnderWay
                       /\ Active(i) <=> at[i] \in UnderWay
    BY DEF BatchTyped, BatchTypeOK, UnderWay, Active
<1>6. /\ Safe \cap Desktop = {} /\ Margin \in Nat /\ Margin > 0 /\ AskLimit \in Nat
      /\ AskLimit > 0 /\ MaxTime \in Nat
    BY BatchesAssumption
<1> QED BY <1>1, <1>2, <1>3, <1>4, <1>5, <1>6

\* The n-th of some calls is one of them, and there is one of them at most.
LEMMA NthIsOne ==
    ASSUME NEW S \in SUBSET Nat, IsFiniteSet(S), NEW n
    PROVE  Nth(S, n) \subseteq S /\ \A i, j \in Nth(S, n) : i = j
<1>1. Nth(S, n) \subseteq S
    BY DEF Nth
<1>2. ASSUME NEW i \in Nth(S, n), NEW j \in Nth(S, n), i < j PROVE FALSE
    <2> DEFINE A == {k \in S : k <= i}
               B == {k \in S : k <= j}
    <2>1. i \in S /\ j \in S /\ Cardinality(A) = n /\ Cardinality(B) = n
        BY DEF Nth
    <2>2. i \in Nat /\ j \in Nat
        BY <2>1
    <2>3. A \subseteq B /\ j \in B /\ j \notin A /\ B \subseteq S
        <3>1. ASSUME NEW k \in A PROVE k \in B
            <4>1. k \in S /\ k \in Nat /\ k <= i
                OBVIOUS
            <4>2. k <= j
                BY <1>2, <2>2, <4>1
            <4> QED BY <4>1, <4>2
        <3>2. j \in B /\ j \notin A
            BY <1>2, <2>1, <2>2
        <3> QED BY <3>1, <3>2
    <2>4. IsFiniteSet(B)
        BY <2>3, FS_Subset
    <2> HIDE DEF A, B
    <2> QED BY <2>1, <2>3, <2>4, FS_Subset
<1>3. ASSUME NEW i \in Nth(S, n), NEW j \in Nth(S, n) PROVE i = j
    <2>1. i \in Nat /\ j \in Nat
        BY DEF Nth
    <2> QED BY <1>2, <2>1
<1> QED BY <1>1, <1>3

\* The plan of a batch: its groups share no call and have those that are left;
\* with a desktop call in the batch each has one call or a desktop call.
LEMMA GroupedFacts ==
    ASSUME BatchTyped, NEW S \in SUBSET Index
    PROVE  /\ Grouped(S) \in Seq(SUBSET S)
           /\ \A n, m \in DOMAIN Grouped(S) : n # m => Grouped(S)[n] \cap Grouped(S)[m] = {}
           /\ HasDesktop(Index) =>
                 \A n \in DOMAIN Grouped(S) :
                     HasDesktop(Grouped(S)[n]) \/ \A i, j \in Grouped(S)[n] : i = j
<1>1. S \subseteq Nat /\ IsFiniteSet(S)
    BY BatchFacts, FS_Subset
<1>2. CASE HasDesktop(Index) /\ ~HasDesktop(S)
    <2>1. Grouped(S) = [n \in 1..Cardinality(S) |-> Nth(S, n)] /\ Cardinality(S) \in Nat
        BY <1>1, <1>2, FS_CardinalityType DEF Grouped
    <2>2. \A n \in 1..Cardinality(S) : Nth(S, n) \subseteq S /\ \A i, j \in Nth(S, n) : i = j
        BY <1>1, NthIsOne
    <2>3. Grouped(S) \in Seq(SUBSET S)
        BY <2>1, <2>2
    <2>4. DOMAIN Grouped(S) = 1..Cardinality(S)
        BY <2>1
    <2>5. \A n, m \in 1..Cardinality(S) : n # m => Nth(S, n) \cap Nth(S, m) = {}
        BY DEF Nth
    <2> QED BY <2>1, <2>2, <2>3, <2>4, <2>5
<1>3. CASE ~(HasDesktop(Index) /\ ~HasDesktop(S))
    <2>1. Grouped(S) = <<S>>
        BY <1>3 DEF Grouped
    <2>2. <<S>> \in Seq(SUBSET S) /\ DOMAIN <<S>> = {1} /\ <<S>>[1] = S
        OBVIOUS
    <2> QED BY <1>3, <2>1, <2>2
<1> QED BY <1>2, <1>3

\* The first of a sequence of groups, and the rest.
LEMMA GroupsFacts ==
    ASSUME BatchTyped, groups # <<>>
    PROVE  /\ Head(groups) = groups[1] /\ 1 \in DOMAIN groups /\ groups[1] \subseteq Index
           /\ Tail(groups) \in Seq(SUBSET Index)
           /\ \A n \in DOMAIN Tail(groups) :
                 n + 1 \in DOMAIN groups /\ Tail(groups)[n] = groups[n + 1]
                                             /\ n + 1 # 1 /\ n \in Nat
<1>1. groups \in Seq(SUBSET Index)
    BY DEF BatchTyped, BatchTypeOK
<1>2. Len(groups) \in Nat /\ Len(groups) # 0 /\ DOMAIN groups = 1..Len(groups)
    BY <1>1
<1>3. Tail(groups) \in Seq(SUBSET Index) /\ Len(Tail(groups)) = Len(groups) - 1
      /\ \A n \in 1..Len(Tail(groups)) : Tail(groups)[n] = groups[n + 1]
    BY <1>1, <1>2
<1>4. DOMAIN Tail(groups) = 1..Len(Tail(groups))
    BY <1>3
<1> QED BY <1>1, <1>2, <1>3, <1>4

\* A step that does not touch this call.
Untouched(j) ==
    /\ at'[j] = at[j] /\ until'[j] = until[j] /\ allowed'[j] = allowed[j]
    /\ ran'[j] = ran[j] /\ result'[j] = result[j]

\* A call that ends is done and has arrived.
LEMMA EndsFacts ==
    ASSUME BatchTyped, NEW i \in Index, NEW r \in Outcome, Ends(i, r)
    PROVE  /\ at' \in [Index -> {"idle", "done"} \cup UnderWay] /\ result' \in [Index -> Outcome]
           /\ at'[i] = "done" /\ result'[i] = r
           /\ \A j \in Index \ {i} : at'[j] = at[j] /\ result'[j] = result[j]
           /\ arrived' = Append(arrived, i) /\ serial' = serial \ {i}
<1>1. at \in [Index -> {"idle", "done"} \cup UnderWay] /\ result \in [Index -> Outcome]
    BY DEF BatchTyped, BatchTypeOK, UnderWay
<1> QED BY <1>1 DEF Ends

\* A call that goes on is where it goes, and nothing else of it changed.
LEMMA GoesToFacts ==
    ASSUME BatchTyped, NEW i \in Index, NEW s \in UnderWay, GoesTo(i, s)
    PROVE  /\ at' \in [Index -> {"idle", "done"} \cup UnderWay]
           /\ at'[i] = s /\ \A j \in Index \ {i} : at'[j] = at[j]
           /\ UNCHANGED <<result, arrived, serial>>
<1>1. at \in [Index -> {"idle", "done"} \cup UnderWay]
    BY DEF BatchTyped, BatchTypeOK, UnderWay
<1> QED BY <1>1 DEF GoesTo

\* A call that ends is one more that has arrived; the others run as they ran.
LEMMA EndsKeepsPlan ==
    ASSUME BatchInv, NEW i \in Index, at[i] \in UnderWay, NEW r \in Outcome, Ends(i, r),
           UNCHANGED batchState
    PROVE  PlanIsSound' /\ GroupsInTurn' /\ ArrivedIsDone' /\ SerialInOrder' /\ DesktopGroups'
<1>1. BatchTyped
    BY DEF BatchInv, CallsInv
<1>2. /\ UNCHANGED <<batch, pc, blocked, groups>> /\ Index' = Index
      /\ at'[i] = "done" /\ \A j \in Index \ {i} : at'[j] = at[j]
      /\ arrived' = Append(arrived, i) /\ serial' = serial \ {i}
    BY <1>1, EndsFacts DEF batchState, Index
<1>3. pc = "run" /\ i \in groups[1] /\ groups # <<>>
    BY DEF BatchInv, GroupsInTurn, PlanIsSound
<1>4. 1 \in DOMAIN groups /\ groups[1] \subseteq Index /\ groups \in Seq(SUBSET Index)
    BY <1>1, <1>3, GroupsFacts DEF BatchTyped, BatchTypeOK
<1>5. PlanIsSound'
    BY <1>2, <1>3 DEF BatchInv, PlanIsSound
<1>6. GroupsInTurn'
    <2>1. \A n \in DOMAIN groups : n # 1 => i \notin groups[n]
        BY <1>3, <1>4 DEF BatchInv, PlanIsSound
    <2>2. \A n \in DOMAIN groups : groups[n] \subseteq Index
        BY <1>4
    <2> QED BY <1>2, <1>3, <2>1, <2>2 DEF BatchInv, GroupsInTurn, UnderWay
<1>7. ArrivedIsDone'
    <2> DEFINE D == {j \in groups[1] : at[j] = "done"}
               E == {j \in groups[1] : at'[j] = "done"}
    <2>1. E = D \cup {i} /\ i \notin D
        BY <1>2, <1>3, <1>4 DEF UnderWay
    <2>2. IsFiniteSet(D)
        <3>1. D \subseteq Index
            BY <1>4
        <3> QED BY <1>1, <3>1, BatchFacts, FS_Subset
    <2>3. Len(arrived) = Cardinality(D)
        BY <1>3 DEF BatchInv, ArrivedIsDone
    <2>4. Len(arrived') = Len(arrived) + 1
        BY <1>1, <1>2 DEF BatchTyped
    <2> HIDE DEF D
    <2>5. Cardinality(E) = Cardinality(D) + 1
        BY <2>1, <2>2, FS_AddElement
    <2> QED BY <1>2, <2>3, <2>4, <2>5 DEF ArrivedIsDone
<1>8. SerialInOrder'
    <2>1. serial \subseteq Index
        BY <1>1 DEF BatchTyped, BatchTypeOK
    <2> QED BY <1>2, <2>1 DEF BatchInv, SerialInOrder
<1>9. DesktopGroups'
    BY <1>2 DEF BatchInv, DesktopGroups, HasDesktop, UnderWay
<1> QED BY <1>5, <1>6, <1>7, <1>8, <1>9

\* Nor does it change the plan when it goes on.
LEMMA GoesToKeepsPlan ==
    ASSUME BatchInv, NEW i \in Index, at[i] \in UnderWay, NEW s \in UnderWay, GoesTo(i, s),
           UNCHANGED batchState
    PROVE  PlanIsSound' /\ GroupsInTurn' /\ ArrivedIsDone' /\ SerialInOrder' /\ DesktopGroups'
<1>1. BatchTyped
    BY DEF BatchInv, CallsInv
<1>2. /\ UNCHANGED <<batch, pc, blocked, groups, arrived, serial>> /\ Index' = Index
      /\ at'[i] = s /\ \A j \in Index \ {i} : at'[j] = at[j]
    BY <1>1, GoesToFacts DEF batchState, Index
<1>3. pc = "run" /\ i \in groups[1] /\ groups # <<>>
    BY DEF BatchInv, GroupsInTurn, PlanIsSound
<1>4. 1 \in DOMAIN groups /\ groups[1] \subseteq Index /\ groups \in Seq(SUBSET Index)
    BY <1>1, <1>3, GroupsFacts DEF BatchTyped, BatchTypeOK
<1>5. PlanIsSound'
    BY <1>2 DEF BatchInv, PlanIsSound
<1>6. GroupsInTurn'
    <2>1. \A n \in DOMAIN groups : n # 1 => i \notin groups[n]
        BY <1>3, <1>4 DEF BatchInv, PlanIsSound
    <2>2. \A n \in DOMAIN groups : groups[n] \subseteq Index
        BY <1>4
    <2> QED BY <1>2, <1>3, <2>1, <2>2 DEF BatchInv, GroupsInTurn
<1>7. ArrivedIsDone'
    <2>1. {j \in groups[1] : at'[j] = "done"} = {j \in groups[1] : at[j] = "done"}
        BY <1>2, <1>4 DEF UnderWay
    <2> QED BY <1>2, <2>1 DEF BatchInv, ArrivedIsDone
<1>8. SerialInOrder'
    <2>1. serial \subseteq Index
        BY <1>1 DEF BatchTyped, BatchTypeOK
    <2> QED BY <1>2, <2>1 DEF BatchInv, SerialInOrder, UnderWay
<1>9. DesktopGroups'
    BY <1>2 DEF BatchInv, DesktopGroups, HasDesktop
<1> QED BY <1>5, <1>6, <1>7, <1>8, <1>9

\* So a step of one call keeps the invariant when it keeps what is said of that
\* call.
LEMMA CallStepKeeps ==
    ASSUME BatchInv, NEW i \in Index, at[i] \in UnderWay,
           (\E r \in Outcome : Ends(i, r)) \/ (\E s \in UnderWay : GoesTo(i, s)),
           UNCHANGED batchState, UNCHANGED <<clock, turnCancelled>>,
           auto' \in [Index -> BOOLEAN], until' \in [Index -> 0..(MaxTime + AskLimit)],
           allowed' \in [Index -> BOOLEAN], ran' \in [Index -> 0..1],
           \A j \in Index \ {i} : /\ until'[j] = until[j] /\ allowed'[j] = allowed[j]
                                  /\ ran'[j] = ran[j],
           CallIsScreened(i)', AskIsEarly(i)'
    PROVE  BatchInv'
<1>1. BatchTyped /\ pc # "screen"
    BY DEF BatchInv, CallsInv, GroupsInTurn
<1>2. UNCHANGED <<batch, args, pc, blocked, groups>> /\ Index' = Index
    BY DEF batchState, Index
<1>3. /\ at' \in [Index -> {"idle", "done"} \cup UnderWay] /\ result' \in [Index -> Outcome]
      /\ \A j \in Index \ {i} : at'[j] = at[j] /\ result'[j] = result[j]
      /\ arrived' \in {arrived, Append(arrived, i)} /\ serial' \in {serial, serial \ {i}}
    <2>1. result \in [Index -> Outcome]
        BY <1>1 DEF BatchTyped, BatchTypeOK
    <2> QED BY <1>1, <2>1, EndsFacts, GoesToFacts
<1>4. BatchTyped'
    <2>1. arrived' \in Seq(Index) /\ serial' \subseteq Index
        <3>1. arrived \in Seq(Index) /\ serial \subseteq Index
            BY <1>1 DEF BatchTyped, BatchTypeOK
        <3>2. Append(arrived, i) \in Seq(Index)
            BY <3>1
        <3> QED BY <1>3, <3>1, <3>2
    <2>2. at' \in [Index -> {"idle", "enter", "approve", "ask", "form", "run", "confirm",
                             "rerun", "done"}]
        BY <1>3 DEF UnderWay
    <2>3. /\ batch' \in Batches /\ args' \in [Index -> Arguments] /\ blocked' \subseteq Index
          /\ pc' \in {"screen", "launch", "run", "returned"} /\ groups' \in Seq(SUBSET Index)
          /\ clock' \in 0..MaxTime /\ turnCancelled' \in BOOLEAN
        BY <1>1, <1>2 DEF BatchTyped, BatchTypeOK
    <2>4. BatchTypeOK'
        BY <1>2, <1>3, <2>1, <2>2, <2>3 DEF BatchTypeOK
    <2> QED BY <1>2, <2>1, <2>4 DEF BatchTyped
<1>5. ASSUME NEW j \in Index PROVE CallIsScreened(j)' /\ AskIsEarly(j)'
    <2>1. CASE j = i
        BY <2>1
    <2>2. CASE j # i
        <3>1. CallIsScreened(j) /\ AskIsEarly(j) /\ Untouched(j)
            BY <1>3, <2>2 DEF BatchInv, CallsInv, Untouched
        <3> QED BY <1>2, <3>1 DEF CallIsScreened, AskIsEarly, Untouched, Consented, Blocks
    <2> QED BY <2>1, <2>2
<1>6. ScreenedAtOnce'
    BY <1>1, <1>2 DEF BatchInv, CallsInv, ScreenedAtOnce, Blocks
<1> QED BY <1>2, <1>4, <1>5, <1>6, EndsKeepsPlan, GoesToKeepsPlan DEF BatchInv, CallsInv

-----------------------------------------------------------------------------
(* ToolBatch: every step.                                                  *)

\* The wait of ask_user ends before the deadline by more than a timer is late.
LEMMA AskBudgetFacts ==
    ASSUME BatchTyped
    PROVE  /\ AskBudget \in 0..AskLimit
           /\ AskBudget > 0 /\ batch.deadline > 0 => clock + AskBudget + Margin <= batch.deadline
<1> DEFINE d == batch.deadline
<1>1. d \in Nat /\ clock \in Nat /\ Margin \in Nat /\ Margin > 0 /\ AskLimit \in Nat /\ AskLimit > 0
    BY BatchFacts
<1>2. AskBudget = IF d = 0 THEN AskLimit ELSE IF d - clock <= Margin THEN 0
                  ELSE IF d - clock - Margin < AskLimit THEN d - clock - Margin ELSE AskLimit
    BY DEF AskBudget
<1> HIDE DEF d
<1>3. AskBudget \in 0..AskLimit /\ (AskBudget > 0 /\ d > 0 => clock + AskBudget + Margin <= d)
    BY <1>1, <1>2
<1> QED BY <1>3 DEF d

\* Every step of one call keeps the invariant.
LEMMA CallKeeps == ASSUME BatchInv, NEW i \in Index, CallNext(i) PROVE BatchInv'
<1>1. /\ BatchTyped /\ CallIsScreened(i) /\ AskIsEarly(i)
      /\ auto \in [Index -> BOOLEAN] /\ until \in [Index -> 0..(MaxTime + AskLimit)]
      /\ allowed \in [Index -> BOOLEAN] /\ ran \in [Index -> 0..1]
      /\ batch.calls[i] \in Tool /\ ScreenedAtOnce
    BY BatchFacts DEF BatchInv, CallsInv, BatchTyped, BatchTypeOK
<1>2. /\ UNCHANGED batchState /\ UNCHANGED <<clock, turnCancelled>> /\ at[i] \in UnderWay
      /\ UNCHANGED <<batch, args, pc, blocked>> /\ Index' = Index
    BY DEF CallNext, EnterCall, Allow, Deny, Unanswered, Reply, AskTimesOut, AskStops, Submit,
           Execute, batchState, UnderWay, Index
<1>3. i \notin blocked /\ ~Blocks(args[i]) /\ pc # "screen"
    BY <1>1, <1>2 DEF CallIsScreened, UnderWay
<1>4. at[i] # "done" => ran[i] = 0
    <2>1. ran[i] \in 0..1
        BY <1>1
    <2> QED BY <1>1, <2>1 DEF CallIsScreened
<1>5. ASSUME NEW r \in Outcome, Ends(i, r), UNCHANGED <<auto, until, allowed, ran>>,
             batch.calls[i] = "ask" /\ r = "unanswered" => turnCancelled
      PROVE  BatchInv'
    <2>1. at'[i] = "done" /\ result'[i] = r
        BY <1>1, <1>5, EndsFacts
    <2>2. CallIsScreened(i)' /\ AskIsEarly(i)'
        BY <1>2, <1>3, <1>4, <1>5, <2>1 DEF CallIsScreened, AskIsEarly, Blocks, UnderWay
    <2> QED BY <1>1, <1>2, <1>5, <2>2, CallStepKeeps
<1>6. ASSUME NEW r \in Outcome, Ends(i, r), UNCHANGED <<auto, until, allowed>>,
             ran' = [ran EXCEPT ![i] = @ + 1], Consented(i), r # "unanswered"
      PROVE  BatchInv'
    <2>1. at'[i] = "done" /\ result'[i] = r
        BY <1>1, <1>6, EndsFacts
    <2>2. ran'[i] = 1 /\ ran' \in [Index -> 0..1] /\ \A j \in Index \ {i} : ran'[j] = ran[j]
        <3>1. ran[i] = 0
            BY <1>2, <1>4 DEF UnderWay
        <3> QED BY <1>1, <1>6, <3>1
    <2>3. CallIsScreened(i)' /\ AskIsEarly(i)'
        BY <1>2, <1>3, <1>6, <2>1, <2>2 DEF CallIsScreened, AskIsEarly, Blocks, Consented
    <2> QED BY <1>1, <1>2, <1>6, <2>2, <2>3, CallStepKeeps
<1>7. ASSUME NEW s \in UnderWay \ {"enter", "ask"}, GoesTo(i, s), UNCHANGED <<until, ran>>,
             auto' \in [Index -> BOOLEAN], allowed' \in [Index -> BOOLEAN],
             \A j \in Index \ {i} : allowed'[j] = allowed[j],
             s \in {"run", "confirm", "rerun"} => Consented(i)',
             s \in {"approve", "run", "confirm", "rerun"} =>
                 /\ batch.calls[i] \notin {"ask", "form"}
                 /\ batch.calls[i] = "plugin" => ~batch.restricted,
             s = "form" => batch.calls[i] = "form"
      PROVE  BatchInv'
    <2>1. at'[i] = s /\ result' = result
        BY <1>1, <1>7, GoesToFacts
    <2>2. ran'[i] = 0
        BY <1>2, <1>4, <1>7 DEF UnderWay
    <2>3. CallIsScreened(i)'
        BY <1>2, <1>3, <1>7, <2>1, <2>2 DEF CallIsScreened, Blocks, UnderWay
    <2>4. AskIsEarly(i)'
        BY <1>1, <1>2, <1>7, <2>1 DEF AskIsEarly
    <2> QED BY <1>1, <1>2, <1>7, <2>3, <2>4, CallStepKeeps
<1>8. CASE EnterCall(i)
    <2>1. at[i] = "enter" /\ UNCHANGED <<auto, allowed, ran>>
        BY <1>8 DEF EnterCall
    <2>2. CASE batch.calls[i] = "ask" /\ AskBudget > 0 /\ GoesTo(i, "ask")
               /\ until' = [until EXCEPT ![i] = clock + AskBudget]
        <3>1. at'[i] = "ask" /\ result' = result
            BY <1>1, <2>2, GoesToFacts DEF UnderWay
        <3>2. /\ AskBudget \in 0..AskLimit /\ clock \in 0..MaxTime /\ MaxTime \in Nat
              /\ AskLimit \in Nat /\ clock \in Nat /\ Margin \in Nat /\ Margin > 0
              /\ batch.deadline > 0 => clock + AskBudget + Margin <= batch.deadline
            BY <1>1, <2>2, AskBudgetFacts, BatchFacts DEF BatchTyped, BatchTypeOK
        <3>3. clock + AskBudget \in 0..(MaxTime + AskLimit)
            BY <3>2
        <3>4. /\ until' \in [Index -> 0..(MaxTime + AskLimit)] /\ until'[i] = clock + AskBudget
              /\ \A j \in Index \ {i} : until'[j] = until[j]
            BY <1>1, <2>2, <3>3
        <3>5. ran'[i] = 0
            BY <1>4, <2>1
        <3>6. CallIsScreened(i)'
            BY <1>2, <1>3, <2>2, <3>1, <3>5 DEF CallIsScreened, Blocks
        <3>7. AskIsEarly(i)'
            <4>1. clock < (clock + AskBudget) + Margin
                BY <3>2
            <4>2. batch.deadline > 0 => (clock + AskBudget) + Margin <= batch.deadline
                BY <3>2
            <4>3. batch.calls[i] = "ask" /\ result[i] = "unanswered" => turnCancelled
                BY <1>1 DEF AskIsEarly
            <4> QED BY <1>2, <3>1, <3>4, <4>1, <4>2, <4>3 DEF AskIsEarly
        <3>8. "ask" \in UnderWay
            BY DEF UnderWay
        <3> QED BY <1>1, <1>2, <2>1, <2>2, <3>4, <3>6, <3>7, <3>8, CallStepKeeps
    <2>3. ASSUME NEW r \in {"duplicate", "refused", "no reply"}, Ends(i, r), until' = until
          PROVE  BatchInv'
        BY <1>5, <2>1, <2>3 DEF Outcome
    <2>4. CASE batch.calls[i] = "form" /\ until' = until /\ GoesTo(i, "form")
        BY <1>1, <1>7, <2>1, <2>4 DEF UnderWay
    <2>5. CASE /\ batch.calls[i] \notin {"ask", "form"} /\ until' = until
               /\ ~(batch.calls[i] = "plugin" /\ batch.restricted)
               /\ GoesTo(i, IF NeedsApproval(i) THEN "approve" ELSE "run")
        <3>1. ~NeedsApproval(i) => Consented(i)'
            BY <1>2, <2>1, <2>5
               DEF NeedsApproval, Consented, AlwaysAsked, Interactive, ByPermission
        <3> QED BY <1>1, <1>7, <2>1, <2>5, <3>1 DEF UnderWay
    <2> QED BY <1>8, <2>2, <2>3, <2>4, <2>5 DEF EnterCall
<1>9. CASE Allow(i)
    <2> DEFINE s == IF at[i] = "approve" THEN "run" ELSE "rerun"
    <2>1. /\ at[i] \in {"approve", "confirm"} /\ GoesTo(i, s) /\ UNCHANGED <<until, ran>>
          /\ auto' = [auto EXCEPT ![i] = TRUE] /\ allowed' = [allowed EXCEPT ![i] = TRUE]
        BY <1>9 DEF Allow
    <2>2. /\ auto' \in [Index -> BOOLEAN] /\ allowed' \in [Index -> BOOLEAN] /\ allowed'[i]
          /\ \A j \in Index \ {i} : allowed'[j] = allowed[j]
        BY <1>1, <2>1
    <2>3. /\ batch.calls[i] \notin {"ask", "form"}
          /\ batch.calls[i] = "plugin" => ~batch.restricted
        BY <1>1, <2>1 DEF CallIsScreened
    <2>4. Consented(i)'
        BY <1>2, <2>2, <2>3 DEF Consented
    <2>5. s \in UnderWay \ {"enter", "ask", "form"}
        BY DEF UnderWay
    <2> QED BY <1>7, <2>1, <2>2, <2>3, <2>4, <2>5
<1>10. CASE Deny(i)
    BY <1>5, <1>10 DEF Deny, Outcome
<1>11. CASE Unanswered(i)
    <2>1. batch.calls[i] # "ask"
        BY <1>1, <1>11 DEF Unanswered, CallIsScreened
    <2> QED BY <1>5, <1>11, <2>1 DEF Unanswered, Outcome
<1>12. CASE Reply(i)
    <2>1. batch.calls[i] = "ask"
        BY <1>1, <1>12 DEF Reply, CallIsScreened
    <2>2. Consented(i)
        BY <2>1 DEF Consented, AlwaysAsked, Interactive, ByPermission
    <2> QED BY <1>6, <1>12, <2>2 DEF Reply, Outcome
<1>13. ASSUME at[i] = "ask", TurnDone PROVE turnCancelled
    <2>1. batch.deadline > 0 => clock < until[i] + Margin /\ until[i] + Margin <= batch.deadline
        BY <1>1, <1>13 DEF AskIsEarly
    <2>2. clock \in Nat /\ Margin \in Nat /\ batch.deadline \in Nat /\ until[i] \in Nat
        BY <1>1, BatchFacts
    <2> DEFINE d == batch.deadline
               u == until[i]
    <2> HIDE DEF d, u
    <2>3. d > 0 => clock < d
        BY <2>1, <2>2 DEF d, u
    <2> QED BY <1>13, <2>2, <2>3 DEF TurnDone, d
<1>14. CASE AskTimesOut(i) \/ AskStops(i)
    <2>1. /\ at[i] = "ask" /\ UNCHANGED <<auto, until, allowed, ran>>
          /\ (Ends(i, "unanswered") /\ TurnDone) \/ Ends(i, "no reply")
        BY <1>14 DEF AskTimesOut, AskStops
    <2> QED BY <1>5, <1>13, <2>1 DEF Outcome
<1>15. CASE Submit(i)
    <2>1. batch.calls[i] = "form"
        BY <1>1, <1>15 DEF Submit, CallIsScreened
    <2>2. Consented(i)
        BY <2>1 DEF Consented, AlwaysAsked, Interactive, ByPermission
    <2> QED BY <1>5, <1>6, <1>15, <2>2 DEF Submit, Outcome
<1>16. CASE Execute(i)
    <2>1. at[i] \in {"run", "rerun"} /\ UNCHANGED <<auto, until, allowed>>
        BY <1>16 DEF Execute
    <2>2. /\ Consented(i) /\ batch.calls[i] \notin {"ask", "form"}
          /\ batch.calls[i] = "plugin" => ~batch.restricted
        BY <1>1, <2>1 DEF CallIsScreened
    <2>3. CASE \E r \in {"ok", "error"} : Ends(i, r) /\ ran' = [ran EXCEPT ![i] = @ + 1]
        BY <1>6, <2>1, <2>2, <2>3 DEF Outcome
    <2>4. CASE Ends(i, "error") /\ UNCHANGED ran
        BY <1>5, <2>1, <2>4 DEF Outcome
    <2>5. CASE GoesTo(i, "confirm") /\ UNCHANGED ran
        <3>1. Consented(i)'
            BY <1>2, <2>1, <2>2 DEF Consented
        <3> QED BY <1>1, <1>7, <2>1, <2>2, <2>5, <3>1 DEF UnderWay
    <2> QED BY <1>16, <2>3, <2>4, <2>5 DEF Execute
<1> QED BY <1>8, <1>9, <1>10, <1>11, <1>12, <1>14, <1>15, <1>16 DEF CallNext

\* The screening plans what is left, and the guard has judged it.
LEMMA ScreenKeeps == ASSUME BatchInv, Screen PROVE BatchInv'
<1>1. /\ BatchTyped /\ ScreenedAtOnce /\ PlanIsSound /\ pc = "screen" /\ pc' = "launch"
      /\ UNCHANGED <<batch, serial, at, auto, until, allowed, ran, arrived, gathered,
                     answers, clock, turnCancelled>>
    BY DEF BatchInv, CallsInv, Screen
<1>2. Index' = Index
    BY <1>1 DEF Index
<1>3. PICK refused \in SUBSET Index, rewritten \in [Index -> Arguments] :
         /\ ~batch.hooked => refused = {} /\ rewritten = args
         /\ blocked' = {i \in Index : Stops(i, refused, rewritten)}
         /\ args' = [i \in Index |-> IF i \in blocked' THEN args[i] ELSE rewritten[i]]
    BY DEF Screen
<1>4. groups' = Grouped(Index \ blocked')
      /\ result' = [i \in Index |-> IF i \in blocked' THEN "refused" ELSE ""]
    BY DEF Screen
<1>5. blocked' \subseteq Index /\ args \in [Index -> Arguments]
    BY <1>1, <1>3 DEF BatchTyped, BatchTypeOK
<1>6. args' \in [Index -> Arguments]
    BY <1>3, <1>5
<1>7. result' \in [Index -> Outcome]
    BY <1>4 DEF Outcome
<1>8. /\ groups' \in Seq(SUBSET (Index \ blocked'))
      /\ \A n, m \in DOMAIN groups' : n # m => groups'[n] \cap groups'[m] = {}
      /\ HasDesktop(Index) =>
            \A n \in DOMAIN groups' : HasDesktop(groups'[n]) \/ \A i, j \in groups'[n] : i = j
    BY <1>1, <1>4, <1>5, GroupedFacts
<1>9. \A n \in DOMAIN groups' : groups'[n] \subseteq Index /\ groups'[n] \cap blocked' = {}
    BY <1>8
<1>10. groups' \in Seq(SUBSET Index)
    BY <1>8, <1>9
<1>11. BatchTyped'
    <2>1. BatchTypeOK'
        BY <1>1, <1>2, <1>5, <1>6, <1>7, <1>10 DEF BatchTyped, BatchTypeOK
    <2> QED BY <1>1, <1>2, <2>1 DEF BatchTyped
<1>12. \A i \in Index : at[i] = "idle" /\ ran[i] = 0
    BY <1>1 DEF ScreenedAtOnce
<1>13. ScreenedAtOnce'
    <2>1. ASSUME NEW i \in Index, i \notin blocked' PROVE ~(batch.guarded /\ args'[i] = "barred")
        <3>1. ~Stops(i, refused, rewritten) /\ args'[i] = rewritten[i]
            BY <1>3, <2>1
        <3>2. ~(batch.guarded /\ args[i] = "barred")
            BY <3>1 DEF Stops, Blocks
        <3> QED BY <1>3, <3>1, <3>2 DEF Stops, Blocks
    <2> QED BY <1>1, <1>2, <2>1 DEF ScreenedAtOnce, Blocks
<1>14. ASSUME NEW i \in Index PROVE CallIsScreened(i)' /\ AskIsEarly(i)'
    <2>1. result'[i] # "unanswered"
        BY <1>4
    <2> QED BY <1>1, <1>12, <2>1 DEF CallIsScreened, AskIsEarly
<1>15. PlanIsSound'
    BY <1>1, <1>8, <1>9 DEF PlanIsSound
<1>16. GroupsInTurn'
    BY <1>1, <1>2, <1>9, <1>12 DEF GroupsInTurn, UnderWay
<1>17. ArrivedIsDone' /\ SerialInOrder'
    BY <1>1 DEF ArrivedIsDone, SerialInOrder, PlanIsSound
<1>18. DesktopGroups'
    BY <1>1, <1>2, <1>8 DEF DesktopGroups, HasDesktop
<1> QED BY <1>2, <1>11, <1>13, <1>14, <1>15, <1>16, <1>17, <1>18 DEF BatchInv, CallsInv

\* With a desktop call in the batch, what runs side by side is a group without.
LEMMA SideBySideFacts ==
    ASSUME BatchTyped, NEW g \in SUBSET Index
    PROVE  /\ SideBySide(g) \subseteq g
           /\ HasDesktop(Index) /\ HasDesktop(g) => SideBySide(g) = {}
<1>1. SideBySide(g) \subseteq g
    BY DEF SideBySide
<1>2. ASSUME HasDesktop(Index), HasDesktop(g) PROVE SideBySide(g) = {}
    <2>1. PICK i \in g : batch.calls[i] \in Desktop
        BY <1>2 DEF HasDesktop
    <2>2. batch.calls[i] \notin Safe
        BY <2>1, BatchFacts
    <2> QED BY <1>2, <2>1, <2>2 DEF SideBySide
<1> QED BY <1>1, <1>2

\* The first group starts: some calls side by side, the others with the caller.
LEMMA LaunchKeeps == ASSUME BatchInv, Launch PROVE BatchInv'
<1> DEFINE together == SideBySide(Head(groups))
<1>1. /\ pc = "launch" /\ groups # <<>> /\ pc' = "run"
      /\ at' = [i \in Index |-> IF i \in together THEN "enter" ELSE at[i]]
      /\ serial' = Head(groups) \ together
      /\ UNCHANGED <<batch, args, blocked, groups, auto, until, allowed, ran, result,
                     arrived, gathered, answers, clock, turnCancelled>>
    BY DEF Launch
<1>2. Index' = Index /\ BatchTyped
    BY <1>1 DEF Index, BatchInv, CallsInv
<1>3. /\ Head(groups) = groups[1] /\ 1 \in DOMAIN groups /\ groups[1] \subseteq Index
      /\ groups \in Seq(SUBSET Index)
    BY <1>1, <1>2, GroupsFacts DEF BatchTyped, BatchTypeOK
<1>4. together \subseteq groups[1] /\ (HasDesktop(Index) /\ HasDesktop(groups[1]) => together = {})
    BY <1>2, <1>3, SideBySideFacts
<1> HIDE DEF together
<1>5. at \in [Index -> {"idle", "done"} \cup UnderWay]
    BY <1>2 DEF BatchTyped, BatchTypeOK, UnderWay
<1>6. /\ at' \in [Index -> {"idle", "done"} \cup UnderWay]
      /\ \A i \in Index : at'[i] = IF i \in together THEN "enter" ELSE at[i]
    BY <1>1, <1>5 DEF UnderWay
<1>7. BatchTyped'
    <2>1. at' \in [Index -> {"idle", "enter", "approve", "ask", "form", "run", "confirm",
                             "rerun", "done"}]
        BY <1>6 DEF UnderWay
    <2>2. serial' \subseteq Index
        BY <1>1, <1>3
    <2>3. BatchTypeOK'
        BY <1>1, <1>2, <2>1, <2>2 DEF BatchTyped, BatchTypeOK
    <2> QED BY <1>1, <1>2, <2>3 DEF BatchTyped
<1>8. \A i \in groups[1] : at[i] = "idle" /\ i \notin blocked /\ i \in Index
    BY <1>1, <1>3 DEF BatchInv, GroupsInTurn, PlanIsSound
<1>9. ScreenedAtOnce'
    BY <1>1, <1>2 DEF BatchInv, CallsInv, ScreenedAtOnce, Blocks
<1>10. ASSUME NEW i \in Index PROVE CallIsScreened(i)' /\ AskIsEarly(i)'
    <2>1. CallIsScreened(i) /\ AskIsEarly(i)
        BY DEF BatchInv, CallsInv
    <2>2. CASE i \in together
        <3>1. at'[i] = "enter" /\ at[i] = "idle" /\ i \notin blocked /\ ran[i] \in 0..1
            BY <1>2, <1>4, <1>6, <1>8, <2>2 DEF BatchTyped, BatchTypeOK
        <3>2. ran[i] = 0 /\ ~Blocks(args[i])
            BY <1>1, <2>1, <3>1 DEF CallIsScreened, BatchInv, CallsInv, ScreenedAtOnce
        <3> QED BY <1>1, <2>1, <3>1, <3>2 DEF CallIsScreened, AskIsEarly, Blocks
    <2>3. CASE i \notin together
        <3>1. at'[i] = at[i]
            BY <1>6, <2>3
        <3> QED BY <1>1, <2>1, <3>1 DEF CallIsScreened, AskIsEarly, Blocks, Consented
    <2> QED BY <2>2, <2>3
<1>11. PlanIsSound'
    BY <1>1, <1>3 DEF BatchInv, PlanIsSound
<1>12. \A i \in Index : at[i] \notin UnderWay
    BY <1>1 DEF BatchInv, GroupsInTurn
<1>13. GroupsInTurn'
    <2>1. \A i \in Index : at'[i] \in UnderWay => i \in groups[1]
        BY <1>4, <1>6, <1>12
    <2>2. ASSUME NEW n \in DOMAIN groups, n # 1, NEW i \in groups[n] PROVE at'[i] = "idle"
        <3>1. i \in Index /\ i \notin together
            BY <1>3, <1>4, <2>2 DEF BatchInv, PlanIsSound
        <3>2. at[i] = "idle"
            BY <2>2 DEF BatchInv, GroupsInTurn
        <3> QED BY <1>6, <3>1, <3>2
    <2> QED BY <1>1, <1>2, <2>1, <2>2 DEF GroupsInTurn
<1>14. ArrivedIsDone'
    <2>1. {i \in groups[1] : at'[i] = "done"} = {}
        BY <1>6, <1>8
    <2>2. Len(arrived) = 0
        BY <1>1 DEF BatchInv, PlanIsSound
    <2> QED BY <1>1, <2>1, <2>2, FS_EmptySet DEF ArrivedIsDone
<1>15. SerialInOrder'
    BY <1>1, <1>3, <1>6, <1>8 DEF SerialInOrder
<1>16. DesktopGroups'
    BY <1>1, <1>2, <1>4, <1>6, <1>12 DEF BatchInv, DesktopGroups, HasDesktop
<1> QED BY <1>2, <1>7, <1>9, <1>10, <1>11, <1>13, <1>14, <1>15, <1>16 DEF BatchInv, CallsInv

\* The caller starts the first of its calls.
LEMMA StartSerialKeeps == ASSUME BatchInv, StartSerial PROVE BatchInv'
<1>1. PICK i \in serial : /\ \A j \in serial : i <= j
                          /\ at[i] = "idle" /\ at' = [at EXCEPT ![i] = "enter"]
    BY DEF StartSerial
<1>2. /\ pc = "run"
      /\ UNCHANGED <<batch, args, pc, blocked, groups, serial, auto, until, allowed, ran,
                     result, arrived, gathered, answers, clock, turnCancelled>>
    BY DEF StartSerial
<1>3. Index' = Index /\ BatchTyped /\ serial \subseteq groups[1] /\ groups # <<>>
    BY <1>2 DEF Index, BatchInv, CallsInv, PlanIsSound
<1>4. /\ 1 \in DOMAIN groups /\ groups[1] \subseteq Index /\ groups \in Seq(SUBSET Index)
      /\ i \in Index /\ i \in groups[1]
    BY <1>1, <1>3, GroupsFacts DEF BatchTyped, BatchTypeOK
<1>5. at \in [Index -> {"idle", "done"} \cup UnderWay]
    BY <1>3 DEF BatchTyped, BatchTypeOK, UnderWay
<1>6. /\ at' \in [Index -> {"idle", "done"} \cup UnderWay]
      /\ at'[i] = "enter" /\ \A j \in Index \ {i} : at'[j] = at[j]
    BY <1>1, <1>4, <1>5 DEF UnderWay
<1>7. BatchTyped'
    <2>1. at' \in [Index -> {"idle", "enter", "approve", "ask", "form", "run", "confirm",
                             "rerun", "done"}]
        BY <1>6 DEF UnderWay
    <2>2. BatchTypeOK'
        BY <1>2, <1>3, <2>1 DEF BatchTyped, BatchTypeOK
    <2> QED BY <1>2, <1>3, <2>2 DEF BatchTyped
<1>8. ScreenedAtOnce'
    BY <1>2, <1>3 DEF BatchInv, CallsInv, ScreenedAtOnce, Blocks
<1>9. ASSUME NEW j \in Index PROVE CallIsScreened(j)' /\ AskIsEarly(j)'
    <2>1. CallIsScreened(j) /\ AskIsEarly(j)
        BY DEF BatchInv, CallsInv
    <2>2. CASE j = i
        <3>1. i \notin blocked /\ ran[i] \in 0..1
            BY <1>3, <1>4 DEF BatchInv, PlanIsSound, BatchTyped, BatchTypeOK
        <3>2. ran[i] = 0 /\ ~Blocks(args[i])
            BY <1>1, <1>2, <1>4, <2>1, <2>2, <3>1
               DEF CallIsScreened, BatchInv, CallsInv, ScreenedAtOnce
        <3> QED BY <1>2, <1>6, <2>1, <2>2, <3>1, <3>2 DEF CallIsScreened, AskIsEarly, Blocks
    <2>3. CASE j # i
        BY <1>2, <1>6, <2>1, <2>3 DEF CallIsScreened, AskIsEarly, Blocks, Consented
    <2> QED BY <2>2, <2>3
<1>10. PlanIsSound'
    BY <1>2 DEF BatchInv, PlanIsSound
<1>11. GroupsInTurn'
    <2>1. \A n \in DOMAIN groups : n # 1 => i \notin groups[n]
        BY <1>4 DEF BatchInv, PlanIsSound
    <2>2. \A n \in DOMAIN groups : groups[n] \subseteq Index
        BY <1>4
    <2> QED BY <1>2, <1>3, <1>4, <1>6, <2>1, <2>2 DEF BatchInv, GroupsInTurn
<1>12. ArrivedIsDone'
    <2>1. {j \in groups[1] : at'[j] = "done"} = {j \in groups[1] : at[j] = "done"}
        BY <1>1, <1>4, <1>6
    <2> QED BY <1>2, <2>1 DEF BatchInv, ArrivedIsDone
<1>13. SerialInOrder'
    BY <1>1, <1>2, <1>3, <1>4, <1>6 DEF BatchInv, SerialInOrder
<1>14. DesktopGroups'
    BY <1>1, <1>2, <1>3, <1>6 DEF BatchInv, DesktopGroups, HasDesktop
<1> QED BY <1>3, <1>7, <1>8, <1>9, <1>10, <1>11, <1>12, <1>13, <1>14 DEF BatchInv, CallsInv

\* A group is left when all of its calls are done.
LEMMA CollectKeeps == ASSUME BatchInv, Collect PROVE BatchInv'
<1>1. /\ pc = "run" /\ serial = {} /\ Len(arrived) = Cardinality(Head(groups))
      /\ arrived' = <<>> /\ groups' = Tail(groups) /\ pc' = "launch"
      /\ UNCHANGED <<batch, args, blocked, serial, at, auto, until, allowed, ran, result,
                     answers, clock, turnCancelled>>
    BY DEF Collect
<1>2. Index' = Index /\ BatchTyped /\ groups # <<>>
    BY <1>1 DEF Index, BatchInv, CallsInv, PlanIsSound
<1>3. /\ Head(groups) = groups[1] /\ 1 \in DOMAIN groups /\ groups[1] \subseteq Index
      /\ Tail(groups) \in Seq(SUBSET Index)
      /\ \A n \in DOMAIN Tail(groups) :
            n + 1 \in DOMAIN groups /\ Tail(groups)[n] = groups[n + 1] /\ n + 1 # 1 /\ n \in Nat
    BY <1>2, GroupsFacts
<1>4. \A i \in groups[1] : at[i] = "done"
    <2> DEFINE D == {i \in groups[1] : at[i] = "done"}
    <2>1. Cardinality(D) = Cardinality(groups[1]) /\ D \subseteq groups[1]
        BY <1>1, <1>3 DEF BatchInv, ArrivedIsDone
    <2>2. IsFiniteSet(groups[1])
        BY <1>2, <1>3, BatchFacts, FS_Subset
    <2> HIDE DEF D
    <2>3. D = groups[1]
        BY <2>1, <2>2, FS_Subset
    <2> QED BY <2>3 DEF D
<1>5. \A i \in Index : at[i] \notin UnderWay
    BY <1>1, <1>4 DEF BatchInv, GroupsInTurn, UnderWay
<1>6. BatchTyped'
    <2>1. BatchTypeOK'
        BY <1>1, <1>2, <1>3 DEF BatchTyped, BatchTypeOK
    <2> QED BY <1>1, <2>1 DEF BatchTyped
<1>7. ScreenedAtOnce'
    BY <1>1, <1>2 DEF BatchInv, CallsInv, ScreenedAtOnce, Blocks
<1>8. ASSUME NEW i \in Index PROVE CallIsScreened(i)' /\ AskIsEarly(i)'
    BY <1>1, <1>8 DEF BatchInv, CallsInv, CallIsScreened, AskIsEarly, Blocks, Consented
<1>9. PlanIsSound'
    <2>1. ASSUME NEW n \in DOMAIN Tail(groups), NEW m \in DOMAIN Tail(groups), n # m
          PROVE  Tail(groups)[n] \cap Tail(groups)[m] = {}
        <3>1. n + 1 # m + 1
            BY <1>3, <2>1
        <3> QED BY <1>3, <3>1 DEF BatchInv, PlanIsSound
    <2>2. \A n \in DOMAIN Tail(groups) : Tail(groups)[n] \cap blocked = {}
        BY <1>3 DEF BatchInv, PlanIsSound
    <2> QED BY <1>1, <2>1, <2>2 DEF PlanIsSound
<1>10. GroupsInTurn'
    BY <1>1, <1>2, <1>3, <1>5 DEF BatchInv, GroupsInTurn
<1>11. ArrivedIsDone' /\ SerialInOrder'
    BY <1>1 DEF ArrivedIsDone, SerialInOrder
<1>12. DesktopGroups'
    BY <1>1, <1>2, <1>3 DEF BatchInv, DesktopGroups, HasDesktop
<1> QED BY <1>2, <1>6, <1>7, <1>8, <1>9, <1>10, <1>11, <1>12 DEF BatchInv, CallsInv

\* The answers are put together, the turn is cancelled, or time passes.
LEMMA TurnKeeps ==
    ASSUME BatchInv, Merge \/ CancelTurn \/ Pass \/ UNCHANGED batchVars
    PROVE  BatchInv'
<1>1. /\ UNCHANGED <<batch, args, blocked, groups, serial, at, auto, until, allowed, ran,
                     result, arrived>>
      /\ Index' = Index /\ BatchTyped
    BY DEF Merge, CancelTurn, Pass, batchVars, BatchInv, CallsInv, Index
<1>2. /\ pc' = pc \/ (pc = "launch" /\ pc' = "returned" /\ groups = <<>>)
      /\ turnCancelled => turnCancelled' = turnCancelled
      /\ turnCancelled' \in BOOLEAN
    BY <1>1 DEF Merge, CancelTurn, Pass, batchVars, BatchTyped, BatchTypeOK
<1>3. /\ clock' \in 0..MaxTime
      /\ \A i \in Index : at[i] = "ask" => clock' = clock \/ clock' < until[i] + Margin
    <2>1. CASE Pass
        <3>1. /\ clock < MaxTime /\ clock' = clock + 1
              /\ \A i \in Index : at[i] = "ask" => clock + 1 < until[i] + Margin
            BY <2>1 DEF Pass
        <3>2. clock \in Nat /\ MaxTime \in Nat
            BY <1>1, BatchFacts
        <3> QED BY <3>1, <3>2
    <2>2. CASE ~Pass
        <3>1. clock' = clock
            BY <2>2 DEF Merge, CancelTurn, batchVars
        <3> QED BY <1>1, <3>1 DEF BatchTyped, BatchTypeOK
    <2> QED BY <2>1, <2>2
<1>4. BatchTyped'
    <2>1. pc' \in {"screen", "launch", "run", "returned"}
        BY <1>1, <1>2 DEF BatchTyped, BatchTypeOK
    <2>2. BatchTypeOK'
        BY <1>1, <1>2, <1>3, <2>1 DEF BatchTyped, BatchTypeOK
    <2> QED BY <1>1, <2>2 DEF BatchTyped
<1>5. ScreenedAtOnce'
    BY <1>1, <1>2 DEF BatchInv, CallsInv, ScreenedAtOnce, Blocks
<1>6. ASSUME NEW i \in Index PROVE CallIsScreened(i)' /\ AskIsEarly(i)'
    <2>1. CallIsScreened(i) /\ AskIsEarly(i)
        BY DEF BatchInv, CallsInv
    <2>2. CallIsScreened(i)'
        BY <1>1, <1>2, <2>1 DEF CallIsScreened, Blocks, Consented
    <2>3. AskIsEarly(i)'
        BY <1>1, <1>2, <1>3, <2>1 DEF AskIsEarly
    <2> QED BY <2>2, <2>3
<1>7. PlanIsSound' /\ GroupsInTurn'
    BY <1>1, <1>2 DEF BatchInv, PlanIsSound, GroupsInTurn
<1>8. ArrivedIsDone' /\ SerialInOrder'
    BY <1>1, <1>2 DEF BatchInv, ArrivedIsDone, SerialInOrder
<1>9. DesktopGroups'
    BY <1>1, <1>2 DEF BatchInv, DesktopGroups, HasDesktop
<1> QED BY <1>1, <1>4, <1>5, <1>6, <1>7, <1>8, <1>9 DEF BatchInv, CallsInv

\* The invariant holds of every batch.
LEMMA BatchInvariant == BatchSpec => []BatchInv
<1>1. ASSUME BatchInit PROVE BatchInv
    <2>1. /\ pc = "screen" /\ blocked = {} /\ groups = <<>> /\ serial = {} /\ arrived = <<>>
          /\ \A i \in Index : at[i] = "idle" /\ ran[i] = 0 /\ result[i] = ""
        BY <1>1 DEF BatchInit
    <2>2. BatchTyped
        <3>1. batch \in Batches /\ batch \in Batch /\ args \in [Index -> Arguments]
            BY <1>1, BatchesAssumption DEF BatchInit
        <3>2. batch.auto \in BOOLEAN
            BY <3>1 DEF Batch
        <3>3. 0 \in 0..(MaxTime + AskLimit) /\ 0 \in 0..MaxTime /\ 0 \in 0..1
            BY BatchesAssumption
        <3>4. /\ at = [i \in Index |-> "idle"] /\ auto = [i \in Index |-> batch.auto]
              /\ until = [i \in Index |-> 0] /\ allowed = [i \in Index |-> FALSE]
              /\ ran = [i \in Index |-> 0] /\ result = [i \in Index |-> ""]
              /\ clock = 0 /\ turnCancelled = FALSE
            BY <1>1 DEF BatchInit
        <3>5. at \in [Index -> {"idle", "enter", "approve", "ask", "form", "run", "confirm",
                                "rerun", "done"}]
            BY <3>4
        <3>6. auto \in [Index -> BOOLEAN] /\ allowed \in [Index -> BOOLEAN]
            BY <3>2, <3>4, Zenon
        <3>7. until \in [Index -> 0..(MaxTime + AskLimit)] /\ ran \in [Index -> 0..1]
            BY <3>3, <3>4
        <3>8. result \in [Index -> Outcome]
            BY <3>4 DEF Outcome
        <3>9. groups \in Seq(SUBSET Index) /\ arrived \in Seq(Index)
            <4> DEFINE T == SUBSET Index
            <4> HIDE DEF T
            <4>1. <<>> \in Seq(T) /\ <<>> \in Seq(Index)
                OBVIOUS
            <4> QED BY <2>1, <4>1 DEF T
        <3>10. blocked \subseteq Index /\ serial \subseteq Index
            BY <2>1
        <3>11. clock \in 0..MaxTime /\ turnCancelled \in BOOLEAN
            BY <3>3, <3>4
        <3> QED BY <2>1, <3>1, <3>5, <3>6, <3>7, <3>8, <3>9, <3>10, <3>11
                DEF BatchTyped, BatchTypeOK
    <2>3. ScreenedAtOnce
        BY <2>1 DEF ScreenedAtOnce
    <2>4. ASSUME NEW i \in Index PROVE CallIsScreened(i) /\ AskIsEarly(i)
        <3>1. at[i] = "idle" /\ ran[i] = 0 /\ result[i] = ""
            BY <2>1
        <3>2. ~(ran[i] > 0)
            <4>1. ~(0 > 0)
                OBVIOUS
            <4> QED BY <3>1, <4>1, Zenon
        <3>3. CallIsScreened(i)
            BY <3>1, <3>2, Zenon DEF CallIsScreened
        <3>4. AskIsEarly(i)
            BY <3>1 DEF AskIsEarly
        <3> QED BY <3>3, <3>4
    <2>5. \A i \in Index : at[i] \notin UnderWay
        BY <2>1 DEF UnderWay
    <2>6. DOMAIN groups = {}
        <3>1. <<>> \in Seq(Nat) /\ Len(<<>>) = 0
            OBVIOUS
        <3>2. DOMAIN <<>> = {}
            BY <3>1
        <3> QED BY <2>1, <3>2
    <2>7. PlanIsSound
        BY <2>1, <2>6 DEF PlanIsSound
    <2>8. GroupsInTurn
        BY <2>5, <2>6 DEF GroupsInTurn
    <2>9. ArrivedIsDone /\ SerialInOrder
        BY <2>1 DEF ArrivedIsDone, SerialInOrder
    <2>10. DesktopGroups
        BY <2>1, <2>6 DEF DesktopGroups
    <2> QED BY <2>2, <2>3, <2>4, <2>7, <2>8, <2>9, <2>10 DEF BatchInv, CallsInv
<1>2. BatchInv /\ [BatchNext]_batchVars => BatchInv'
    BY ScreenKeeps, LaunchKeeps, StartSerialKeeps, CollectKeeps, TurnKeeps, CallKeeps DEF BatchNext
<1> QED BY <1>1, <1>2, PTL DEF BatchSpec

\* Every variable of a batch keeps its type.
THEOREM BatchTypeCorrect == BatchSpec => []BatchTypeOK
<1>1. BatchInv => BatchTypeOK
    BY DEF BatchInv, CallsInv, BatchTyped
<1> QED BY <1>1, BatchInvariant, PTL

\* A tool has its effect only with arguments that the guard passes, and where
\* the user must consent after an allow of that very call
\* (executeToolCallsOrdered, loop_execution.go; hitl.go).
THEOREM OnlyAllowedCallsRun == BatchSpec => []OnlyAllowedRuns
<1>1. ASSUME BatchInv, NEW i \in Index, ran[i] > 0
      PROVE  /\ i \notin blocked /\ ~Blocks(args[i])
             /\ batch.calls[i] \in AlwaysAsked => allowed[i]
             /\ batch.calls[i] \in Interactive \cup ByPermission /\ ~batch.auto => allowed[i]
             /\ batch.calls[i] = "plugin" => ~batch.restricted
    <2>1. CallIsScreened(i)
        BY <1>1 DEF BatchInv, CallsInv
    <2> QED BY <1>1, <2>1 DEF CallIsScreened, Consented
<1>2. BatchInv => OnlyAllowedRuns
    BY <1>1 DEF OnlyAllowedRuns
<1> QED BY <1>2, BatchInvariant, PTL

\* A question is given up before the turn's deadline, whatever ran first in the
\* batch (askUserWaitTimeout, tool_execution_detailed.go).
THEOREM QuestionsEndEarly == BatchSpec => []AskEndsBeforeDeadline
<1>1. BatchInv => AskEndsBeforeDeadline
    BY DEF BatchInv, CallsInv, AskIsEarly, AskEndsBeforeDeadline
<1> QED BY <1>1, BatchInvariant, PTL

\* A batch in which the model asked for the desktop never has two calls under
\* way, also when the desktop call was blocked (loop_execution.go).
THEOREM DesktopCallsRunAlone == BatchSpec => []DesktopRunsAlone
<1>1. ASSUME BatchInv PROVE DesktopRunsAlone
    <2> SUFFICES ASSUME HasDesktop(Index) PROVE Cardinality({i \in Index : Active(i)}) <= 1
        BY DEF DesktopRunsAlone
    <2> DEFINE S == {i \in Index : Active(i)}
    <2>1. BatchTyped
        BY <1>1 DEF BatchInv, CallsInv
    <2>2. ASSUME NEW i \in S, NEW j \in S PROVE i = j
        <3>1. /\ i \in Index /\ j \in Index /\ at[i] \in UnderWay /\ at[j] \in UnderWay
              /\ i \in Nat /\ j \in Nat
            BY <2>1, BatchFacts
        <3>2. pc = "run" /\ i \in groups[1] /\ j \in groups[1] /\ groups # <<>>
            BY <1>1, <3>1 DEF BatchInv, GroupsInTurn, PlanIsSound
        <3>3. 1 \in DOMAIN groups
            BY <2>1, <3>2, GroupsFacts
        <3>4. CASE HasDesktop(groups[1])
            <4>1. i \in serial /\ j \in serial
                BY <1>1, <3>1, <3>2, <3>4 DEF BatchInv, DesktopGroups
            <4>2. i <= j /\ j <= i
                BY <1>1, <3>1, <4>1 DEF BatchInv, SerialInOrder, UnderWay
            <4> QED BY <3>1, <4>2
        <3>5. CASE ~HasDesktop(groups[1])
            BY <1>1, <3>2, <3>3, <3>5 DEF BatchInv, DesktopGroups
        <3> QED BY <3>4, <3>5
    <2> HIDE DEF S
    <2>3. CASE S = {}
        <3>1. Cardinality(S) = 0
            BY <2>3, FS_EmptySet
        <3> QED BY <3>1 DEF S
    <2>4. CASE S # {}
        <3>1. PICK i \in S : TRUE
            BY <2>4
        <3>2. S = {i}
            BY <2>2, <3>1
        <3>3. Cardinality(S) = 1
            BY <3>2, FS_Singleton
        <3> QED BY <3>3 DEF S
    <2> QED BY <2>3, <2>4
<1> QED BY <1>1, BatchInvariant, PTL

-----------------------------------------------------------------------------
(* ToolBatch: the answers.                                                 *)

\* Of n calls there is an m-th for every m up to n, and each call is one of them.
LEMMA NthExists ==
    ASSUME NEW S \in SUBSET Nat, IsFiniteSet(S)
    PROVE  /\ \A n \in 1..Cardinality(S) : Nth(S, n) # {}
           /\ \A i \in S : Cardinality({j \in S : j <= i}) \in 1..Cardinality(S)
<1> DEFINE rank == [i \in S |-> Cardinality({j \in S : j <= i})]
           N == Cardinality(S)
<1>1. N \in Nat /\ IsFiniteSet(1..N) /\ Cardinality(1..N) = N
    <2>1. N \in Nat
        BY FS_CardinalityType
    <2> QED BY <2>1, FS_Interval
<1>2. ASSUME NEW i \in S PROVE Cardinality({j \in S : j <= i}) \in 1..N
    <2> DEFINE A == {j \in S : j <= i}
    <2>1. A \in SUBSET S
        OBVIOUS
    <2>2. i \in A
        OBVIOUS
    <2> HIDE DEF A, N
    <2>3. IsFiniteSet(A) /\ Cardinality(A) <= Cardinality(S)
        BY <2>1, FS_Subset
    <2>4. Cardinality(A) \in Nat /\ Cardinality(A) # 0
        BY <2>2, <2>3, FS_CardinalityType, FS_EmptySet
    <2>5. Cardinality(A) \in 1..N
        BY <1>1, <2>3, <2>4 DEF N
    <2> QED BY <2>5 DEF A
<1>3. rank \in Injection(S, 1..N)
    <2>1. rank \in [S -> 1..N]
        BY <1>2
    <2>2. ASSUME NEW i \in S, NEW j \in S, rank[i] = rank[j] PROVE i = j
        <3>1. i \in Nth(S, rank[i]) /\ j \in Nth(S, rank[i])
            BY <2>2 DEF Nth
        <3> QED BY <3>1, NthIsOne
    <2> HIDE DEF rank
    <2> QED BY <2>1, <2>2 DEF Injection, IsInjective
<1> HIDE DEF N
<1>4. rank \in Surjection(S, 1..N)
    <2> HIDE DEF rank
    <2> QED BY <1>1, <1>3, FS_Injection DEF N
<1>5. ASSUME NEW n \in 1..N PROVE Nth(S, n) # {}
    <2>1. PICK i \in S : rank[i] = n
        BY <1>4 DEF Surjection
    <2>2. i \in Nth(S, n)
        BY <2>1 DEF Nth
    <2> QED BY <2>2
<1> QED BY <1>2, <1>5 DEF N

\* The calls that were not blocked.
Left == Index \ blocked

\* What a call says of its effect.
OutcomeFits(i) ==
    /\ at[i] = "done" => /\ result[i] # ""
                         /\ (result[i] = "ok" => ran[i] = 1)
                         /\ (result[i] \notin {"ok", "error"} => ran[i] = 0)
    /\ i \in blocked => result[i] = "refused"

\* What is still to run is all that is left, or the calls that follow those whose
\* results are gathered, one at a time.
PlanIsLeft ==
    pc \in {"launch", "run"} =>
        \/ groups = <<Left>> /\ gathered = <<>>
        \/ /\ Len(gathered) + Len(groups) = Cardinality(Left)
           /\ \A n \in DOMAIN groups : groups[n] = Nth(Left, Len(gathered) + n)

\* The n-th result that is gathered is that of the n-th call that is left.
GatheredInOrder ==
    /\ gathered \in Seq(Index)
    /\ \A n \in DOMAIN gathered : gathered[n] \in Nth(Left, n) /\ at[gathered[n]] = "done"
    /\ pc = "screen" => gathered = <<>>

ArrivedAreDone ==
    pc = "run" => {arrived[n] : n \in DOMAIN arrived} = {i \in groups[1] : at[i] = "done"}

AnswersFit ==
    pc = "returned" => /\ answers = [i \in Index |-> [call |-> i, text |-> result[i]]]
                       /\ \A i \in Left : at[i] = "done"

ResultsInv ==
    /\ \A i \in Index : OutcomeFits(i)
    /\ ArrivedAreDone /\ GatheredInOrder /\ PlanIsLeft /\ AnswersFit

\* A step of one call ends it with a result that fits its effect, or goes on.
LEMMA CallCourse ==
    ASSUME BatchInv, NEW i \in Index, CallNext(i)
    PROVE  /\ UNCHANGED <<batch, pc, blocked, groups, gathered, answers>> /\ Index' = Index
           /\ at[i] \in UnderWay
           /\ \A j \in Index \ {i} : /\ at'[j] = at[j] /\ result'[j] = result[j]
                                     /\ ran'[j] = ran[j]
           /\ \/ /\ at'[i] = "done" /\ arrived' = Append(arrived, i) /\ result'[i] # ""
                 /\ (result'[i] = "ok" => ran'[i] = 1)
                 /\ (result'[i] \notin {"ok", "error"} => ran'[i] = 0)
              \/ at'[i] \in UnderWay /\ arrived' = arrived /\ result' = result
<1>1. BatchTyped /\ CallIsScreened(i) /\ ran \in [Index -> 0..1]
    BY DEF BatchInv, CallsInv, BatchTyped, BatchTypeOK
<1>2. /\ UNCHANGED <<batch, pc, blocked, groups, gathered, answers>> /\ Index' = Index
      /\ at[i] \in UnderWay
    BY DEF CallNext, EnterCall, Allow, Deny, Unanswered, Reply, AskTimesOut, AskStops, Submit,
           Execute, batchState, UnderWay, Index
<1>3. ran[i] = 0
    <2>1. ran[i] \in 0..1 /\ at[i] # "done"
        BY <1>1, <1>2 DEF UnderWay
    <2> QED BY <1>1, <2>1 DEF CallIsScreened
<1>4. /\ \A j \in Index \ {i} : ran'[j] = ran[j]
      /\ \/ ran' = ran
         \/ ran'[i] = 1
    <2>1. ran' = ran \/ ran' = [ran EXCEPT ![i] = @ + 1]
        BY DEF CallNext, EnterCall, Allow, Deny, Unanswered, Reply, AskTimesOut, AskStops, Submit,
               Execute
    <2> QED BY <1>1, <1>3, <2>1
<1>5. \/ \E s \in UnderWay : GoesTo(i, s)
      \/ \E r \in Outcome \ {"", "ok", "error"} : Ends(i, r) /\ ran' = ran
      \/ \E r \in {"ok", "error"} : Ends(i, r) /\ ran' = [ran EXCEPT ![i] = @ + 1]
      \/ Ends(i, "error")
    BY DEF CallNext, EnterCall, Allow, Deny, Unanswered, Reply, AskTimesOut, AskStops, Submit,
           Execute, Outcome, UnderWay
<1>6. CASE \E s \in UnderWay : GoesTo(i, s)
    <2>1. /\ at'[i] \in UnderWay /\ arrived' = arrived /\ result' = result
          /\ \A j \in Index \ {i} : at'[j] = at[j]
        BY <1>1, <1>6, GoesToFacts
    <2> QED BY <1>2, <1>4, <2>1
<1>7. ASSUME NEW r \in Outcome \ {""}, Ends(i, r),
             r = "ok" => ran'[i] = 1, r \notin {"ok", "error"} => ran'[i] = 0
      PROVE  /\ at'[i] = "done" /\ arrived' = Append(arrived, i) /\ result'[i] # ""
             /\ (result'[i] = "ok" => ran'[i] = 1)
             /\ (result'[i] \notin {"ok", "error"} => ran'[i] = 0)
             /\ \A j \in Index \ {i} : at'[j] = at[j] /\ result'[j] = result[j]
    <2>1. /\ at'[i] = "done" /\ result'[i] = r /\ arrived' = Append(arrived, i)
          /\ \A j \in Index \ {i} : at'[j] = at[j] /\ result'[j] = result[j]
        BY <1>1, <1>7, EndsFacts
    <2> QED BY <1>7, <2>1
<1>8. CASE \E r \in Outcome \ {"", "ok", "error"} : Ends(i, r) /\ ran' = ran
    BY <1>2, <1>3, <1>4, <1>7, <1>8
<1>9. CASE \E r \in {"ok", "error"} : Ends(i, r) /\ ran' = [ran EXCEPT ![i] = @ + 1]
    <2>1. PICK r \in {"ok", "error"} : Ends(i, r) /\ ran' = [ran EXCEPT ![i] = @ + 1]
        BY <1>9
    <2>2. ran'[i] = 1
        BY <1>1, <1>3, <2>1
    <2>3. r \in Outcome \ {""}
        BY DEF Outcome
    <2> QED BY <1>2, <1>4, <1>7, <2>1, <2>2, <2>3
<1>10. CASE Ends(i, "error")
    <2>1. "error" \in Outcome \ {""}
        BY DEF Outcome
    <2> QED BY <1>2, <1>4, <1>7, <1>10, <2>1
<1> QED BY <1>5, <1>6, <1>8, <1>9, <1>10

\* One more that has arrived.
LEMMA AppendRange ==
    ASSUME NEW S, NEW s \in Seq(S), NEW e \in S
    PROVE  {Append(s, e)[n] : n \in DOMAIN Append(s, e)} = {s[n] : n \in DOMAIN s} \cup {e}
<1>1. Len(s) \in Nat /\ DOMAIN s = 1..Len(s) /\ Append(s, e) \in Seq(S)
      /\ Len(Append(s, e)) = Len(s) + 1
    OBVIOUS
<1>2. DOMAIN Append(s, e) = 1..(Len(s) + 1)
    BY <1>1
<1>3. \A n \in 1..Len(s) : Append(s, e)[n] = s[n]
    BY <1>1
<1>4. Append(s, e)[Len(s) + 1] = e
    BY <1>1
<1>5. 1..(Len(s) + 1) = 1..Len(s) \cup {Len(s) + 1}
    BY <1>1
<1> QED BY <1>1, <1>2, <1>3, <1>4, <1>5

\* A step of one call keeps the order of the results.
LEMMA CallKeepsResults ==
    ASSUME BatchInv, ResultsInv, NEW i \in Index, CallNext(i)
    PROVE  ResultsInv'
<1>1. /\ UNCHANGED <<batch, pc, blocked, groups, gathered, answers>> /\ Index' = Index
      /\ at[i] \in UnderWay
      /\ \A j \in Index \ {i} : at'[j] = at[j] /\ result'[j] = result[j] /\ ran'[j] = ran[j]
      /\ \/ /\ at'[i] = "done" /\ arrived' = Append(arrived, i) /\ result'[i] # ""
            /\ (result'[i] = "ok" => ran'[i] = 1)
            /\ (result'[i] \notin {"ok", "error"} => ran'[i] = 0)
         \/ at'[i] \in UnderWay /\ arrived' = arrived /\ result' = result
    BY CallCourse
<1>2. pc = "run" /\ i \in groups[1] /\ i \notin blocked /\ at[i] \notin {"idle", "done"}
    BY <1>1 DEF BatchInv, CallsInv, GroupsInTurn, CallIsScreened, UnderWay
<1>3. BatchTyped /\ groups[1] \subseteq Index /\ arrived \in Seq(Index)
    <2>1. groups # <<>> /\ BatchTyped
        BY <1>2 DEF BatchInv, CallsInv, PlanIsSound
    <2> QED BY <2>1, GroupsFacts DEF BatchTyped
<1>4. Left' = Left
    BY <1>1 DEF Left
<1>5. \A j \in Index : OutcomeFits(j)'
    <2>1. OutcomeFits(i)'
        BY <1>1, <1>2 DEF OutcomeFits, UnderWay
    <2>2. ASSUME NEW j \in Index \ {i} PROVE OutcomeFits(j)'
        BY <1>1 DEF ResultsInv, OutcomeFits
    <2> QED BY <2>1, <2>2
<1>6. ArrivedAreDone'
    <2>1. {arrived[n] : n \in DOMAIN arrived} = {j \in groups[1] : at[j] = "done"}
        BY <1>2 DEF ResultsInv, ArrivedAreDone
    <2>2. CASE at'[i] = "done" /\ arrived' = Append(arrived, i)
        <3>1. {arrived'[n] : n \in DOMAIN arrived'} = {arrived[n] : n \in DOMAIN arrived} \cup {i}
            BY <1>3, <2>2, AppendRange
        <3>2. {j \in groups[1] : at'[j] = "done"} = {j \in groups[1] : at[j] = "done"} \cup {i}
            BY <1>1, <1>2, <1>3, <2>2
        <3>3. groups' = groups
            BY <1>1
        <3> QED BY <2>1, <3>1, <3>2, <3>3 DEF ArrivedAreDone
    <2>3. CASE at'[i] \in UnderWay /\ arrived' = arrived
        <3>1. {j \in groups[1] : at'[j] = "done"} = {j \in groups[1] : at[j] = "done"}
            BY <1>1, <1>2, <1>3, <2>3 DEF UnderWay
        <3>2. groups' = groups
            BY <1>1
        <3> QED BY <2>1, <2>3, <3>1, <3>2 DEF ArrivedAreDone
    <2> QED BY <1>1, <2>2, <2>3
<1>7. GatheredInOrder'
    <2>1. ASSUME NEW n \in DOMAIN gathered
          PROVE  gathered[n] \in Nth(Left, n) /\ at'[gathered[n]] = "done"
        <3>1. gathered[n] \in Nth(Left, n) /\ at[gathered[n]] = "done" /\ gathered[n] \in Index
            BY DEF ResultsInv, GatheredInOrder
        <3> QED BY <1>1, <1>2, <3>1
    <2> QED BY <1>1, <1>4, <2>1 DEF ResultsInv, GatheredInOrder
<1>8. PlanIsLeft' /\ AnswersFit'
    BY <1>1, <1>2, <1>4 DEF ResultsInv, PlanIsLeft, AnswersFit
<1> QED BY <1>1, <1>5, <1>6, <1>7, <1>8 DEF ResultsInv

\* Sorted, the calls of a group are one for one in their order.
LEMMA SortedFacts ==
    ASSUME NEW g \in SUBSET Nat, IsFiniteSet(g), NEW S, NEW s \in Seq(S), g \subseteq S,
           {s[n] : n \in DOMAIN s} = g, Len(s) = Cardinality(g)
    PROVE  /\ Sorted(s) \in Seq(S) /\ Len(Sorted(s)) = Cardinality(g)
           /\ \A n \in 1..Cardinality(g) : Sorted(s)[n] \in Nth(g, n)
<1> DEFINE N == Cardinality(g)
<1>1. N \in Nat /\ DOMAIN s = 1..N
    BY FS_CardinalityType
<1> HIDE DEF N
<1>2. Sorted(s) = [n \in 1..N |-> CHOOSE i \in g : i \in Nth(g, n)]
    <2> DEFINE calls == {s[n] : n \in DOMAIN s}
               Chosen(c) == [n \in DOMAIN s |-> CHOOSE i \in c : i \in Nth(c, n)]
    <2>1. Sorted(s) = Chosen(calls)
        BY DEF Sorted
    <2>2. calls = g
        OBVIOUS
    <2> HIDE DEF calls
    <2>3. Sorted(s) = Chosen(g)
        BY <2>1, <2>2
    <2> QED BY <1>1, <2>3
<1>3. ASSUME NEW n \in 1..N
      PROVE  /\ (CHOOSE i \in g : i \in Nth(g, n)) \in g
             /\ (CHOOSE i \in g : i \in Nth(g, n)) \in Nth(g, n)
    <2>1. Nth(g, n) # {} /\ Nth(g, n) \subseteq g
        BY NthExists, NthIsOne DEF N
    <2>2. \E i \in g : i \in Nth(g, n)
        BY <2>1
    <2> QED BY <2>2
<1>4. Sorted(s) \in [1..N -> S] /\ \A n \in 1..N : Sorted(s)[n] \in Nth(g, n)
    BY <1>2, <1>3
<1>5. Sorted(s) \in Seq(S) /\ Len(Sorted(s)) = N
    BY <1>1, <1>4
<1> QED BY <1>4, <1>5 DEF N

\* The screening plans all that is left.
LEMMA ScreenKeepsResults == ASSUME BatchInv, ResultsInv, Screen PROVE ResultsInv'
<1>1. /\ BatchTyped /\ ScreenedAtOnce /\ pc = "screen" /\ pc' = "launch"
      /\ UNCHANGED <<batch, at, ran, arrived, gathered>> /\ Index' = Index
      /\ blocked' \subseteq Index /\ groups' = Grouped(Left')
      /\ result' = [i \in Index |-> IF i \in blocked' THEN "refused" ELSE ""]
    BY DEF BatchInv, CallsInv, Screen, Left, Index
<1>2. Left' \subseteq Index /\ Left' \subseteq Nat /\ IsFiniteSet(Left')
    <2>1. Left' \subseteq Index
        BY <1>1 DEF Left
    <2> QED BY <1>1, <2>1, BatchFacts, FS_Subset
<1>3. gathered = <<>>
    BY <1>1 DEF ResultsInv, GatheredInOrder
<1>4. Len(gathered) = 0 /\ gathered \in Seq(Index) /\ DOMAIN gathered = {}
    BY <1>3
<1>5. ASSUME NEW i \in Index PROVE OutcomeFits(i)'
    <2>1. at[i] = "idle" /\ (i \in blocked' => result'[i] = "refused")
        BY <1>1 DEF ScreenedAtOnce
    <2> QED BY <1>1, <2>1 DEF OutcomeFits
<1>6. ArrivedAreDone' /\ GatheredInOrder' /\ AnswersFit'
    BY <1>1, <1>3, <1>4 DEF ArrivedAreDone, GatheredInOrder, AnswersFit
<1>7. PlanIsLeft'
    <2>1. CASE groups' = <<Left'>>
        BY <1>1, <1>3, <2>1 DEF PlanIsLeft
    <2>2. CASE groups' = [n \in 1..Cardinality(Left') |-> Nth(Left', n)]
        <3> DEFINE N == Cardinality(Left')
        <3>1. N \in Nat
            BY <1>2, FS_CardinalityType
        <3>2. groups' = [n \in 1..N |-> Nth(Left', n)]
            BY <2>2
        <3> HIDE DEF N
        <3>3. Len(groups') = N /\ DOMAIN groups' = 1..N
            BY <3>1, <3>2
        <3>4. \A n \in 1..N : groups'[n] = Nth(Left', 0 + n)
            BY <3>2
        <3>5. 0 + Len(groups') = N
            BY <3>1, <3>3
        <3>6. /\ Len(gathered') + Len(groups') = Cardinality(Left')
              /\ \A n \in DOMAIN groups' : groups'[n] = Nth(Left', Len(gathered') + n)
            BY <1>1, <1>4, <3>3, <3>4, <3>5 DEF N
        <3> QED BY <3>6 DEF PlanIsLeft, Nth
    <2>3. groups' = <<Left'>> \/ groups' = [n \in 1..Cardinality(Left') |-> Nth(Left', n)]
        BY <1>1 DEF Grouped
    <2> QED BY <2>1, <2>2, <2>3
<1> QED BY <1>1, <1>5, <1>6, <1>7 DEF ResultsInv

\* A start of calls ends none.
LEMMA StartKeepsResults ==
    ASSUME BatchInv, ResultsInv, Launch \/ StartSerial
    PROVE  ResultsInv'
<1>1. /\ UNCHANGED <<batch, blocked, groups, ran, result, arrived, gathered, answers>>
      /\ Index' = Index /\ Left' = Left /\ pc \in {"launch", "run"} /\ pc' = "run"
      /\ groups # <<>> /\ BatchTyped
    BY DEF Launch, StartSerial, Index, Left, BatchInv, CallsInv, PlanIsSound
<1>2. groups[1] \subseteq Index /\ 1 \in DOMAIN groups
    BY <1>1, GroupsFacts
<1>3. \A i \in Index : at'[i] = "done" <=> at[i] = "done"
    <2>1. at \in [Index -> {"idle", "done"} \cup UnderWay]
        BY <1>1 DEF BatchTyped, BatchTypeOK, UnderWay
    <2>2. CASE Launch
        <3>1. /\ groups[1] = Head(groups) /\ pc = "launch"
              /\ \A i \in Index : at'[i] = IF i \in SideBySide(groups[1]) THEN "enter" ELSE at[i]
            BY <1>1, <2>2, GroupsFacts DEF Launch
        <3>2. SideBySide(groups[1]) \subseteq groups[1]
            BY <1>1, <1>2, SideBySideFacts
        <3>3. \A i \in groups[1] : at[i] = "idle"
            BY <1>2, <3>1 DEF BatchInv, GroupsInTurn
        <3> QED BY <3>1, <3>2, <3>3
    <2>3. CASE StartSerial
        BY <2>1, <2>3 DEF StartSerial
    <2> QED BY <2>2, <2>3
<1>4. ASSUME NEW i \in Index PROVE OutcomeFits(i)'
    BY <1>1, <1>3 DEF ResultsInv, OutcomeFits
<1>5. ArrivedAreDone'
    <2>1. {i \in groups[1] : at'[i] = "done"} = {i \in groups[1] : at[i] = "done"}
        BY <1>2, <1>3
    <2>2. CASE Launch
        <3>1. arrived = <<>> /\ pc = "launch"
            BY <2>2 DEF Launch, BatchInv, PlanIsSound
        <3>2. \A i \in groups[1] : at[i] = "idle"
            BY <1>2, <3>1 DEF BatchInv, GroupsInTurn
        <3>3. DOMAIN arrived = {}
            <4>1. <<>> \in Seq(Nat) /\ Len(<<>>) = 0
                OBVIOUS
            <4> QED BY <3>1, <4>1
        <3>4. {arrived[n] : n \in DOMAIN arrived} = {i \in groups[1] : at[i] = "done"}
            BY <3>2, <3>3
        <3> QED BY <1>1, <2>1, <3>4 DEF ArrivedAreDone
    <2>3. CASE StartSerial
        BY <1>1, <2>1, <2>3 DEF StartSerial, ResultsInv, ArrivedAreDone
    <2> QED BY <2>2, <2>3
<1>6. GatheredInOrder'
    <2>1. ASSUME NEW n \in DOMAIN gathered
          PROVE  gathered[n] \in Nth(Left, n) /\ at'[gathered[n]] = "done"
        <3>1. gathered[n] \in Nth(Left, n) /\ at[gathered[n]] = "done" /\ gathered[n] \in Index
            BY DEF ResultsInv, GatheredInOrder
        <3> QED BY <1>3, <3>1
    <2> QED BY <1>1, <2>1 DEF ResultsInv, GatheredInOrder
<1>7. PlanIsLeft' /\ AnswersFit'
    BY <1>1 DEF ResultsInv, PlanIsLeft, AnswersFit
<1> QED BY <1>1, <1>4, <1>5, <1>6, <1>7 DEF ResultsInv

\* The group whose results are gathered is through, and they come in the order of
\* its calls.
LEMMA CollectedFacts ==
    ASSUME BatchInv, ResultsInv, Collect
    PROVE  /\ groups[1] \subseteq Nat /\ IsFiniteSet(groups[1])
           /\ \A i \in groups[1] : i \in Index /\ at[i] = "done"
           /\ Sorted(arrived) \in Seq(Index) /\ Len(Sorted(arrived)) = Cardinality(groups[1])
           /\ \A n \in 1..Cardinality(groups[1]) : Sorted(arrived)[n] \in Nth(groups[1], n)
<1>1. pc = "run" /\ Len(arrived) = Cardinality(Head(groups)) /\ groups # <<>> /\ BatchTyped
    BY DEF Collect, BatchInv, CallsInv, PlanIsSound
<1>2. Head(groups) = groups[1] /\ groups[1] \subseteq Index /\ arrived \in Seq(Index)
    BY <1>1, GroupsFacts DEF BatchTyped
<1>3. groups[1] \subseteq Nat /\ IsFiniteSet(groups[1])
    BY <1>1, <1>2, BatchFacts, FS_Subset
<1> DEFINE D == {i \in groups[1] : at[i] = "done"}
<1>4. Cardinality(D) = Cardinality(groups[1]) /\ D \subseteq groups[1]
    BY <1>1, <1>2 DEF BatchInv, ArrivedIsDone
<1>5. {arrived[n] : n \in DOMAIN arrived} = D
    BY <1>1 DEF ResultsInv, ArrivedAreDone
<1>6. D = groups[1]
    <2> HIDE DEF D
    <2> QED BY <1>3, <1>4, FS_Subset
<1>7. \A i \in groups[1] : i \in Index /\ at[i] = "done"
    BY <1>2, <1>6
<1> HIDE DEF D
<1> QED BY <1>1, <1>2, <1>3, <1>5, <1>6, <1>7, SortedFacts

\* One sequence after another.
LEMMA ConcatFacts ==
    ASSUME NEW S, NEW s \in Seq(S), NEW t \in Seq(S)
    PROVE  /\ s \o t \in Seq(S) /\ Len(s \o t) = Len(s) + Len(t) /\ Len(t) \in Nat
           /\ \A n \in 1..(Len(s) + Len(t)) :
                 (s \o t)[n] = IF n <= Len(s) THEN s[n] ELSE t[n - Len(s)]
OBVIOUS

\* The results of a group come after those that are gathered.
LEMMA CollectKeepsResults == ASSUME BatchInv, ResultsInv, Collect PROVE ResultsInv'
<1> DEFINE more == Sorted(arrived)
           g == groups[1]
<1>1. /\ pc = "run" /\ pc' = "launch" /\ gathered' = gathered \o more
      /\ groups' = Tail(groups) /\ groups # <<>> /\ BatchTyped
      /\ UNCHANGED <<batch, blocked, at, ran, result, answers>> /\ Index' = Index /\ Left' = Left
    BY DEF Collect, Index, Left, BatchInv, CallsInv, PlanIsSound
<1>2. /\ g \subseteq Nat /\ IsFiniteSet(g) /\ \A i \in g : i \in Index /\ at[i] = "done"
      /\ more \in Seq(Index) /\ Len(more) = Cardinality(g)
      /\ \A n \in 1..Cardinality(g) : more[n] \in Nth(g, n)
    BY CollectedFacts
<1> HIDE DEF more, g
<1>3. /\ gathered \in Seq(Index) /\ Len(gathered) \in Nat /\ DOMAIN gathered = 1..Len(gathered)
      /\ \A n \in 1..Len(gathered) : gathered[n] \in Nth(Left, n) /\ at[gathered[n]] = "done"
    <2>1. gathered \in Seq(Index)
        BY DEF ResultsInv, GatheredInOrder
    <2>2. Len(gathered) \in Nat /\ DOMAIN gathered = 1..Len(gathered)
        BY <2>1
    <2> QED BY <2>1, <2>2 DEF ResultsInv, GatheredInOrder
<1>4. Cardinality(g) \in Nat
    BY <1>2, FS_CardinalityType
<1>5. /\ gathered' \in Seq(Index) /\ Len(gathered') = Len(gathered) + Cardinality(g)
      /\ \A n \in 1..Len(gathered) : gathered'[n] = gathered[n]
      /\ \A n \in 1..Cardinality(g) : gathered'[Len(gathered) + n] = more[n]
    <2>1. Len(more) \in Nat /\ gathered' \in Seq(Index)
          /\ Len(gathered') = Len(gathered) + Len(more)
          /\ \A n \in 1..(Len(gathered) + Len(more)) :
                gathered'[n] = IF n <= Len(gathered) THEN gathered[n]
                               ELSE more[n - Len(gathered)]
        BY <1>1, <1>2, <1>3, ConcatFacts
    <2>3. ASSUME NEW n \in 1..Len(more) PROVE gathered'[Len(gathered) + n] = more[n]
        <3>1. /\ Len(gathered) + n \in 1..(Len(gathered) + Len(more))
              /\ ~(Len(gathered) + n <= Len(gathered)) /\ (Len(gathered) + n) - Len(gathered) = n
            BY <1>3, <2>1
        <3> QED BY <2>1, <3>1
    <2>4. \A n \in 1..Len(gathered) : gathered'[n] = gathered[n]
        BY <1>3, <2>1
    <2> QED BY <1>2, <2>1, <2>3, <2>4
<1>6. Left \subseteq Nat /\ IsFiniteSet(Left) /\ Cardinality(Left) \in Nat
    <2>1. Left \subseteq Index
        BY DEF Left
    <2>2. Left \subseteq Nat /\ IsFiniteSet(Left)
        BY <1>1, <2>1, BatchFacts, FS_Subset
    <2> QED BY <2>2, FS_CardinalityType
<1>7. Len(groups) \in Nat /\ Len(groups) # 0 /\ groups \in Seq(SUBSET Index)
    <2>1. groups \in Seq(SUBSET Index)
        BY <1>1 DEF BatchTyped, BatchTypeOK
    <2> QED BY <1>1, <2>1
<1>8. /\ Len(groups') = Len(groups) - 1 /\ DOMAIN groups' = 1..Len(groups')
      /\ \A n \in 1..Len(groups') : groups'[n] = groups[n + 1]
    BY <1>1, <1>7
<1>9. /\ \A n \in 1..Cardinality(g) : more[n] \in Nth(Left, Len(gathered) + n)
      /\ Len(gathered') + Len(groups') = Cardinality(Left)
      /\ \A n \in DOMAIN groups' : groups'[n] = Nth(Left, Len(gathered') + n)
    <2>1. CASE groups = <<Left>> /\ gathered = <<>>
        <3>1. g = Left /\ Len(gathered) = 0 /\ Len(groups) = 1
            BY <2>1 DEF g
        <3>2. Len(groups') = 0 /\ DOMAIN groups' = {}
            BY <1>8, <3>1
        <3>3. \A n \in 1..Cardinality(g) : n = Len(gathered) + n
            BY <3>1
        <3> QED BY <1>2, <1>4, <1>5, <3>1, <3>2, <3>3
    <2>2. CASE /\ Len(gathered) + Len(groups) = Cardinality(Left)
               /\ \A n \in DOMAIN groups : groups[n] = Nth(Left, Len(gathered) + n)
        <3> DEFINE k == Len(gathered) + 1
        <3>1. k \in 1..Cardinality(Left) /\ DOMAIN groups = 1..Len(groups) /\ 1 \in 1..Len(groups)
            BY <1>3, <1>6, <1>7, <2>2
        <3>2. g = Nth(Left, k)
            BY <2>2, <3>1 DEF g
        <3>3. PICK x : x \in g
            BY <1>6, <3>1, <3>2, NthExists
        <3>4. g = {x}
            BY <1>6, <3>2, <3>3, NthIsOne
        <3>5. Cardinality(g) = 1
            BY <3>4, FS_Singleton
        <3>6. more[1] \in Nth(Left, k)
            <4>1. more[1] \in Nth(g, 1) /\ Nth(g, 1) \subseteq g
                BY <1>2, <3>5, NthIsOne
            <4> QED BY <3>2, <4>1
        <3>7. \A n \in 1..Cardinality(g) : more[n] \in Nth(Left, Len(gathered) + n)
            BY <3>5, <3>6
        <3>8. Len(gathered') + Len(groups') = Cardinality(Left)
            BY <1>3, <1>5, <1>6, <1>7, <1>8, <2>2, <3>5
        <3>9. ASSUME NEW n \in DOMAIN groups' PROVE groups'[n] = Nth(Left, Len(gathered') + n)
            <4>1. n \in Nat /\ n + 1 \in 1..Len(groups) /\ groups'[n] = groups[n + 1]
                BY <1>7, <1>8
            <4>2. groups[n + 1] = Nth(Left, Len(gathered) + (n + 1))
                BY <2>2, <3>1, <4>1
            <4>3. Len(gathered) + (n + 1) = Len(gathered') + n
                BY <1>3, <1>5, <3>5, <4>1
            <4> QED BY <4>1, <4>2, <4>3
        <3> QED BY <3>7, <3>8, <3>9
    <2> QED BY <1>1, <2>1, <2>2 DEF ResultsInv, PlanIsLeft
<1>10. ASSUME NEW i \in Index PROVE OutcomeFits(i)'
    BY <1>1 DEF ResultsInv, OutcomeFits
<1>11. ArrivedAreDone' /\ AnswersFit'
    BY <1>1 DEF ArrivedAreDone, AnswersFit
<1>12. GatheredInOrder'
    <2>1. ASSUME NEW n \in DOMAIN gathered'
          PROVE  gathered'[n] \in Nth(Left, n) /\ at[gathered'[n]] = "done"
        <3>1. CASE n \in 1..Len(gathered)
            BY <1>3, <1>5, <3>1
        <3>2. CASE n \notin 1..Len(gathered)
            <4>1. n \in 1..(Len(gathered) + Cardinality(g))
                BY <1>5
            <4>2. PICK m \in 1..Cardinality(g) : n = Len(gathered) + m
                <5>1. n - Len(gathered) \in 1..Cardinality(g)
                      /\ n = Len(gathered) + (n - Len(gathered))
                    BY <1>3, <1>4, <3>2, <4>1
                <5> QED BY <5>1
            <4>3. gathered'[n] = more[m] /\ more[m] \in Nth(Left, n) /\ more[m] \in Nth(g, m)
                BY <1>2, <1>5, <1>9, <4>2
            <4>4. more[m] \in g
                BY <1>2, <4>3, NthIsOne
            <4> QED BY <1>2, <4>3, <4>4
        <3> QED BY <3>1, <3>2
    <2> QED BY <1>1, <1>5, <2>1 DEF GatheredInOrder
<1>13. PlanIsLeft'
    BY <1>1, <1>9 DEF PlanIsLeft
<1> QED BY <1>1, <1>10, <1>11, <1>12, <1>13 DEF ResultsInv

\* The place of a call that is left holds the call itself.
LEMMA PlaceFacts ==
    ASSUME BatchTyped, GatheredInOrder, Len(gathered) = Cardinality(Left), NEW i \in Left
    PROVE  Place(i) = i /\ at[i] = "done"
<1>1. Left \subseteq Nat /\ IsFiniteSet(Left) /\ i \in Index /\ i \in Nat
    <2>1. Left \subseteq Index
        BY DEF Left
    <2> QED BY <2>1, BatchFacts, FS_Subset
<1>2. (1..i) \ blocked = {j \in Left : j <= i}
    BY <1>1, BatchFacts DEF Left
<1> DEFINE r == Cardinality({j \in Left : j <= i})
<1>3. r \in 1..Cardinality(Left) /\ i \in Nth(Left, r)
    BY <1>1, NthExists DEF Nth
<1>4. Place(i) = gathered[r]
    BY <1>2 DEF Place, Left
<1> HIDE DEF r
<1>5. r \in DOMAIN gathered
    BY <1>3 DEF GatheredInOrder
<1>6. gathered[r] \in Nth(Left, r) /\ at[gathered[r]] = "done"
    BY <1>5 DEF GatheredInOrder
<1>7. gathered[r] = i
    BY <1>1, <1>3, <1>6, NthIsOne
<1> QED BY <1>4, <1>6, <1>7

\* The answers stand at the places of their calls.
LEMMA MergeKeepsResults == ASSUME BatchInv, ResultsInv, Merge PROVE ResultsInv'
<1>1. /\ pc = "launch" /\ pc' = "returned" /\ groups = <<>> /\ BatchTyped
      /\ answers' = [i \in Index |-> [call |-> Place(i), text |-> result[Place(i)]]]
      /\ UNCHANGED <<batch, blocked, groups, at, ran, result, arrived, gathered>>
      /\ Index' = Index /\ Left' = Left
    BY DEF Merge, Index, Left, BatchInv, CallsInv
<1>2. Len(gathered) = Cardinality(Left)
    <2>1. Len(groups) = 0 /\ Len(gathered) \in Nat
        BY <1>1 DEF ResultsInv, GatheredInOrder
    <2>2. groups # <<Left>>
        <3>1. Len(<<Left>>) = 1
            OBVIOUS
        <3> QED BY <2>1, <3>1
    <2> QED BY <1>1, <2>1, <2>2 DEF ResultsInv, PlanIsLeft
<1>3. \A i \in Left : Place(i) = i /\ at[i] = "done"
    BY <1>1, <1>2, PlaceFacts DEF ResultsInv
<1>4. \A i \in Index : Place(i) = i
    BY <1>3 DEF Place, Left
<1>5. answers' = [i \in Index |-> [call |-> i, text |-> result[i]]]
    BY <1>1, <1>4
<1>6. AnswersFit'
    BY <1>1, <1>3, <1>5 DEF AnswersFit
<1>7. ASSUME NEW i \in Index PROVE OutcomeFits(i)'
    BY <1>1 DEF ResultsInv, OutcomeFits
<1>8. ArrivedAreDone' /\ GatheredInOrder' /\ PlanIsLeft'
    BY <1>1 DEF ResultsInv, ArrivedAreDone, GatheredInOrder, PlanIsLeft
<1> QED BY <1>1, <1>6, <1>7, <1>8 DEF ResultsInv

\* The turn's end and its time change no result.
LEMMA TurnKeepsResults ==
    ASSUME ResultsInv, CancelTurn \/ Pass \/ UNCHANGED batchVars
    PROVE  ResultsInv'
<1>1. /\ UNCHANGED <<batch, pc, blocked, groups, at, ran, result, arrived, gathered, answers>>
      /\ Index' = Index /\ Left' = Left
    BY DEF CancelTurn, Pass, batchVars, Index, Left
<1>2. ASSUME NEW i \in Index PROVE OutcomeFits(i)'
    BY <1>1 DEF ResultsInv, OutcomeFits
<1>3. ArrivedAreDone' /\ GatheredInOrder' /\ PlanIsLeft' /\ AnswersFit'
    BY <1>1 DEF ResultsInv, ArrivedAreDone, GatheredInOrder, PlanIsLeft, AnswersFit
<1> QED BY <1>1, <1>2, <1>3 DEF ResultsInv

\* What is gathered follows the order of the calls in every batch.
LEMMA ResultsInvariant == BatchSpec => []ResultsInv
<1>1. ASSUME BatchInit PROVE ResultsInv
    <2>1. /\ pc = "screen" /\ blocked = {} /\ gathered = <<>>
          /\ \A i \in Index : at[i] = "idle"
        BY <1>1 DEF BatchInit
    <2>2. ASSUME NEW i \in Index PROVE OutcomeFits(i)
        BY <2>1 DEF OutcomeFits
    <2>3. gathered \in Seq(Index) /\ DOMAIN gathered = {}
        BY <2>1
    <2> QED BY <2>1, <2>2, <2>3
            DEF ResultsInv, ArrivedAreDone, GatheredInOrder, PlanIsLeft, AnswersFit
<1>2. BatchInv /\ ResultsInv /\ [BatchNext]_batchVars => ResultsInv'
    BY ScreenKeepsResults, StartKeepsResults, CollectKeepsResults, MergeKeepsResults,
       TurnKeepsResults, CallKeepsResults DEF BatchNext
<1> QED BY <1>1, <1>2, BatchInvariant, PTL DEF BatchSpec

\* The batch answers its calls one for one and in their order, whatever was
\* blocked and whichever ended first, and no answer contradicts what the tool did
\* (executeToolCallsOrderedGuardedContext, loop_execution.go).
THEOREM ResultsAreTrue == BatchSpec => []ResultsTellWhatRan
<1>1. ASSUME BatchInv, ResultsInv, pc = "returned"
      PROVE  /\ Len(answers) = Len(batch.calls)
             /\ \A i \in Index :
                  /\ answers[i].call = i /\ answers[i].text # "" /\ ran[i] <= 1
                  /\ answers[i].text = "ok" => ran[i] = 1
                  /\ answers[i].text \notin {"ok", "error"} => ran[i] = 0
    <2>1. BatchTyped
        BY <1>1 DEF BatchInv, CallsInv
    <2>2. /\ answers = [i \in Index |-> [call |-> i, text |-> result[i]]]
          /\ \A i \in Left : at[i] = "done"
        BY <1>1 DEF ResultsInv, AnswersFit
    <2>3. Index = 1..Len(batch.calls) /\ Len(batch.calls) \in Nat
        BY <2>1, BatchFacts
    <2>4. Len(answers) = Len(batch.calls)
        BY <2>2, <2>3
    <2>5. ASSUME NEW i \in Index
          PROVE  /\ answers[i].call = i /\ answers[i].text = result[i]
                 /\ result[i] # "" /\ ran[i] <= 1 /\ (result[i] = "ok" => ran[i] = 1)
                 /\ (result[i] \notin {"ok", "error"} => ran[i] = 0)
        <3>1. ran[i] \in 0..1 /\ CallIsScreened(i) /\ OutcomeFits(i)
            BY <1>1, <2>1 DEF BatchTyped, BatchTypeOK, BatchInv, CallsInv, ResultsInv
        <3>2. ran[i] <= 1 /\ answers[i].call = i /\ answers[i].text = result[i]
            BY <2>2, <3>1
        <3>3. CASE at[i] = "done"
            BY <3>1, <3>2, <3>3 DEF OutcomeFits
        <3>4. CASE at[i] # "done"
            <4>1. i \in blocked /\ result[i] = "refused"
                BY <2>2, <3>1, <3>4 DEF Left, OutcomeFits
            <4>2. ran[i] = 0
                BY <3>1, <3>4 DEF CallIsScreened
            <4> QED BY <3>2, <4>1, <4>2
        <3> QED BY <3>3, <3>4
    <2> QED BY <2>4, <2>5
<1>2. BatchInv /\ ResultsInv => ResultsTellWhatRan
    BY <1>1 DEF ResultsTellWhatRan
<1> QED BY <1>2, BatchInvariant, ResultsInvariant, PTL
=============================================================================
