---------------------------- MODULE MemoryRecall ----------------------------
(***************************************************************************)
(* A memory recall bounded in time: a goroutine searches the vault, which  *)
(* may not look at its context, and reads the notes the search left open,  *)
(* while the caller waits for it or for the deadline.                      *)
(*                                                                         *)
(* src/agent/memory_recall_timeout.go                                      *)
(***************************************************************************)
EXTENDS Integers, Sequences, FiniteSets

CONSTANT MaxHits    \* bound: hits of the search

ASSUME RecallAssumption == MaxHits \in Nat

VARIABLES
    search,         \* the goroutine: runRecall and fillRecallEntries
    phase,          \* the phase the caller can see
    opened,         \* recallProgress.opened: notes handled so far
    delivery,       \* what the goroutine leaves in the channel
    recaller,       \* what Recall returned
    expired,        \* the deadline has passed, or the turn was cancelled
    observed        \* observations recorded: "timeout" or "result", by whom

recallVars == <<search, phase, opened, delivery, recaller, expired, observed>>

\* A hit of the search: its note still has to be read, is there already, or was
\* asked for and the store had none.
Hit == {"open", "read", "gone"}
Hits == UNION {[1..n -> Hit] : n \in 0..MaxHits}

Err == {"nil", "timeout", "other"}
NoOutcome == [sent |-> FALSE, err |-> "nil", results |-> << >>]

\* hits: what the search found; next: the hit read next; reading: getter.Get
\* is under way.
Search == [at: {"scan", "read", "send", "end"}, hits: Hits, next: 1..(MaxHits + 1),
           reading: BOOLEAN]

RecallTypeOK ==
    /\ search \in Search
    /\ phase \in {"scan", "read"}
    /\ opened \in Hits
    /\ delivery \in [sent: BOOLEAN, err: Err, results: Hits]
    /\ recaller \in [returned: BOOLEAN, err: Err, results: Hits]
    /\ expired \in BOOLEAN
    /\ observed \in [search: BOOLEAN, caller: BOOLEAN]

RecallInit ==
    /\ search = [at |-> "scan", hits |-> << >>, next |-> 1, reading |-> FALSE]
    /\ phase = "scan" /\ opened = << >> /\ delivery = NoOutcome
    /\ recaller = [returned |-> FALSE, err |-> "nil", results |-> << >>]
    /\ expired = FALSE
    /\ observed = [search |-> FALSE, caller |-> FALSE]

-----------------------------------------------------------------------------
(* The goroutine.                                                          *)

\* An outcome is formed; ctx is asked once more for one without an error.
FinishRecall(err, results) ==
    /\ search' = [search EXCEPT !.at = "send", !.reading = FALSE]
    /\ delivery' = [sent |-> FALSE,
                   err |-> IF err = "nil" /\ expired THEN "timeout" ELSE err,
                   results |-> results]

\* The search returns, also long after the deadline; a search that does look
\* at its context returns the deadline's error.
ScanReturns ==
    /\ search.at = "scan"
    /\ \E hits \in Hits, err \in Err :
        /\ err = "timeout" => expired
        /\ \A i \in DOMAIN hits : hits[i] # "gone"
        /\ IF err = "nil" /\ \E i \in DOMAIN hits : hits[i] = "open"
           THEN /\ search' = [search EXCEPT !.at = "read", !.hits = hits]
                /\ phase' = "read"
                /\ UNCHANGED delivery
           ELSE FinishRecall(err, hits) /\ UNCHANGED phase
    /\ UNCHANGED <<opened, recaller, expired, observed>>

\* fillRecallEntries, one hit at a time: the deadline first, then the hits that
\* need no reading, then the read itself.
Filled == opened

StopAtDeadline ==
    /\ search.at = "read" /\ expired /\ search.next <= Len(search.hits)
    /\ FinishRecall("timeout", IF Filled = << >> THEN search.hits ELSE Filled)
    /\ UNCHANGED <<phase, opened, recaller, expired, observed>>

TakeRead ==
    /\ search.at = "read" /\ ~search.reading /\ search.next <= Len(search.hits) /\ ~expired
    /\ IF search.hits[search.next] = "read"
       THEN /\ opened' = Append(opened, "read")
            /\ search' = [search EXCEPT !.next = @ + 1]
       ELSE search' = [search EXCEPT !.reading = TRUE] /\ UNCHANGED opened
    /\ UNCHANGED <<phase, delivery, recaller, expired, observed>>

\* getRecallEntry: the note is there, the store has none and says so without an
\* error (the hit is handed over as it was), or reading it failed.
NoteRead ==
    /\ search.at = "read" /\ search.reading
    /\ \E note \in {"read", "gone"} : opened' = Append(opened, note)
    /\ search' = [search EXCEPT !.next = @ + 1, !.reading = FALSE]
    /\ UNCHANGED <<phase, delivery, recaller, expired, observed>>

\* Faulty: a note that cannot be read is left out.
NoteSkipped ==
    /\ search.at = "read" /\ search.reading
    /\ search' = [search EXCEPT !.next = @ + 1, !.reading = FALSE]
    /\ UNCHANGED <<phase, opened, delivery, recaller, expired, observed>>

NoteFails ==
    /\ search.at = "read" /\ search.reading
    /\ IF expired THEN FinishRecall("timeout", IF Filled = << >> THEN search.hits ELSE Filled)
       ELSE FinishRecall("other", search.hits)
    /\ UNCHANGED <<phase, opened, recaller, expired, observed>>

AllRead ==
    /\ search.at = "read" /\ search.next > Len(search.hits)
    /\ FinishRecall("nil", Filled)
    /\ UNCHANGED <<phase, opened, recaller, expired, observed>>

\* After the deadline the goroutine records the outcome itself, then leaves it
\* in the channel, which has room for it.
SendOutcome ==
    /\ search.at = "send"
    /\ search' = [search EXCEPT !.at = "end"]
    /\ observed' = [observed EXCEPT !.search = expired]
    /\ delivery' = [delivery EXCEPT !.sent = TRUE]
    /\ UNCHANGED <<phase, opened, recaller, expired>>

-----------------------------------------------------------------------------
(* The caller.  When both are ready, select takes either.                  *)

TakeOutcome ==
    /\ ~recaller.returned /\ delivery.sent
    /\ recaller' = [returned |-> TRUE, err |-> delivery.err, results |-> delivery.results]
    /\ observed' = [observed EXCEPT !.caller = TRUE]
    /\ UNCHANGED <<search, phase, opened, delivery, expired>>

TimeOut ==
    /\ ~recaller.returned /\ expired
    /\ recaller' = [returned |-> TRUE, err |-> "timeout", results |-> opened]
    /\ observed' = [observed EXCEPT !.caller = TRUE]
    /\ UNCHANGED <<search, phase, opened, delivery, expired>>

Deadline ==
    /\ ~expired /\ expired' = TRUE
    /\ UNCHANGED <<search, phase, opened, delivery, recaller, observed>>

RecallGoroutine ==
    ScanReturns \/ StopAtDeadline \/ TakeRead \/ NoteRead \/ NoteFails \/ AllRead \/ SendOutcome

RecallNext == RecallGoroutine \/ TakeOutcome \/ TimeOut \/ Deadline

\* The caller runs.  Nothing is assumed of the search.
RecallFairness == WF_recallVars(TakeOutcome \/ TimeOut)

RecallSpec == RecallInit /\ [][RecallNext]_recallVars /\ RecallFairness

-----------------------------------------------------------------------------
(* Properties.                                                             *)

\* A recall without an error hands over every hit of the search, each after its
\* note was asked for, whenever the deadline passes and however late the
\* goroutine is: what is cut short never looks complete (fillRecallEntries).
RecallIsWhole ==
    recaller.returned /\ recaller.err = "nil" =>
        /\ search.at = "end"
        /\ \A i \in DOMAIN recaller.results : recaller.results[i] # "open"
        /\ search.hits # << >> => Len(recaller.results) = Len(search.hits)
=============================================================================
