-------------------------- MODULE StreamTurnProofs --------------------------
(***************************************************************************)
(* Proofs about a streamed turn, for any capacity of the channel and any   *)
(* number of rounds, chunks and failed writes: its types, one terminal     *)
(* event, and that an answer reported as done is stored.  StreamInv, the   *)
(* inductive invariant, has the types, what was told to the reader at each *)
(* place of the goroutine (Told) and what is stored there (Kept).  What a  *)
(* round may come to is one predicate, Sound; each branch of the code is a *)
(* lemma that reaches it.                                                  *)
(***************************************************************************)
EXTENDS StreamTurn, TLAPS

-----------------------------------------------------------------------------
(* The inductive invariant.                                                *)

Event == [kind : {"info", "text", "done", "error"}, soft : BOOLEAN]
Gate == [missing : BOOLEAN, unavailable : BOOLEAN, told : BOOLEAN]
Batch == [calls : SUBSET StreamCall, gate : BOOLEAN]
Session == [question : BOOLEAN, open : SUBSET StreamCall,
            answer : {"none", "notice", "model", "synthesis"}]

\* Where the goroutine works on the turn, and where the transcript is whole.
Settled == {"ask", "synthesis", "tell", "save", "next", "finalize", "report"}
Working == Settled \cup {"run", "record"}
Before == {"begin", "prepare"}

\* What is told while the turn goes on, and what is told at its end.
Informing == {es \in Seq(Event) : \A n \in DOMAIN es : es[n].kind \in {"info", "text"}}
Last == [kind : {"done", "error"}, soft : BOOLEAN]

\* The session has the whole turn.
Complete(s) == s.question /\ s.open = {} /\ s.answer # "none"

\* A round of the turn, what it changes besides, and the channel.
RoundTyped ==
    /\ mode \in {"native", "simulated"} /\ remaining \in 1..MaxRounds /\ tries \in 0..1
    /\ heard \in 0..MaxChunks /\ shown \in 0..heard /\ gate \in Gate /\ batch \in Batch

NotesTyped ==
    /\ empties \in 0..MaxEmpty /\ cited \in BOOLEAN /\ waiting \in BOOLEAN
    /\ registered \in BOOLEAN

StoreTyped ==
    /\ stored \in Session
    /\ answer \in {"none", "notice", "model", "synthesis", "timeout", "other"}
    /\ writeFaults \in 0..MaxWriteFaults

ChannelTyped ==
    /\ buffer \in 0..Capacity
    /\ sent \in [last : {"none", "done", "error"}, more : BOOLEAN, dropped : BOOLEAN]
    /\ cause \in {"none", "cancelled", "expired", "session"}
    /\ caller \in {"live", "cancelled", "expired"} /\ adapter \in {"reading", "gone"}

PlaceTyped == at \in Before \cup Working \cup {"ended", "closed"} /\ out \in Seq(Event)

\* While the turn goes on nothing final was told.  At its end one terminal event
\* is under way, or it went out, or it was given up, and nothing follows it.
Told ==
    /\ ~sent.more
    /\ at \in Before \cup Working => sent.last = "none" /\ out \in Informing
    /\ at = "ended" =>
          \/ out = <<>> /\ (sent.last # "none" \/ sent.dropped)
          \/ /\ sent.last = "none"
             /\ \E e \in Last : out = <<e>> /\ (e.kind = "done" => Complete(stored))
    /\ at = "closed" => out = <<>> /\ (stored.question => sent.last # "none" \/ sent.dropped)
    /\ sent.last = "done" => Complete(stored)

\* What the session has at each place, and which answer is about to go there.
Kept ==
    /\ at \in Before => stored.open = {} /\ ~stored.question
    /\ at \in Working => stored.question
    /\ at \in {"run", "record"} => stored.open = batch.calls
    /\ at \in Settled => stored.open = {}
    /\ at = "synthesis" => answer \in {"timeout", "other"}
    /\ at = "finalize" => answer \in {"notice", "model", "synthesis"}
    /\ at = "report" => stored.answer # "none"

StreamInv ==
    /\ RoundTyped /\ NotesTyped /\ StoreTyped /\ ChannelTyped /\ PlaceTyped
    /\ Told /\ Kept

\* What a step of the goroutine leads to: it goes on, or it ends the turn and
\* says so, with "done" for a turn that is stored.
Moves ==
    \/ at' \in Before \cup Working /\ out' \in Informing
    \/ at' = "ended" /\ \E e \in Last : out' = <<e>> /\ (e.kind = "done" => Complete(stored'))

Sound == RoundTyped' /\ StoreTyped' /\ Moves /\ Kept'

\* A place where the turn may take a decision.
Deciding(p) == p \in {"ask", "tell", "next"}

-----------------------------------------------------------------------------
(* Lemmas.                                                                 *)

\* The sequences of events that the turn sends.
LEMMA EventFacts ==
    /\ <<>> \in Informing
    /\ \A kind \in {"info", "text"} : <<Plain(kind)>> \in Informing /\ <<Soft(kind)>> \in Informing
    /\ \A kind \in {"done", "error"} : Plain(kind) \in Last /\ Soft(kind) \in Last
    /\ Plain("error").kind # "done" /\ Soft("error").kind # "done"
    /\ Last \subseteq Event /\ Informing \subseteq Seq(Event)
    /\ \A e \in Event : <<e>> \in Seq(Event)
<1>1. <<>> \in Informing
    <2>1. <<>> \in Seq(Event) /\ Len(<<>>) = 0 /\ DOMAIN <<>> = 1..0
        OBVIOUS
    <2> QED BY <2>1 DEF Informing
<1>2. ASSUME NEW e \in Event, e.kind \in {"info", "text"} PROVE <<e>> \in Informing
    <2>1. <<e>> \in Seq(Event) /\ DOMAIN <<e>> = {1} /\ <<e>>[1] = e
        OBVIOUS
    <2> QED BY <1>2, <2>1 DEF Informing
<1>3. ASSUME NEW kind \in {"info", "text"}
      PROVE <<Plain(kind)>> \in Informing /\ <<Soft(kind)>> \in Informing
    <2>1. /\ Plain(kind) \in Event /\ Plain(kind).kind = kind
          /\ Soft(kind) \in Event /\ Soft(kind).kind = kind
        BY DEF Plain, Soft, Event
    <2> QED BY <1>2, <2>1
<1>4. ASSUME NEW kind \in {"done", "error"} PROVE Plain(kind) \in Last /\ Soft(kind) \in Last
    BY DEF Plain, Soft, Last
<1>5. Plain("error").kind # "done" /\ Soft("error").kind # "done"
    BY DEF Plain, Soft
<1>6. Last \subseteq Event /\ Informing \subseteq Seq(Event)
    BY DEF Last, Event, Informing
<1>7. \A e \in Event : <<e>> \in Seq(Event)
    OBVIOUS
<1> QED BY <1>1, <1>3, <1>4, <1>5, <1>6, <1>7

\* An error ends the turn as it should, whatever is stored.
LEMMA ErrorMoves ==
    ASSUME EndWith("error") \/ Go("ended", <<Soft("error")>>)
    PROVE  Moves /\ at' = "ended" /\ Kept'
<1>1. \E e \in Last : out' = <<e>> /\ (e.kind = "done" => Complete(stored'))
    BY EventFacts DEF EndWith, Go
<1>2. at' = "ended"
    BY DEF EndWith, Go
<1> QED BY <1>1, <1>2 DEF Moves, Kept, Before, Working, Settled

\* The turn goes on at this place.
LEMMA GoMoves ==
    ASSUME NEW p \in Before \cup Working, NEW es \in Informing, Go(p, es)
    PROVE  Moves /\ at' = p
BY DEF Go, Moves

\* A write that goes on to this place, or ends the turn with an error.
LEMMA WriteFacts ==
    ASSUME StoreTyped, NEW s \in Session, NEW p, NEW es, Write(s, p, es)
    PROVE  /\ writeFaults' \in 0..MaxWriteFaults /\ stored' \in Session
           /\ \/ stored' = s /\ Go(p, es)
              \/ Moves /\ Kept' /\ at' = "ended"
<1>1. CASE stored' = s /\ Go(p, es) /\ UNCHANGED writeFaults
    BY <1>1 DEF StoreTyped
<1>2. CASE /\ writeFaults < MaxWriteFaults /\ writeFaults' = writeFaults + 1
           /\ EndWith("error") /\ UNCHANGED stored
    <2>1. writeFaults' \in 0..MaxWriteFaults /\ stored' \in Session
        BY <1>2, StreamAssumption DEF StoreTyped
    <2>2. Moves /\ Kept' /\ at' = "ended"
        BY <1>2, ErrorMoves
    <2> QED BY <2>1, <2>2
<1> QED BY <1>1, <1>2 DEF Write

\* The next round.
LEMMA NextRoundSound ==
    ASSUME StreamInv, Deciding(at), remaining > 1, NEW m \in {"native", "simulated"},
           NextRound(m), gate' \in Gate, batch' \in Batch
    PROVE  Sound
<1>1. RoundTyped'
    <2>1. /\ mode' = m /\ remaining' = remaining - 1 /\ tries' \in {tries, 0}
          /\ heard' = 0 /\ shown' = 0
        BY DEF NextRound
    <2>2. remaining \in Nat /\ remaining <= MaxRounds /\ tries \in 0..1 /\ MaxRounds \in Nat
          /\ MaxChunks \in Nat
        BY StreamAssumption DEF StreamInv, RoundTyped
    <2>3. remaining' \in 1..MaxRounds /\ tries' \in 0..1 /\ heard' \in 0..MaxChunks
          /\ shown' \in 0..heard'
        BY <2>1, <2>2
    <2> QED BY <2>1, <2>3 DEF RoundTyped
<1>2. StoreTyped' /\ stored' = stored
    BY DEF NextRound, StreamInv, StoreTyped
<1>3. Moves /\ at' = "ask"
    <2>1. Go("ask", <<Plain("info")>>)
        BY DEF NextRound
    <2> QED BY <2>1, GoMoves, EventFacts DEF Working, Settled
<1>4. Kept'
    <2>1. stored.question /\ stored.open = {}
        BY DEF StreamInv, Kept, Deciding, Working, Settled
    <2> QED BY <1>2, <1>3, <2>1 DEF Kept, Before, Working, Settled
<1> QED BY <1>1, <1>2, <1>3, <1>4 DEF Sound

\* An answer is about to be stored.
LEMMA FinalizeSound ==
    ASSUME StreamInv, Deciding(at), NEW kind \in {"notice", "model", "synthesis"},
           NEW es \in Informing, Finalize(kind, es), gate' \in Gate, batch' \in Batch
    PROVE  Sound
<1>1. RoundTyped'
    BY DEF Finalize, StreamInv, RoundTyped
<1>2. StoreTyped' /\ stored' = stored /\ answer' = kind
    BY DEF Finalize, StreamInv, StoreTyped
<1>3. Moves /\ at' = "finalize"
    <2>1. Go("finalize", es)
        BY DEF Finalize
    <2> QED BY <2>1, GoMoves DEF Working, Settled
<1>4. Kept'
    <2>1. stored.question /\ stored.open = {}
        BY DEF StreamInv, Kept, Deciding, Working, Settled
    <2> QED BY <1>2, <1>3, <2>1 DEF Kept, Before, Working, Settled
<1> QED BY <1>1, <1>2, <1>3, <1>4 DEF Sound

\* The calls of a batch are asked for: its results are what is open.
LEMMA OpenBatchSound ==
    ASSUME StreamInv, Deciding(at), NEW calls \in SUBSET StreamCall, NEW g \in BOOLEAN,
           batch' = [calls |-> calls, gate |-> g],
           Write([stored EXCEPT !.open = calls], "run", <<Plain("info")>>),
           UNCHANGED <<mode, remaining, tries, heard, shown, gate, answer>>
    PROVE  Sound
<1> DEFINE s == [stored EXCEPT !.open = calls]
<1>1. s \in Session /\ s.open = calls /\ s.question = stored.question
    BY DEF StreamInv, StoreTyped, Session
<1>2. batch' \in Batch /\ batch'.calls = calls
    BY DEF Batch
<1>3. RoundTyped'
    BY <1>2 DEF StreamInv, RoundTyped
<1>4. stored.question
    BY DEF StreamInv, Kept, Deciding, Working, Settled
<1>5. StoreTyped
    BY DEF StreamInv
<1> HIDE DEF s
<1>6. /\ writeFaults' \in 0..MaxWriteFaults /\ stored' \in Session
      /\ \/ stored' = s /\ Go("run", <<Plain("info")>>)
         \/ Moves /\ Kept' /\ at' = "ended"
    BY <1>1, <1>5, WriteFacts DEF s
<1>7. StoreTyped'
    BY <1>5, <1>6 DEF StoreTyped
<1>8. CASE stored' = s /\ Go("run", <<Plain("info")>>)
    <2>1. Moves /\ at' = "run"
        BY <1>8, GoMoves, EventFacts DEF Working, Settled
    <2>2. Kept'
        BY <1>1, <1>2, <1>4, <1>8, <2>1 DEF Kept, Before, Working, Settled
    <2> QED BY <1>3, <1>7, <2>1, <2>2 DEF Sound
<1> QED BY <1>3, <1>6, <1>7, <1>8 DEF Sound

\* The model is told what the gate has found, in the next round if there is one.
LEMMA TellModelSound ==
    ASSUME StreamInv, Deciding(at), TellModel
    PROVE  Sound
<1>1. gate' \in Gate /\ batch' \in Batch
    BY DEF TellModel, StreamInv, RoundTyped, Gate, NoBatch, Batch
<1>2. CASE remaining > 1
    BY <1>1, <1>2, NextRoundSound DEF TellModel
<1>3. CASE ~(remaining > 1)
    BY <1>1, <1>3, FinalizeSound, EventFacts DEF TellModel
<1> QED BY <1>2, <1>3

\* The gate runs its tools, or tells the model what could not run.
LEMMA EnforceGateSound ==
    ASSUME StreamInv, Deciding(at), EnforceGate
    PROVE  Sound
<1>1. CASE AskForTools
    BY <1>1, OpenBatchSound DEF AskForTools, StreamCall
<1>2. CASE TellModel
    BY <1>2, TellModelSound
<1> QED BY <1>1, <1>2 DEF EnforceGate

\* The tasks that were delegated are collected first.
LEMMA CollectDelegatesSound ==
    ASSUME StreamInv, Deciding(at), GoOn, CollectDelegates
    PROVE  Sound
<1>1. gate' \in Gate /\ batch' \in Batch
    BY DEF GoOn, StreamInv, RoundTyped, NoBatch, Batch
<1>2. CASE remaining > 1
    BY <1>1, <1>2, NextRoundSound DEF CollectDelegates
<1>3. CASE ~(remaining > 1)
    BY <1>1, <1>3, FinalizeSound, EventFacts DEF CollectDelegates
<1> QED BY <1>2, <1>3

-----------------------------------------------------------------------------
(* The steps.                                                              *)

\* A step of the goroutine that leaves the channel alone.
LEMMA SoundKeeps ==
    ASSUME StreamInv, at \in Before \cup Working, Sound, NotesTyped', Quiet
    PROVE  StreamInv'
<1>1. /\ ~sent.more /\ sent.last = "none" /\ sent' = sent
    BY DEF StreamInv, Told, Quiet, channelVars
<1>2. ChannelTyped'
    BY DEF StreamInv, ChannelTyped, Quiet, channelVars, hostVars
<1>3. CASE at' \in Before \cup Working /\ out' \in Informing
    <2>1. PlaceTyped'
        BY <1>3, EventFacts DEF PlaceTyped
    <2>2. Told'
        BY <1>1, <1>3 DEF Told, Before, Working, Settled
    <2> QED BY <1>2, <2>1, <2>2 DEF Sound, StreamInv
<1>4. CASE at' = "ended" /\ \E e \in Last : out' = <<e>> /\ (e.kind = "done" => Complete(stored'))
    <2>1. PlaceTyped'
        BY <1>4, EventFacts DEF PlaceTyped
    <2>2. Told'
        BY <1>1, <1>4 DEF Told, Before, Working, Settled, Complete
    <2> QED BY <1>2, <2>1, <2>2 DEF Sound, StreamInv
<1> QED BY <1>3, <1>4 DEF Sound, Moves

\* An event goes out, or is given up.
LEMMA SendKeeps ==
    ASSUME StreamInv, Send \/ Drop
    PROVE  StreamInv'
<1>1. /\ UNCHANGED <<at, turnVars, hostVars, registered, stored, answer, writeFaults>>
      /\ out # <<>> /\ out' = Tail(out)
    BY DEF Send, Drop
<1>2. RoundTyped' /\ NotesTyped' /\ StoreTyped'
    BY <1>1 DEF StreamInv, RoundTyped, NotesTyped, StoreTyped, turnVars
<1>3. Kept'
    BY <1>1 DEF StreamInv, Kept, turnVars
<1>4. out \in Seq(Event) /\ Tail(out) \in Seq(Event) /\ Head(out) \in Event
    BY <1>1 DEF StreamInv, PlaceTyped
<1>5. PlaceTyped'
    BY <1>1, <1>4 DEF StreamInv, PlaceTyped
<1>6. ChannelTyped'
    <2>1. CASE Send
        <3>1. buffer' \in 0..Capacity
            BY <2>1, StreamAssumption DEF Send, StreamInv, ChannelTyped
        <3>2. sent' \in [last : {"none", "done", "error"}, more : BOOLEAN, dropped : BOOLEAN]
            BY <2>1 DEF Send, StreamInv, ChannelTyped
        <3> QED BY <1>1, <3>1, <3>2 DEF StreamInv, ChannelTyped, hostVars
    <2>2. CASE Drop
        BY <1>1, <2>2 DEF Drop, StreamInv, ChannelTyped, hostVars
    <2> QED BY <2>1, <2>2
<1>7. sent \in [last : {"none", "done", "error"}, more : BOOLEAN, dropped : BOOLEAN]
    BY DEF StreamInv, ChannelTyped
<1>8. CASE at \in Before \cup Working
    <2>1. ~sent.more /\ sent.last = "none" /\ out \in Informing
        BY <1>8 DEF StreamInv, Told
    <2>2. Head(out).kind \in {"info", "text"} /\ Tail(out) \in Informing
        <3>1. Len(out) \in Nat /\ Len(out) > 0 /\ DOMAIN out = 1..Len(out) /\ Head(out) = out[1]
            BY <1>1, <1>4
        <3>2. Len(Tail(out)) = Len(out) - 1 /\ DOMAIN Tail(out) = 1..(Len(out) - 1)
            BY <1>1, <1>4
        <3>3. ASSUME NEW n \in DOMAIN Tail(out) PROVE Tail(out)[n].kind \in {"info", "text"}
            <4>1. n \in 1..(Len(out) - 1)
                BY <3>2
            <4>2. n + 1 \in DOMAIN out /\ Tail(out)[n] = out[n + 1]
                BY <1>1, <1>4, <3>1, <4>1
            <4> QED BY <2>1, <4>2 DEF Informing
        <3>4. 1 \in DOMAIN out
            BY <3>1
        <3> QED BY <1>4, <2>1, <3>1, <3>3, <3>4 DEF Informing
    <2>3. ~sent'.more /\ sent'.last = "none"
        BY <1>7, <2>1, <2>2 DEF Send, Drop
    <2>4. Told'
        BY <1>1, <1>8, <2>2, <2>3 DEF Told, Before, Working, Settled
    <2> QED BY <1>2, <1>3, <1>5, <1>6, <2>4 DEF StreamInv
<1>9. CASE at = "ended"
    <2>1. PICK e \in Last : out = <<e>> /\ (e.kind = "done" => Complete(stored))
        BY <1>1, <1>9 DEF StreamInv, Told
    <2>2. ~sent.more /\ sent.last = "none"
        BY <1>1, <1>9 DEF StreamInv, Told
    <2>3. Head(out) = e /\ Tail(out) = <<>> /\ e.kind \in {"done", "error"}
        BY <2>1 DEF Last
    <2>4. CASE Send
        <3>1. sent'.last = e.kind /\ ~sent'.more
            BY <1>7, <2>2, <2>3, <2>4 DEF Send
        <3>2. Told'
            BY <1>1, <1>9, <2>1, <2>3, <3>1 DEF Told, Before, Working, Settled, Complete
        <3> QED BY <1>2, <1>3, <1>5, <1>6, <3>2 DEF StreamInv
    <2>5. CASE Drop
        <3>1. sent'.last = "none" /\ ~sent'.more /\ sent'.dropped
            BY <1>7, <2>2, <2>5 DEF Drop
        <3>2. Told'
            BY <1>1, <1>9, <2>3, <3>1 DEF Told, Before, Working, Settled
        <3> QED BY <1>2, <1>3, <1>5, <1>6, <3>2 DEF StreamInv
    <2> QED BY <2>4, <2>5
<1>10. at # "closed"
    BY <1>1 DEF StreamInv, Told
<1> QED BY <1>8, <1>9, <1>10 DEF StreamInv, PlaceTyped

\* The turn is registered or refused; its question is stored or it runs elsewhere.
LEMMA PrepareKeeps ==
    ASSUME StreamInv, BeginSessionCall \/ RunForeground \/ StoreQuestion
    PROVE  StreamInv'
<1>1. CASE BeginSessionCall
    <2>1. /\ at = "begin" /\ out = <<>> /\ Quiet
          /\ UNCHANGED <<turnVars, stored, answer, writeFaults>> /\ registered' \in BOOLEAN
        BY <1>1 DEF BeginSessionCall, Step, StreamInv, NotesTyped
    <2>2. RoundTyped' /\ NotesTyped' /\ StoreTyped' /\ ChannelTyped'
        BY <2>1 DEF StreamInv, RoundTyped, NotesTyped, StoreTyped, ChannelTyped, turnVars, Quiet,
                    channelVars, hostVars
    <2>3. stored.open = {} /\ ~stored.question /\ ~sent.more /\ sent.last = "none" /\ sent' = sent
        BY <2>1 DEF StreamInv, Kept, Told, Before, Quiet, channelVars
    <2>4. at' \in {"prepare", "closed"} /\ out' = <<>>
        BY <1>1 DEF BeginSessionCall, Go
    <2>5. PlaceTyped'
        BY <2>4, EventFacts DEF PlaceTyped, Before
    <2>6. Told'
        BY <2>1, <2>3, <2>4, EventFacts DEF Told, Before, Working, Settled
    <2>7. Kept'
        BY <2>1, <2>3, <2>4 DEF Kept, Before, Working, Settled
    <2> QED BY <2>2, <2>5, <2>6, <2>7 DEF StreamInv
<1>2. CASE RunForeground
    <2>1. at = "prepare" /\ stored.open = {} /\ stored \in Session
        BY <1>2 DEF RunForeground, Step, StreamInv, StoreTyped, Kept, Before
    <2>2. PICK kind \in {"done", "error"} :
             /\ Go("ended", <<Soft(kind)>>)
             /\ stored' = IF kind = "done"
                          THEN [stored EXCEPT !.question = TRUE, !.answer = "model"] ELSE stored
        BY <1>2 DEF RunForeground
    <2>3. stored' \in Session /\ (kind = "done" => Complete(stored'))
        BY <2>1, <2>2 DEF Session, Complete
    <2>4. Soft(kind) \in Last /\ Soft(kind).kind = kind
        BY DEF Soft, Last
    <2>5. Moves /\ at' = "ended"
        BY <2>2, <2>3, <2>4 DEF Moves, Go
    <2>6. Kept'
        BY <2>5 DEF Kept, Before, Working, Settled
    <2>7. RoundTyped' /\ StoreTyped' /\ NotesTyped' /\ Quiet
        BY <1>2, <2>3 DEF RunForeground, StreamInv, RoundTyped, NotesTyped, StoreTyped, Gate
    <2> QED BY <2>1, <2>5, <2>6, <2>7, SoundKeeps DEF Sound, Before
<1>3. CASE StoreQuestion
    <2>1. /\ at = "prepare" /\ Quiet /\ UNCHANGED <<turnVars, registered, answer>>
          /\ stored.open = {} /\ stored \in Session
        BY <1>3 DEF StoreQuestion, Step, StreamInv, StoreTyped, Kept, Before
    <2>2. RoundTyped' /\ NotesTyped'
        BY <2>1 DEF StreamInv, RoundTyped, NotesTyped, turnVars
    <2>3. stored' \in Session /\ writeFaults' \in 0..MaxWriteFaults
        <3>1. writeFaults \in 0..MaxWriteFaults
            BY DEF StreamInv, StoreTyped
        <3>2. [stored EXCEPT !.question = TRUE] \in Session
            BY <2>1 DEF Session
        <3>3. stored' \in {stored, [stored EXCEPT !.question = TRUE]}
            BY <1>3 DEF StoreQuestion
        <3>4. \/ writeFaults' = writeFaults
              \/ writeFaults < MaxWriteFaults /\ writeFaults' = writeFaults + 1
            BY <1>3 DEF StoreQuestion
        <3>5. writeFaults' \in 0..MaxWriteFaults
            BY <3>1, <3>4, StreamAssumption
        <3> QED BY <2>1, <3>2, <3>3, <3>5
    <2>4. StoreTyped'
        BY <2>1, <2>3 DEF StreamInv, StoreTyped
    <2>5. Moves /\ Kept'
        <3>1. CASE stored' = [stored EXCEPT !.question = TRUE] /\ Go("ask", <<Plain("info")>>)
            <4>1. Moves /\ at' = "ask"
                BY <3>1, GoMoves, EventFacts DEF Working, Settled
            <4>2. stored'.question /\ stored'.open = {}
                BY <2>1, <3>1 DEF Session
            <4> QED BY <4>1, <4>2 DEF Kept, Before, Working, Settled
        <3>2. CASE Go("ended", <<Soft("error")>>)
            BY <3>2, ErrorMoves
        <3> QED BY <1>3, <3>1, <3>2 DEF StoreQuestion
    <2> QED BY <2>1, <2>2, <2>4, <2>5, SoundKeeps DEF Sound, Before
<1> QED BY <1>1, <1>2, <1>3

-----------------------------------------------------------------------------
(* Responses.                                                              *)

\* A chunk is shown or held back.
LEMMA ChunkKeeps ==
    ASSUME StreamInv, NEW held \in BOOLEAN, Chunk(held)
    PROVE  StreamInv'
<1>1. /\ at = "ask" /\ heard < MaxChunks /\ heard' = heard + 1 /\ shown' \in {shown, heard + 1}
      /\ UNCHANGED <<mode, remaining, tries, empties, cited, gate, waiting, batch>>
      /\ Still /\ Quiet
    BY DEF Chunk, Step
<1>2. RoundTyped'
    <2>1. heard \in Nat /\ shown \in 0..heard /\ MaxChunks \in Nat
        BY StreamAssumption DEF StreamInv, RoundTyped
    <2>2. heard' \in 0..MaxChunks /\ shown' \in 0..heard'
        BY <1>1, <2>1
    <2> QED BY <1>1, <2>2 DEF StreamInv, RoundTyped
<1>3. NotesTyped' /\ StoreTyped'
    BY <1>1 DEF StreamInv, NotesTyped, StoreTyped, Still
<1>4. Moves /\ at' = "ask"
    <2>1. Go("ask", <<>>) \/ Go("ask", <<Plain("text")>>)
        BY DEF Chunk
    <2> QED BY <2>1, GoMoves, EventFacts DEF Working, Settled
<1>5. Kept'
    BY <1>1, <1>4 DEF StreamInv, Kept, Still, Before, Working, Settled
<1> QED BY <1>1, <1>2, <1>3, <1>4, <1>5, SoundKeeps DEF Sound, Working, Settled

\* An interruption ends the turn, or leads to a last answer.
LEMMA InterruptedSound ==
    ASSUME StreamInv, at = "ask", NEW err \in {"timeout", "other"}, TurnInterrupted(err),
           RoundTyped', UNCHANGED <<stored, writeFaults>>
    PROVE  Sound
<1>1. stored.question /\ stored.open = {}
    BY DEF StreamInv, Kept, Working, Settled
<1>2. StoreTyped
    BY DEF StreamInv
<1>3. CASE EndWith("error") /\ UNCHANGED answer
    <2>1. StoreTyped'
        BY <1>2, <1>3 DEF StoreTyped
    <2> QED BY <1>3, <2>1, ErrorMoves DEF Sound
<1>4. CASE answer' = "notice" /\ Go("finalize", <<>>)
    <2>1. StoreTyped'
        BY <1>2, <1>4 DEF StoreTyped
    <2>2. Moves /\ at' = "finalize"
        BY <1>4, GoMoves, EventFacts DEF Working, Settled
    <2>3. Kept'
        BY <1>1, <1>4, <2>2 DEF Kept, Before, Working, Settled
    <2> QED BY <2>1, <2>2, <2>3 DEF Sound
<1>5. CASE answer' = err /\ Go("synthesis", <<>>)
    <2>1. StoreTyped'
        BY <1>2, <1>5 DEF StoreTyped
    <2>2. Moves /\ at' = "synthesis"
        BY <1>5, GoMoves, EventFacts DEF Working, Settled
    <2>3. Kept'
        BY <1>1, <1>5, <2>2 DEF Kept, Before, Working, Settled
    <2> QED BY <2>1, <2>2, <2>3 DEF Sound
<1> QED BY <1>3, <1>4, <1>5 DEF TurnInterrupted

\* The request fails; it is made once more, or the turn is interrupted.
LEMMA AskFailsKeeps ==
    ASSUME StreamInv, NEW err \in {"timeout", "other"}, AskFails(err)
    PROVE  StreamInv'
<1>1. /\ at = "ask" /\ Quiet
      /\ UNCHANGED <<mode, remaining, shown, empties, cited, gate, waiting, batch,
                     registered, stored, writeFaults>>
    BY DEF AskFails, Step
<1>2. NotesTyped'
    BY <1>1 DEF StreamInv, NotesTyped
<1>3. CASE MayRetry(err)
    <2>1. tries' = 1 /\ heard' = 0 /\ shown = 0 /\ Go("ask", <<Soft("info")>>) /\ UNCHANGED answer
        BY <1>3 DEF AskFails, MayRetry
    <2>2. RoundTyped'
        <3>1. 0 \in 0..MaxChunks /\ 0 \in 0..0 /\ 1 \in 0..1
            BY StreamAssumption
        <3> QED BY <1>1, <2>1, <3>1 DEF StreamInv, RoundTyped
    <2>3. StoreTyped'
        BY <1>1, <2>1 DEF StreamInv, StoreTyped
    <2>4. Moves /\ at' = "ask"
        BY <2>1, GoMoves, EventFacts DEF Working, Settled
    <2>5. Kept'
        BY <1>1, <2>4 DEF StreamInv, Kept, Before, Working, Settled
    <2> QED BY <1>1, <1>2, <2>2, <2>3, <2>4, <2>5, SoundKeeps DEF Sound, Working, Settled
<1>4. CASE ~MayRetry(err)
    <2>1. TurnInterrupted(err) /\ UNCHANGED <<tries, heard>>
        BY <1>4 DEF AskFails
    <2>2. RoundTyped'
        BY <1>1, <2>1 DEF StreamInv, RoundTyped
    <2>3. Sound
        BY <1>1, <2>1, <2>2, InterruptedSound
    <2> QED BY <1>1, <1>2, <2>3, SoundKeeps DEF Working, Settled
<1> QED BY <1>3, <1>4

\* The stream is complete too late, or the last request is answered.
LEMMA LastRequestKeeps ==
    ASSUME StreamInv, TooLate \/ Synthesize
    PROVE  StreamInv'
<1>1. /\ at \in {"ask", "synthesis"} /\ Quiet
      /\ UNCHANGED <<turnVars, registered, stored, writeFaults>>
    BY DEF TooLate, Synthesize, Step
<1>2. NotesTyped' /\ RoundTyped'
    BY <1>1 DEF StreamInv, NotesTyped, RoundTyped, turnVars
<1>3. StoreTyped /\ stored.question /\ stored.open = {}
    BY <1>1 DEF StreamInv, Kept, Working, Settled
<1>4. CASE TooLate
    <2>1. Sound
        BY <1>1, <1>2, <1>4, InterruptedSound DEF TooLate, Step
    <2> QED BY <1>1, <1>2, <2>1, SoundKeeps DEF Working, Settled
<1>5. CASE Synthesize
    <2>1. CASE answer' \in {"synthesis", "notice"} /\ Go("finalize", <<>>)
        <3>1. StoreTyped'
            BY <1>1, <1>3, <2>1 DEF StoreTyped
        <3>2. Moves /\ at' = "finalize"
            BY <2>1, GoMoves, EventFacts DEF Working, Settled
        <3>3. Kept'
            BY <1>1, <1>3, <2>1, <3>2 DEF Kept, Before, Working, Settled
        <3>4. Sound
            BY <1>2, <3>1, <3>2, <3>3 DEF Sound
        <3> QED BY <1>1, <1>2, <3>4, SoundKeeps DEF Working, Settled
    <2>2. CASE answer' = "none" /\ EndWith("error")
        <3>1. StoreTyped'
            BY <1>1, <1>3, <2>2 DEF StoreTyped
        <3>2. Sound
            BY <1>2, <2>2, <3>1, ErrorMoves DEF Sound
        <3> QED BY <1>1, <1>2, <3>2, SoundKeeps DEF Working, Settled
    <2> QED BY <1>5, <2>1, <2>2 DEF Synthesize
<1> QED BY <1>4, <1>5

\* A response without tools, or with calls that are not made.
LEMMA ReplyKeeps ==
    ASSUME StreamInv, ReplyText \/ ReplyEmpty \/ FallBack \/ ReplyRepeats
    PROVE  StreamInv'
<1>1. at = "ask" /\ UNCHANGED <<cited, waiting, registered>> /\ Quiet
    BY DEF ReplyText, ReplyEmpty, FallBack, ReplyRepeats, Step
<1>2. Deciding(at)
    BY <1>1 DEF Deciding
<1>3. <<>> \in Informing /\ <<Plain("text")>> \in Informing /\ Rest \in Informing
    BY EventFacts DEF Rest
<1>4. ASSUME GoOn PROVE gate' \in Gate /\ batch' \in Batch
    BY <1>4 DEF GoOn, StreamInv, RoundTyped, NoBatch, Batch
<1>5. ASSUME EnforceGate PROVE Sound
    BY <1>2, <1>5, EnforceGateSound
<1>6. ASSUME GoOn, CollectDelegates PROVE Sound
    BY <1>2, <1>6, CollectDelegatesSound
<1>7. ASSUME GoOn, NEW kind \in {"model", "notice"}, NEW es \in Informing, Finalize(kind, es)
      PROVE Sound
    <2>1. kind \in {"notice", "model", "synthesis"}
        OBVIOUS
    <2> QED BY <1>2, <1>4, <1>7, <2>1, FinalizeSound
<1>8. ASSUME GoOn, remaining > 1, NextRound("simulated") PROVE Sound
    BY <1>2, <1>4, <1>8, NextRoundSound
<1>9. empties \in 0..MaxEmpty /\ 0 \in 0..MaxEmpty /\ MaxEmpty \in Nat
    BY StreamAssumption DEF StreamInv, NotesTyped
<1>10. ASSUME Sound, empties' \in 0..MaxEmpty PROVE StreamInv'
    <2>1. NotesTyped'
        BY <1>1, <1>10 DEF StreamInv, NotesTyped
    <2> QED BY <1>1, <1>10, <2>1, SoundKeeps DEF Working, Settled
<1>11. CASE ReplyText
    <2>1. empties' \in 0..MaxEmpty
        BY <1>9, <1>11 DEF ReplyText
    <2>2. Sound
        BY <1>3, <1>5, <1>6, <1>7, <1>8, <1>11 DEF ReplyText
    <2> QED BY <1>10, <2>1, <2>2
<1>12. CASE ReplyEmpty
    <2>1. empties' \in 0..MaxEmpty
        <3>1. \/ empties' = empties
              \/ empties < MaxEmpty /\ empties' = empties + 1
            BY <1>12 DEF ReplyEmpty
        <3> QED BY <1>9, <3>1
    <2>2. Sound
        BY <1>3, <1>5, <1>6, <1>7, <1>8, <1>12 DEF ReplyEmpty
    <2> QED BY <1>10, <2>1, <2>2
<1>13. CASE FallBack
    <2>1. empties' \in 0..MaxEmpty
        BY <1>9, <1>13 DEF FallBack
    <2>2. Sound
        BY <1>3, <1>7, <1>13 DEF FallBack
    <2> QED BY <1>10, <2>1, <2>2
<1>14. CASE ReplyRepeats
    <2>1. empties' \in 0..MaxEmpty
        BY <1>9, <1>14 DEF ReplyRepeats
    <2>2. Sound
        BY <1>3, <1>5, <1>7, <1>14 DEF ReplyRepeats
    <2> QED BY <1>10, <2>1, <2>2
<1> QED BY <1>11, <1>12, <1>13, <1>14

-----------------------------------------------------------------------------
(* Tools and the end.                                                      *)

\* The model's calls are stored before anything runs.
LEMMA ReplyCallsKeeps ==
    ASSUME StreamInv, NEW calls \in SUBSET StreamCall, ReplyCalls(calls)
    PROVE  StreamInv'
<1>1. /\ at = "ask" /\ empties' = 0 /\ batch' = [calls |-> calls, gate |-> FALSE]
      /\ Write([stored EXCEPT !.open = calls], "run", <<Plain("info")>>)
      /\ UNCHANGED <<mode, remaining, tries, heard, shown, cited, gate, waiting, registered,
                     answer>>
      /\ Quiet
    BY DEF ReplyCalls, Step
<1>2. Deciding(at) /\ FALSE \in BOOLEAN
    BY <1>1 DEF Deciding
<1>3. Sound
    BY <1>1, <1>2, OpenBatchSound
<1>4. NotesTyped'
    BY <1>1, StreamAssumption DEF StreamInv, NotesTyped
<1> QED BY <1>1, <1>3, <1>4, SoundKeeps DEF Working, Settled

\* A result is shown to the reader.
LEMMA ShowResultKeeps ==
    ASSUME StreamInv, ShowResult
    PROVE  StreamInv'
<1>1. at = "run" /\ Go("record", <<Plain("info")>>) /\ UNCHANGED turnVars /\ Still /\ Quiet
    BY DEF ShowResult, Step
<1>2. RoundTyped' /\ NotesTyped' /\ StoreTyped'
    BY <1>1 DEF StreamInv, RoundTyped, NotesTyped, StoreTyped, turnVars, Still
<1>3. Moves /\ at' = "record"
    BY <1>1, GoMoves, EventFacts DEF Working
<1>4. Kept'
    BY <1>1, <1>3 DEF StreamInv, Kept, Before, Working, Settled, turnVars, Still
<1> QED BY <1>1, <1>2, <1>3, <1>4, SoundKeeps DEF Sound, Working

\* A result is stored: what is open is what is left of the batch.
LEMMA RecordKeeps ==
    ASSUME StreamInv, NEW c \in StreamCall, Record(c)
    PROVE  StreamInv'
<1> DEFINE s == [stored EXCEPT !.open = @ \ {c}]
           p == IF batch.calls # {c} THEN "run" ELSE IF batch.gate THEN "tell" ELSE "save"
<1>1. /\ at = "record" /\ c \in batch.calls /\ Write(s, p, <<>>)
      /\ batch' = [batch EXCEPT !.calls = @ \ {c}]
      /\ UNCHANGED <<mode, remaining, tries, heard, shown, empties, registered, answer>>
      /\ cited' = TRUE /\ waiting' \in BOOLEAN /\ Quiet
    BY DEF Record, Step, StreamInv, NotesTyped, StreamCall
<1>2. gate' \in Gate
    BY DEF Record, StreamInv, RoundTyped, Gate
<1>3. /\ stored \in Session /\ stored.question /\ stored.open = batch.calls
      /\ batch \in Batch /\ StoreTyped
    BY <1>1 DEF StreamInv, RoundTyped, StoreTyped, Kept, Working
<1>4. s \in Session /\ s.open = batch.calls \ {c} /\ s.question
    BY <1>3 DEF Session
<1>5. batch' \in Batch /\ batch'.calls = batch.calls \ {c}
    BY <1>1, <1>3 DEF Batch
<1>6. /\ p \in {"run", "tell", "save"} /\ p \in Working
      /\ p # "run" => batch.calls \ {c} = {}
    BY DEF Working, Settled
<1> HIDE DEF s, p
<1>7. /\ writeFaults' \in 0..MaxWriteFaults /\ stored' \in Session
      /\ \/ stored' = s /\ Go(p, <<>>)
         \/ Moves /\ Kept' /\ at' = "ended"
    BY <1>1, <1>3, <1>4, WriteFacts
<1>8. RoundTyped' /\ NotesTyped' /\ StoreTyped'
    BY <1>1, <1>2, <1>3, <1>5, <1>7 DEF StreamInv, RoundTyped, NotesTyped, StoreTyped
<1>9. CASE stored' = s /\ Go(p, <<>>)
    <2>1. Moves /\ at' = p
        BY <1>6, <1>9, GoMoves, EventFacts
    <2>2. Kept'
        BY <1>4, <1>5, <1>6, <1>9, <2>1 DEF Kept, Before, Working, Settled
    <2> QED BY <1>1, <1>8, <2>1, <2>2, SoundKeeps DEF Sound, Working
<1>10. CASE Moves /\ Kept'
    BY <1>1, <1>8, <1>10, SoundKeeps DEF Sound, Working
<1> QED BY <1>7, <1>9, <1>10

\* The round after the tools.
LEMMA AfterToolsKeeps ==
    ASSUME StreamInv, TellResults \/ AfterTools
    PROVE  StreamInv'
<1>1. /\ at \in {"tell", "next"} /\ UNCHANGED <<empties, cited, waiting, registered>> /\ Quiet
    BY DEF TellResults, AfterTools, Step
<1>2. Deciding(at) /\ NotesTyped' /\ at \in Before \cup Working
    BY <1>1 DEF Deciding, StreamInv, NotesTyped, Working, Settled
<1>3. ASSUME GoOn PROVE gate' \in Gate /\ batch' \in Batch
    BY <1>3 DEF GoOn, StreamInv, RoundTyped, NoBatch, Batch
<1>4. CASE TellResults
    <2>1. Sound
        BY <1>2, <1>4, TellModelSound DEF TellResults
    <2> QED BY <1>1, <1>2, <2>1, SoundKeeps
<1>5. CASE AfterTools /\ Blocking
    <2>1. Sound
        BY <1>2, <1>5, EnforceGateSound DEF AfterTools
    <2> QED BY <1>1, <1>2, <2>1, SoundKeeps
<1>6. CASE AfterTools /\ ~Blocking
    <2>1. /\ GoOn
          /\ \/ remaining > 1 /\ NextRound(mode)
             \/ Finalize("notice", <<>>)
             \/ /\ EndWith("error")
                /\ UNCHANGED <<mode, remaining, tries, heard, shown, stored, answer, writeFaults>>
        BY <1>6 DEF AfterTools
    <2>2. gate' \in Gate /\ batch' \in Batch
        BY <1>3, <2>1
    <2>3. CASE remaining > 1 /\ NextRound(mode)
        <3>1. mode \in {"native", "simulated"}
            BY DEF StreamInv, RoundTyped
        <3> QED BY <1>1, <1>2, <2>2, <2>3, <3>1, NextRoundSound, SoundKeeps
    <2>4. CASE Finalize("notice", <<>>)
        <3>1. Sound
            BY <1>2, <2>2, <2>4, EventFacts, FinalizeSound
        <3> QED BY <1>1, <1>2, <3>1, SoundKeeps
    <2>5. CASE /\ EndWith("error")
               /\ UNCHANGED <<mode, remaining, tries, heard, shown, stored, answer, writeFaults>>
        <3>1. RoundTyped' /\ StoreTyped'
            BY <2>2, <2>5 DEF StreamInv, RoundTyped, StoreTyped
        <3>2. Sound
            BY <2>5, <3>1, ErrorMoves DEF Sound
        <3> QED BY <1>1, <1>2, <3>2, SoundKeeps
    <2> QED BY <2>1, <2>3, <2>4, <2>5
<1> QED BY <1>4, <1>5, <1>6

\* The session is saved after the tools, the answer is stored, and saved.
LEMMA SaveKeeps ==
    ASSUME StreamInv, SaveResults \/ StoreAnswer \/ ReportAnswer
    PROVE  StreamInv'
<1>1. /\ at \in {"save", "finalize", "report"} /\ Quiet
      /\ UNCHANGED <<turnVars, registered, answer>>
    BY DEF SaveResults, StoreAnswer, ReportAnswer, Step
<1>2. RoundTyped' /\ NotesTyped'
    BY <1>1 DEF StreamInv, RoundTyped, NotesTyped, turnVars
<1>3. /\ StoreTyped /\ stored \in Session /\ stored.question /\ stored.open = {}
      /\ at = "finalize" => answer \in {"notice", "model", "synthesis"}
      /\ at = "report" => stored.answer # "none"
    BY <1>1 DEF StreamInv, StoreTyped, Kept, Working, Settled
<1>4. ASSUME writeFaults' \in 0..MaxWriteFaults, stored' \in Session PROVE StoreTyped'
    BY <1>1, <1>3, <1>4 DEF StoreTyped
<1>5. ASSUME StoreTyped', Moves, Kept' PROVE StreamInv'
    BY <1>1, <1>2, <1>5, SoundKeeps DEF Sound, Working, Settled
<1>6. CASE SaveResults
    <2>1. /\ writeFaults' \in 0..MaxWriteFaults /\ stored' \in Session
          /\ \/ stored' = stored /\ Go("next", <<>>)
             \/ Moves /\ Kept' /\ at' = "ended"
        BY <1>3, <1>6, WriteFacts DEF SaveResults
    <2>2. CASE stored' = stored /\ Go("next", <<>>)
        <3>1. Moves /\ at' = "next"
            BY <2>2, GoMoves, EventFacts DEF Working, Settled
        <3>2. Kept'
            BY <1>3, <2>2, <3>1 DEF Kept, Before, Working, Settled
        <3> QED BY <1>4, <1>5, <2>1, <3>1, <3>2
    <2> QED BY <1>4, <1>5, <2>1, <2>2
<1>7. CASE StoreAnswer
    <2> DEFINE s == [stored EXCEPT !.answer = answer]
    <2>1. answer \in {"notice", "model", "synthesis"}
        BY <1>3, <1>7 DEF StoreAnswer, Step
    <2>2. s \in Session /\ s.question /\ s.open = {} /\ s.answer # "none"
        BY <1>3, <2>1 DEF Session
    <2>3. Write(s, "report", <<>>)
        BY <1>7 DEF StoreAnswer
    <2> HIDE DEF s
    <2>4. /\ writeFaults' \in 0..MaxWriteFaults /\ stored' \in Session
          /\ \/ stored' = s /\ Go("report", <<>>)
             \/ Moves /\ Kept' /\ at' = "ended"
        BY <1>3, <2>2, <2>3, WriteFacts
    <2>5. CASE stored' = s /\ Go("report", <<>>)
        <3>1. Moves /\ at' = "report"
            BY <2>5, GoMoves, EventFacts DEF Working, Settled
        <3>2. Kept'
            BY <2>2, <2>5, <3>1 DEF Kept, Before, Working, Settled
        <3> QED BY <1>4, <1>5, <2>4, <3>1, <3>2
    <2> QED BY <1>4, <1>5, <2>4, <2>5
<1>8. CASE ReportAnswer
    <2>1. /\ writeFaults' \in 0..MaxWriteFaults /\ stored' \in Session
          /\ \/ stored' = stored /\ Go("ended", <<Plain("done")>>)
             \/ Moves /\ Kept' /\ at' = "ended"
        BY <1>3, <1>8, WriteFacts DEF ReportAnswer
    <2>2. Complete(stored)
        BY <1>3, <1>8 DEF ReportAnswer, Step, Complete
    <2>3. CASE stored' = stored /\ Go("ended", <<Plain("done")>>)
        <3>1. Moves /\ at' = "ended"
            BY <2>2, <2>3, EventFacts DEF Moves, Go, Complete
        <3>2. Kept'
            BY <3>1 DEF Kept, Before, Working, Settled
        <3> QED BY <1>4, <1>5, <2>1, <3>1, <3>2
    <2> QED BY <1>4, <1>5, <2>1, <2>3
<1> QED BY <1>6, <1>7, <1>8

\* The goroutine closes the channel; the adapter and the host take their steps.
LEMMA OutsideKeeps ==
    ASSUME StreamInv, Finish \/ Adapter \/ Host
    PROVE  StreamInv'
<1>1. CASE Finish
    <2>1. /\ at = "ended" /\ out = <<>> /\ at' = "closed" /\ out' = <<>> /\ Quiet
          /\ registered' = FALSE /\ UNCHANGED <<turnVars, stored, answer, writeFaults>>
        BY <1>1 DEF Finish, Step, Go
    <2>2. RoundTyped' /\ NotesTyped' /\ StoreTyped' /\ ChannelTyped' /\ PlaceTyped'
        <3>1. RoundTyped' /\ NotesTyped' /\ StoreTyped'
            BY <2>1 DEF StreamInv, RoundTyped, NotesTyped, StoreTyped, turnVars
        <3>2. ChannelTyped'
            BY <2>1 DEF StreamInv, ChannelTyped, Quiet, channelVars, hostVars
        <3>3. PlaceTyped'
            BY <2>1, EventFacts DEF PlaceTyped
        <3> QED BY <3>1, <3>2, <3>3
    <2>3. /\ ~sent.more /\ (sent.last # "none" \/ sent.dropped) /\ sent' = sent
          /\ sent.last = "done" => Complete(stored)
        <3>1. \A e \in Last : <<e>> # <<>>
            OBVIOUS
        <3> QED BY <2>1, <3>1 DEF StreamInv, Told, Quiet, channelVars
    <2>4. Told'
        BY <2>1, <2>3 DEF Told, Before, Working, Settled, Complete
    <2>5. Kept'
        BY <2>1 DEF Kept, Before, Working, Settled
    <2> QED BY <2>2, <2>4, <2>5 DEF StreamInv
<1>2. CASE Adapter \/ Host
    <2>1. UNCHANGED <<at, turnVars, out, sent, registered, stored, answer, writeFaults>>
        BY <1>2 DEF Adapter, Host, Receive, Leave, EndContext, channelVars, hostVars
    <2>2. RoundTyped' /\ NotesTyped' /\ StoreTyped' /\ PlaceTyped' /\ Kept'
        BY <2>1 DEF StreamInv, RoundTyped, NotesTyped, StoreTyped, PlaceTyped, Kept, turnVars
    <2>3. Told'
        BY <2>1 DEF StreamInv, Told, Complete
    <2>4. ChannelTyped'
        <3>1. CASE Adapter
            BY <2>1, <3>1, StreamAssumption
               DEF Adapter, Receive, Leave, StreamInv, ChannelTyped, channelVars, hostVars
        <3>2. CASE Host
            BY <2>1, <3>2 DEF Host, EndContext, StreamInv, ChannelTyped, channelVars
        <3> QED BY <1>2, <3>1, <3>2
    <2> QED BY <2>2, <2>3, <2>4 DEF StreamInv
<1> QED BY <1>1, <1>2

-----------------------------------------------------------------------------
(* The theorems.                                                           *)

\* StreamInv holds initially.
LEMMA StreamInvInit == StreamInit => StreamInv
<1> SUFFICES ASSUME StreamInit PROVE StreamInv
    OBVIOUS
<1>1. RoundTyped /\ NotesTyped
    <2>1. /\ MaxRounds \in 1..MaxRounds /\ 0 \in 0..1 /\ 0 \in 0..MaxChunks /\ 0 \in 0..0
          /\ 0 \in 0..MaxEmpty
        BY StreamAssumption
    <2>2. gate \in Gate /\ batch \in Batch
        <3>1. [missing : BOOLEAN, unavailable : BOOLEAN, told : {FALSE}] \subseteq Gate
            BY DEF Gate
        <3>2. NoBatch \in Batch
            BY DEF NoBatch, Batch
        <3> QED BY <3>1, <3>2 DEF StreamInit
    <2>3. NotesTyped
        BY <2>1 DEF StreamInit, NotesTyped
    <2>4. RoundTyped
        BY <2>1, <2>2 DEF StreamInit, RoundTyped
    <2> QED BY <2>3, <2>4
<1>2. StoreTyped /\ ChannelTyped
    BY StreamAssumption DEF StreamInit, StoreTyped, ChannelTyped, Session
<1>3. PlaceTyped
    BY EventFacts DEF StreamInit, PlaceTyped, Before
<1>4. Told /\ Kept
    BY EventFacts DEF StreamInit, Told, Kept, Before, Working, Settled
<1> QED BY <1>1, <1>2, <1>3, <1>4 DEF StreamInv

\* StreamInv is inductive.
LEMMA StreamInvariant == StreamSpec => []StreamInv
<1>1. ASSUME StreamInv, [StreamNext]_streamVars PROVE StreamInv'
    <2>1. CASE Turn
        BY <1>1, <2>1, SendKeeps, PrepareKeeps, ChunkKeeps, AskFailsKeeps, LastRequestKeeps,
           ReplyKeeps, ReplyCallsKeeps, ShowResultKeeps, RecordKeeps, AfterToolsKeeps,
           SaveKeeps, OutsideKeeps DEF Turn
    <2>2. CASE Adapter \/ Host
        BY <1>1, <2>2, OutsideKeeps
    <2>3. CASE UNCHANGED streamVars
        <3>1. RoundTyped' /\ NotesTyped' /\ StoreTyped' /\ PlaceTyped' /\ ChannelTyped'
            BY <1>1, <2>3 DEF StreamInv, RoundTyped, NotesTyped, StoreTyped, PlaceTyped,
                              ChannelTyped, streamVars, turnVars, channelVars, hostVars
        <3>2. Told' /\ Kept'
            BY <1>1, <2>3 DEF StreamInv, Told, Kept, Complete, streamVars, turnVars, channelVars
        <3> QED BY <3>1, <3>2 DEF StreamInv
    <2> QED BY <1>1, <2>1, <2>2, <2>3 DEF StreamNext
<1> QED BY <1>1, StreamInvInit, PTL DEF StreamSpec

\* Every variable of a streamed turn keeps its type.
THEOREM StreamTypeCorrect == StreamSpec => []StreamTypeOK
<1>1. StreamInv => StreamTypeOK
    BY DEF StreamInv, RoundTyped, NotesTyped, StoreTyped, ChannelTyped, PlaceTyped, StreamTypeOK,
           Before, Working, Settled, Gate, Batch, Session, Event
<1> QED BY <1>1, StreamInvariant, PTL

\* Whichever of its exits a turn takes, the reader who stays meets one terminal
\* event and nothing after it, unless the event was given up
\* (ChatWithSessionStreamForSession, finalizeStream, stream.go).
THEOREM TurnsEndOnce == StreamSpec => []OneTerminalEvent
<1>1. StreamInv => OneTerminalEvent
    BY DEF StreamInv, Told, OneTerminalEvent
<1> QED BY <1>1, StreamInvariant, PTL

\* A turn reported as done has its question, its answer and every result in the
\* session, however many writes fail before (finalizeStream, stream.go).
THEOREM DoneTurnsAreStored == StreamSpec => []DoneIsStored
<1>1. StreamInv => DoneIsStored
    BY DEF StreamInv, Told, Complete, DoneIsStored
<1> QED BY <1>1, StreamInvariant, PTL
=============================================================================
