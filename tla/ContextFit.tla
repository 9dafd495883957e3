------------------------------ MODULE ContextFit ------------------------------
(***************************************************************************)
(* What of a conversation reaches the model.  A turn starts from the       *)
(* session's history (agent/context_planner.go), grows by rounds of tool   *)
(* calls, and is cut to the context window after each of them              *)
(* (agent/loop.go, fitContextWindow).  Before a request is sent the tool   *)
(* schemas that come with it are selected (agent/tool_schema_budget.go)    *)
(* and the messages are cut again (agent/request_budget.go).               *)
(*                                                                         *)
(* A message is its kind and its size; `at' is the order in which it       *)
(* entered the conversation, and a tool message names the call it answers. *)
(* The window's own fitter is not in this repository: Fit below is what    *)
(* this code relies on (lowest priority first, oldest first, whole         *)
(* exchanges, never a critical message).                                   *)
(***************************************************************************)
EXTENDS Integers, Sequences, FiniteSets, SequencesExt, FiniteSetsExt

CONSTANTS
  Tool,           \* the tools offered to the model
  ToolCost,       \* [Tool -> size of its schema]
  Sizes,          \* the sizes of messages
  Window,         \* the window's input limit
  HistoryBudget,  \* what of it the history may use
  EvidenceCap,    \* what one tool result may use
  Extras,         \* what a round may show besides results: "none", a
                  \* "frame" of the screen, an "image" that was read
  MaxPast,        \* bound: turns in the session's history
  MaxToolRounds   \* bound: rounds of tool calls in the turn

VARIABLES
  stage,          \* "session", "ready", "asked" or "refused"
  archived,       \* the summaries of its compacted turns
  past,           \* the session's messages after them
  messages,       \* the turn's conversation
  prompt,         \* the messages of the latest request
  offered,        \* the tools of the latest request
  demanded,       \* the tools the latest request had to offer
  rounds

ASSUME FitAssumption ==
  /\ IsFiniteSet(Tool) /\ ToolCost \in [Tool -> Nat]
  /\ Sizes \subseteq Nat /\ Extras \subseteq {"none", "frame", "image"}
  /\ Window \in Nat /\ HistoryBudget \in Nat /\ EvidenceCap \in Nat
  /\ MaxPast \in Nat /\ MaxToolRounds \in Nat

fitVars == <<stage, archived, past, messages, prompt, offered, demanded, rounds>>

Kinds == {"system", "summary", "user", "image", "call", "tool", "reply", "frame"}

Sized(kind, size, at, of) == [kind |-> kind, size |-> size, at |-> at, of |-> of]

Cost(msgs) ==
  LET sum[n \in 0..Len(msgs)] == IF n = 0 THEN 0 ELSE sum[n - 1] + msgs[n].size
  IN sum[Len(msgs)]

SchemaCost(tools) == MapThenSumSet(LAMBDA t : ToolCost[t], tools)

\* The indexes of msgs that hold a message of one of the kinds.
At(msgs, kinds) == {i \in DOMAIN msgs : msgs[i].kind \in kinds}

LastAt(msgs, kinds) == Max(At(msgs, kinds) \cup {0})

\* The indexes in a set, from the first to the last.
Ascending(indexes) ==
  LET last == Max(indexes \cup {0})
      upto[n \in 0..last] == IF n = 0 THEN <<>>
                             ELSE IF n \in indexes THEN Append(upto[n - 1], n)
                             ELSE upto[n - 1]
  IN upto[last]

Only(msgs, keep) ==
  LET kept == Ascending(keep) IN [n \in DOMAIN kept |-> msgs[kept[n]]]

-----------------------------------------------------------------------------
(* History *)

\* limitHistoryTurns: from the maxTurns-th last user message on.
LimitTurns(msgs, maxTurns) ==
  LET users == Ascending(At(msgs, {"user"}))
  IN IF Len(users) < maxTurns THEN msgs
     ELSE SubSeq(msgs, users[Len(users) - maxTurns + 1], Len(msgs))

\* fitToolEvidenceToBudget.
CutEvidence(m) ==
  [m EXCEPT !.size = IF m.kind = "tool" THEN Min({@, EvidenceCap}) ELSE @]

\* A replayed message: no image, and a result cut to its share.
Replayed(m) ==
  [CutEvidence(m) EXCEPT !.kind = IF @ = "image" THEN "user" ELSE @]

\* Faulty: the history may be cut anywhere.
TailStartsAnywhere(msgs) == DOMAIN msgs

\* Where fitStableHistoryTail may start: at a turn, or at the first message.
TailStarts(msgs) == At(msgs, {"user"}) \cup {1}

\* fitStableHistoryTail: the longest tail that starts a turn and fits, or
\* the latest turn whatever its size.
FitTail(msgs, budget) ==
  LET whole == [n \in DOMAIN msgs |-> Replayed(msgs[n])]
      from(i) == SubSeq(whole, i, Len(whole))
      fits == {i \in TailStarts(whole) : Cost(from(i)) <= budget}
  IN IF msgs = <<>> THEN <<>>
     ELSE from(IF fits = {} THEN Max(TailStarts(whole)) ELSE Min(fits))

\* compactBoundaryContext: a message for each segment that has a summary.
Boundaries(segments) == Only(segments, {i \in DOMAIN segments : segments[i].size > 0})

\* projectCompactSummaries: an index and the latest summaries that fit beside
\* it, the very latest cut if it has to be.
ProjectSummaries(summaries) ==
  LET limit == (HistoryBudget * 2) \div 3
      room == limit - 1
      from(i) == SubSeq(summaries, i, Len(summaries))
      fits == {i \in DOMAIN summaries : Cost(from(i)) <= room}
      shown == IF fits # {} THEN from(Min(fits))
               ELSE <<[Last(summaries) EXCEPT !.size = room]>>
  IN IF Cost(summaries) <= limit THEN summaries
     ELSE IF room <= 0 THEN <<>>
     ELSE <<Sized("summary", 1, 1, 0)>> \o shown

\* buildHistoryMessages; the raw messages get a least share, here 1.
BuildHistory(segments, tail, recent) ==
  LET summaries == ProjectSummaries(Boundaries(segments))
      raw == IF recent > 0 THEN LimitTurns(tail, recent) ELSE tail
  IN summaries \o FitTail(raw, Max({HistoryBudget - Cost(summaries), 1}))

-----------------------------------------------------------------------------
(* The window *)

\* The exchange a message belongs to: a call with its results, or itself.
Unit(msgs, i) ==
  {j \in DOMAIN msgs :
     \/ j = i
     \/ msgs[i].kind = "call" /\ msgs[j].of = msgs[i].at
     \/ msgs[i].kind = "tool" /\ (msgs[j].of = msgs[i].of \/ msgs[j].at = msgs[i].of)}

\* The latest call with the results that follow it.
LatestRound(msgs) ==
  LET call == LastAt(msgs, {"call"})
      ends == {i \in (call + 1)..(Len(msgs) + 1) :
                 i = Len(msgs) + 1 \/ msgs[i].kind # "tool"}
  IN IF call = 0 THEN {} ELSE call..(Min(ends) - 1)

\* toContextMessages: 3 critical, 2 high, 1 normal.
Priority(msgs) ==
  LET round == LatestRound(msgs)
      critical == At(msgs, {"system"}) \cup {LastAt(msgs, {"user", "image", "frame"})}
  IN [i \in DOMAIN msgs |->
        IF i \in round THEN 2 ELSE IF i \in critical THEN 3 ELSE 1]

\* The fitter drops whole units, the lowest priority first and of equal ones
\* the oldest, until the rest fits or only critical messages are left.
Fit(msgs, priority, room) ==
  LET unit == [i \in DOMAIN msgs |-> Unit(msgs, i)]
      weight == [i \in DOMAIN msgs |-> Max({priority[j] : j \in unit[i]})]
      weighing(w) == Ascending({i \in DOMAIN msgs : weight[i] = w /\ Min(unit[i]) = i})
      order == weighing(1) \o weighing(2)
      without(n) == Only(msgs, DOMAIN msgs \ UNION {unit[order[k]] : k \in 1..n})
      enough == {n \in 0..Len(order) : Cost(without(n)) <= room}
  IN IF Cost(msgs) <= room THEN msgs
     ELSE without(IF enough = {} THEN Len(order) ELSE Min(enough))

\* projectToolEvidence.
Projected(msgs) == [n \in DOMAIN msgs |-> CutEvidence(msgs[n])]

\* restoreHeldMessages: the held messages take their old indexes, and the
\* indexes below the number of dropped messages are taken to be the dropped
\* ones.  What is held beyond the first index that finds no text is lost.
RestoreHeld(text, before) ==
  LET held == At(before, {"image"})
      trimmed == Len(before) - Len(text) - Cardinality(held)
      slots == {i \in DOMAIN before \ held : i > trimmed}
      rank(i) == Cardinality({j \in slots : j <= i})
      end == Min({i \in slots : rank(i) > Len(text)} \cup {Len(before) + 1})
      placed == Ascending({i \in held \cup slots : i < end})
  IN IF held = {} THEN text
     ELSE [n \in DOMAIN placed |->
             IF placed[n] \in held THEN before[placed[n]] ELSE text[rank(placed[n])]]
          \o SubSeq(text, rank(end - 1) + 1, Len(text))

\* removeTransientComputerObservations.
WithoutFrames(msgs) == Only(msgs, DOMAIN msgs \ At(msgs, {"frame"}))

\* fitContextWindow.
FitWindow(msgs) ==
  LET frame == LastAt(msgs, {"frame"})
      still == WithoutFrames(msgs)
      text == Projected(Only(still, DOMAIN still \ At(still, {"image"})))
      fitted == Fit(text, Priority(text), Window)
      restored == RestoreHeld(fitted, still)
  IN IF frame = 0 THEN restored ELSE Append(restored, msgs[frame])

-----------------------------------------------------------------------------
(* The request *)

\* requestPriorities: the instructions, the latest user message, the latest
\* frame and the latest round are pinned.
Pinned(msgs) ==
  (At(msgs, {"system"}) \cup LatestRound(msgs)
     \cup {LastAt(msgs, {"user", "image"}), LastAt(msgs, {"frame"})}) \ {0}

PinnedPriority(msgs) ==
  LET pinned == Pinned(msgs)
      otherwise == Priority(msgs)
  IN [i \in DOMAIN msgs |-> IF i \in pinned THEN 3 ELSE otherwise[i]]

Available(msgs) == Window - Cost(Only(msgs, Pinned(msgs)))

\* What the schemas of a request may use.
SchemaLimit(msgs, required) ==
  Max({SchemaCost(required), Min({Window \div 3, Available(msgs)})})

\* selectRequestTools: the selections it may return.  Required schemas come
\* first, the others as relevant as each looks for the request while they
\* fit, so what is chosen can be any selection to which no other tool can be
\* added.  None is an error.
Selections(msgs, required) ==
  LET limit == SchemaLimit(msgs, required)
  IN IF Available(msgs) <= 0 \/ SchemaCost(required) > Available(msgs) THEN {{}}
     ELSE {chosen \in SUBSET Tool :
             /\ required \subseteq chosen
             /\ SchemaCost(chosen) <= limit
             /\ \A t \in Tool \ chosen : SchemaCost(chosen) + ToolCost[t] > limit}

\* Faulty: the request is cut as the window is, without its pinned messages.
FitUnpinned(msgs, tools) ==
  IF Cost(msgs) + SchemaCost(tools) <= Window THEN msgs
  ELSE Fit(msgs, Priority(msgs), Window - SchemaCost(tools))

\* modelRequestBudget.fit.
FitRequest(msgs, tools) ==
  IF Cost(msgs) + SchemaCost(tools) <= Window THEN msgs
  ELSE Fit(msgs, PinnedPriority(msgs), Window - SchemaCost(tools))

-----------------------------------------------------------------------------
FitInit ==
  /\ stage = "session"
  /\ archived = <<>>
  /\ past = <<>>
  /\ messages = <<>>
  /\ prompt = <<>>
  /\ offered = {}
  /\ demanded = {}
  /\ rounds = 0

\* The place of the session's latest message.
Said == Max({m.at : m \in Range(archived \o past)} \cup {0})

\* A turn the session holds: a question, perhaps a tool call, an answer.
PastTurn(size, called) ==
  /\ stage = "session"
  /\ Len(archived) + Cardinality(At(past, {"user", "image"})) < MaxPast
  /\ LET n == Said
         user == Sized("user", 1, n + 1, 0)
     IN past' = past \o
          IF called THEN <<user, Sized("call", 1, n + 2, 0),
                           Sized("tool", size, n + 3, n + 2),
                           Sized("reply", 1, n + 4, 0)>>
          ELSE <<user, Sized("reply", size, n + 2, 0)>>
  /\ UNCHANGED <<stage, archived, messages, prompt, offered, demanded, rounds>>

\* The oldest turns become a segment (Compaction).  Which messages one covers
\* is the compaction library's choice, here whole turns.
CompactPast(size) ==
  /\ stage = "session"
  /\ \E last \in DOMAIN past :
       /\ past[last].kind = "reply"
       /\ archived' = Append(archived, Sized("summary", size, past[last].at, 0))
       /\ past' = SubSeq(past, last + 1, Len(past))
  /\ UNCHANGED <<stage, messages, prompt, offered, demanded, rounds>>

\* BuildInput: instructions, history, the user's message in its place.  The
\* turn does not read the session's history again: it is forgotten here.
BuildInput(kind, size, recent) ==
  /\ stage = "session"
  /\ LET fitted == FitWindow(<<Sized("system", 1, 0, 0)>>
                             \o BuildHistory(archived, past, recent)
                             \o <<Sized("user", 1, Said + 1, 0)>>)
     IN messages' = Append(Front(fitted), Sized(kind, size, Said + 1, 0))
  /\ stage' = "ready" /\ archived' = <<>> /\ past' = <<>>
  /\ UNCHANGED <<prompt, offered, demanded, rounds>>

\* prepareModelRequest: choose the tools, cut the messages, check the sum.
\* Where no tool is offered none has to be chosen.
PrepareModelRequest(asked) ==
  /\ stage = "ready"
  /\ \E tools \in Selections(messages, asked) :
       LET sent == FitRequest(messages, tools)
       IN IF (tools = {} /\ Tool # {}) \/ Cost(sent) + SchemaCost(tools) > Window
          THEN stage' = "refused" /\ UNCHANGED <<prompt, offered>>
          ELSE stage' = "asked" /\ prompt' = sent /\ offered' = tools
  /\ demanded' = asked
  /\ UNCHANGED <<archived, past, messages, rounds>>

\* The model calls tools; their results, a picture that was read and the
\* latest frame of the screen join the conversation, which is cut.  Earlier
\* frames go (appendLatestComputerObservation); that it keeps the frame of an
\* action when the round only observes again, and says so in a message, is left
\* out.  The request that was answered is over.
ToolRound(sizes, extra) ==
  /\ stage = "asked"
  /\ rounds < MaxToolRounds
  /\ LET next == 1 + Max({messages[i].at : i \in DOMAIN messages})
         results == [n \in DOMAIN sizes |-> Sized("tool", sizes[n], next + n, next)]
         seen == IF extra = "none" THEN <<>>
                 ELSE <<Sized(extra, 1, next + Len(sizes) + 1, 0)>>
     IN messages' = FitWindow(WithoutFrames(messages) \o <<Sized("call", 1, next, 0)>>
                              \o results \o seen)
  /\ stage' = "ready"
  /\ rounds' = rounds + 1
  /\ prompt' = <<>> /\ offered' = {} /\ demanded' = {}
  /\ UNCHANGED <<archived, past>>

FitNext ==
  \/ \E size \in Sizes, called \in BOOLEAN : PastTurn(size, called)
  \/ \E size \in Sizes \cup {0} : CompactPast(size)
  \/ \E kind \in {"user", "image"}, size \in Sizes, recent \in 0..1 :
       BuildInput(kind, size, recent)
  \/ \E asked \in SUBSET Tool : PrepareModelRequest(asked)
  \/ \E size \in Sizes, extra \in Extras :
       ToolRound(<<size>>, extra) \/ ToolRound(<<size, 1>>, extra)

FitSpec == FitInit /\ [][FitNext]_fitVars

-----------------------------------------------------------------------------
FitTypeOK ==
  /\ stage \in {"session", "ready", "asked", "refused"}
  /\ \A m \in Range(archived \o past) \cup Range(messages) \cup Range(prompt) :
       m.kind \in Kinds /\ m.size \in Nat /\ m.at \in Nat /\ m.of \in Nat
  /\ offered \subseteq Tool /\ demanded \subseteq Tool
  /\ rounds \in 0..MaxToolRounds

\* Every tool result of a request follows its call with only results of the
\* same call in between, and a call has all its results: no cut of history,
\* window or request orphans one (context_planner.go:1321-1323).
ExchangesWhole ==
  \A i \in DOMAIN prompt :
    /\ prompt[i].kind = "tool" =>
         \E c \in 1..(i - 1) :
            /\ prompt[c].kind = "call" /\ prompt[c].at = prompt[i].of
            /\ \A j \in (c + 1)..i : prompt[j].of = prompt[i].of
    /\ prompt[i].kind = "call" =>
         i < Len(prompt) /\ prompt[i + 1].of = prompt[i].at

\* A request that can be sent is sent, with the user's message, the
\* instructions, the latest round and every tool it had to offer.  It is
\* refused only if those alone do not fit, or if it had to offer none and no
\* schema fits its share (tool_schema_budget.go:27-32).
RefusedOnlyForWhatIsPinned ==
  LET must == SchemaCost(demanded)
  IN /\ stage = "refused" =>
          \/ Available(messages) <= 0
          \/ must > Available(messages)
          \/ /\ demanded = {}
             /\ \A t \in Tool :
                  ToolCost[t] > Min({Window \div 3, Available(messages)})
     /\ stage = "asked" =>
          /\ demanded \subseteq offered
          /\ Range(Only(messages, Pinned(messages))) \subseteq Range(prompt)

\* "trim the text history, then restore them in place" (loop.go:1559-1561):
\* what is left of the conversation is in the order in which it was said.
RestoredInPlace ==
  \A i, j \in DOMAIN messages :
    i < j /\ "frame" \notin {messages[i].kind, messages[j].kind}
      => messages[i].at < messages[j].at
=============================================================================
