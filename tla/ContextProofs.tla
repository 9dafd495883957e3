---------------------------- MODULE ContextProofs ----------------------------
(***************************************************************************)
(* Proofs about what a turn starts from, for every value of the constants: *)
(* the cache of built contexts, the boundaries compaction appends, the     *)
(* model configuration and the journal of checkpoints.  They share no      *)
(* state; each of the first three has a short inductive invariant.         *)
(*                                                                         *)
(* Of the journal, first the encoding: a difference replays to the         *)
(* checkpoint it was taken for, and a journal replays line by line; both   *)
(* need induction over the lines, which SetInduction gives.  Then the      *)
(* writer: JournalInv says for each place of a save what the disk holds,   *)
(* and no crash or failed write in any of these places loses an            *)
(* acknowledged save while the log named by the task record is there.      *)
(***************************************************************************)
EXTENDS ContextCache, Compaction, ModelConfig, CheckpointJournal,
        FiniteSetTheorems, SequenceTheorems, TLAPS

-----------------------------------------------------------------------------
(* ContextCache.                                                           *)

\* The types the argument needs; which key is the oldest does not matter to it.
CacheTyped ==
    /\ version \in [Subject -> 0..MaxVersion] /\ rest \in [Subject -> 0..MaxVersion]
    /\ asides \in [Subject -> SUBSET Aside]
    /\ DOMAIN entries \subseteq CacheKey /\ entries \in [DOMAIN entries -> Entry]
    /\ builder \in [Builder -> Build]

\* A context of a subject: built for a request that was made, when no more had
\* changed of what the key leaves out than has by now.
IsOf(x, e) == e.rest <= rest[x] /\ e.aside \in asides[x]

\* An entry is under the key of the version it was built from, and so is a copy
\* of it; a context being built is of the version there is.  All but for a
\* subject that changed under a build.
EntriesMatch ==
    \A k \in DOMAIN entries :
        /\ IsOf(k[1], entries[k])
        /\ k[1] \notin torn => entries[k].built = k[2]

CopyMatches(r) ==
    /\ r.at \in {"probed", "building", "built"} => r.aside \in asides[r.key[1]]
    /\ r.at \in {"served", "built"} \/ (r.at = "probed" /\ r.hit) => IsOf(r.key[1], r.copy)
    /\ r.key[1] \notin torn =>
        /\ r.at = "served" \/ (r.at = "probed" /\ r.hit) => r.copy.built = r.key[2]
        /\ r.at = "built" => r.copy.built = version[r.key[1]]

CopiesMatch == \A b \in Builder : CopyMatches(builder[b])

CacheInv == CacheTyped /\ EntriesMatch /\ CopiesMatch

\* A build at rest has its type.
LEMMA NoBuildTyped ==
    ASSUME CacheAssumption PROVE NoBuild \in Build /\ NoBuild.at = "idle" /\ NoEntry \in Entry
<1>1. PICK x \in Subject : TRUE
    BY DEF CacheAssumption
<1>2. << x, 0 >> \in CacheKey /\ 0 \in 0..MaxVersion
    BY DEF CacheKey, CacheAssumption
<1>3. (CHOOSE k \in CacheKey : TRUE) \in CacheKey
    BY <1>2
<1>4. NoAside \in Aside
    BY DEF NoAside, CacheAssumption
<1> QED BY <1>2, <1>3, <1>4 DEF NoBuild, Build, NoEntry, Entry

\* A step of one builder that writes neither entries nor versions.
LEMMA BuilderMoves ==
    ASSUME CacheInv, NEW b \in Builder, NEW r \in Build,
           builder' = [builder EXCEPT ![b] = r],
           UNCHANGED << version, rest, entries, asides, torn >>, CopyMatches(r)
    PROVE  CacheInv'
<1>1. /\ CacheTyped'
      /\ builder'[b] = r /\ \A c \in Builder : c # b => builder'[c] = builder[c]
    BY DEF CacheInv, CacheTyped
<1>2. EntriesMatch'
    BY DEF CacheInv, EntriesMatch, IsOf
<1>3. CopiesMatch'
    BY <1>1 DEF CacheInv, CopiesMatch, CopyMatches, IsOf
<1> QED BY <1>1, <1>2, <1>3 DEF CacheInv

\* The key made now names the subject and its version.
LEMMA KeyIsNow ==
    ASSUME CacheInv, NEW x \in Subject
    PROVE  KeyNow(x) \in CacheKey /\ KeyNow(x)[1] = x /\ KeyNow(x)[2] = version[x]
BY DEF CacheInv, CacheTyped, KeyNow, CacheKey

\* What was of a subject stays so: requests and changes are only added.
LEMMA StaysOf ==
    ASSUME CacheInv, NEW x \in Subject, NEW e \in Entry, IsOf(x, e),
           rest'[x] \in {rest[x], rest[x] + 1}, asides[x] \subseteq asides'[x]
    PROVE  IsOf(x, e)'
BY DEF IsOf, CacheInv, CacheTyped, Entry, CacheAssumption

\* A request of a new aside leaves what was of its subject.
LEMMA ProbeKeeps ==
    ASSUME CacheInv, CacheAssumption, NEW b \in Builder, NEW x \in Subject, NEW a \in Aside,
           Probe(b, x, a)
    PROVE  CacheInv'
<1> DEFINE k == KeyNow(x)
           c == IF k \in DOMAIN entries THEN entries[k] ELSE NoEntry
           r == [at |-> "probed", key |-> k, aside |-> a, hit |-> k \in DOMAIN entries,
                 copy |-> c]
<1>1. k \in CacheKey /\ k[1] = x /\ NoEntry \in Entry
    BY KeyIsNow, NoBuildTyped
<1>2. c \in Entry /\ (k \in DOMAIN entries => c = entries[k])
    BY <1>1 DEF CacheInv, CacheTyped
<1> HIDE DEF c
<1>3. r \in Build
    BY <1>1, <1>2 DEF Build
<1>11. PICK e \in Entry : e = c
    BY <1>2
<1>4. /\ r.key = k /\ r.at = "probed" /\ r.aside = a /\ r.copy = c
      /\ r.hit => c = entries[k] /\ k \in DOMAIN entries
    BY <1>2
<1>5. /\ builder' = [builder EXCEPT ![b] = r] /\ asides' = [asides EXCEPT ![x] = @ \cup {a}]
      /\ UNCHANGED << version, rest, entries, torn >>
    BY DEF Probe, c
<1> HIDE DEF r, k
<1>6. /\ asides' \in [Subject -> SUBSET Aside] /\ a \in asides'[x]
      /\ \A y \in Subject : asides[y] \subseteq asides'[y]
    BY <1>5 DEF CacheInv, CacheTyped
<1>7. \A y \in Subject, f \in Entry : IsOf(y, f) => IsOf(y, f)'
    BY <1>5, <1>6, StaysOf
<1>8. CacheTyped'
    BY <1>3, <1>5, <1>6 DEF CacheInv, CacheTyped
<1>9. EntriesMatch'
    BY <1>5, <1>7 DEF CacheInv, CacheTyped, EntriesMatch, CacheKey
<1>10. CopiesMatch'
    <2>1. ASSUME NEW d \in Builder, d # b PROVE CopyMatches(builder[d])'
        <3>1. CopyMatches(builder[d]) /\ builder'[d] = builder[d] /\ builder[d] \in Build
            BY <1>5, <2>1 DEF CacheInv, CacheTyped, CopiesMatch
        <3>2. builder[d].key[1] \in Subject /\ builder[d].copy \in Entry
            BY <3>1 DEF Build, CacheKey
        <3> QED BY <1>5, <1>6, <1>7, <3>1, <3>2 DEF CopyMatches
    <2>2. CopyMatches(builder[b])'
        <3>1. builder'[b] = r /\ r.key[1] = x
            BY <1>1, <1>4, <1>5 DEF CacheInv, CacheTyped
        <3>2. ASSUME r.hit PROVE IsOf(x, e)' /\ (x \notin torn => e.built = k[2])
            <4>1. k \in DOMAIN entries /\ e = entries[k] /\ k[1] = x
                BY <1>1, <1>4, <1>11, <3>2
            <4>2. IsOf(x, e) /\ (x \notin torn => e.built = k[2])
                BY <4>1 DEF CacheInv, EntriesMatch
            <4> QED BY <1>7, <4>2
        <3>3. /\ builder'[b].key = k /\ builder'[b].at = "probed" /\ builder'[b].aside = a
              /\ builder'[b].copy = e /\ builder'[b].hit = r.hit
            BY <1>4, <1>11, <3>1
        <3>4. k[1] = x /\ a \in asides'[x] /\ torn' = torn
            BY <1>1, <1>5, <1>6
        <3>5. builder'[b].hit => IsOf(x, e)' /\ (x \notin torn => e.built = k[2])
            BY <3>2, <3>3
        <3> QED BY <3>3, <3>4, <3>5 DEF CopyMatches
    <2> QED BY <2>1, <2>2 DEF CopiesMatch
<1> QED BY <1>8, <1>9, <1>10 DEF CacheInv

\* Taking a copy, or dropping what has expired.
LEMMA ResolveKeeps ==
    ASSUME CacheInv, CacheAssumption, NEW b \in Builder, Resolve(b)
    PROVE  CacheInv'
<1>1. builder[b] \in Build /\ builder[b].at = "probed" /\ CopyMatches(builder[b])
    BY DEF CacheInv, CacheTyped, CopiesMatch, Resolve
<1>2. /\ DOMAIN entries' \subseteq DOMAIN entries
      /\ entries' \in [DOMAIN entries' -> Entry]
      /\ \A k \in DOMAIN entries' : entries'[k] = entries[k]
    BY DEF CacheInv, CacheTyped, Resolve, RemoveKeys, Restrict
<1>3. UNCHANGED << version, rest, asides, torn >>
    BY DEF Resolve
<1>4. PICK at \in {"served", "building"} :
         /\ builder' = [builder EXCEPT ![b].at = at]
         /\ at = "served" => builder[b].hit
    BY DEF Resolve
<1>5. CacheTyped'
    BY <1>1, <1>2, <1>3, <1>4 DEF CacheInv, CacheTyped, Build
<1>6. EntriesMatch'
    BY <1>2, <1>3 DEF CacheInv, EntriesMatch, IsOf
<1>7. CopiesMatch'
    <2>1. /\ builder'[b].at = at /\ builder'[b].key = builder[b].key
          /\ builder'[b].copy = builder[b].copy /\ builder'[b].aside = builder[b].aside
          /\ \A c \in Builder : c # b => builder'[c] = builder[c]
        BY <1>1, <1>4 DEF CacheInv, CacheTyped, Build
    <2>2. CopyMatches(builder[b])'
        BY <1>1, <1>3, <1>4, <2>1 DEF CopyMatches, IsOf
    <2>3. ASSUME NEW c \in Builder, c # b PROVE CopyMatches(builder[c])'
        BY <1>3, <2>1, <2>3 DEF CacheInv, CopiesMatch, CopyMatches, IsOf
    <2> QED BY <2>2, <2>3 DEF CopiesMatch
<1> QED BY <1>5, <1>6, <1>7 DEF CacheInv

\* The context is built from what there is now.
LEMMA BuildKeeps ==
    ASSUME CacheInv, CacheAssumption, NEW b \in Builder, BuildContext(b)
    PROVE  CacheInv'
<1>1. /\ builder[b] \in Build /\ builder[b].key \in CacheKey
      /\ builder[b].key[1] \in Subject /\ builder[b].aside \in asides[builder[b].key[1]]
    BY DEF CacheInv, CacheTyped, CopiesMatch, CopyMatches, Build, CacheKey, BuildContext
<1> DEFINE x == builder[b].key[1]
           copy == [built |-> version[x], rest |-> rest[x], aside |-> builder[b].aside,
                    old |-> FALSE]
           r == [builder[b] EXCEPT !.at = "built", !.copy = copy]
<1>2. copy \in Entry
    BY <1>1 DEF Entry, CacheInv, CacheTyped, Build
<1>3. /\ r \in Build /\ r.at = "built" /\ r.key = builder[b].key /\ r.copy = copy
      /\ r.aside = builder[b].aside
    BY <1>1, <1>2 DEF Build
<1>4. /\ builder' = [builder EXCEPT ![b] = r]
      /\ UNCHANGED << version, rest, entries, asides, torn >>
    BY <1>1 DEF BuildContext, CacheInv, CacheTyped
<1>5. rest[x] <= rest[x]
    BY <1>1 DEF CacheInv, CacheTyped, CacheAssumption
<1>6. CopyMatches(r)
    BY <1>1, <1>3, <1>5 DEF CopyMatches, IsOf
<1> HIDE DEF r, copy
<1> QED BY <1>3, <1>4, <1>6, BuilderMoves

\* It is stored under the key of the version there is.
LEMMA StoreKeeps ==
    ASSUME CacheInv, CacheAssumption, NEW b \in Builder, StoreContext(b)
    PROVE  CacheInv'
<1> DEFINE r == builder[b]
           k == KeyNow(r.key[1])
           current == {e \in DOMAIN entries : ~entries[e].old}
<1>1. /\ r \in Build /\ r.key[1] \in Subject /\ r.copy \in Entry /\ r.at = "built"
      /\ CopyMatches(r)
    BY DEF CacheInv, CacheTyped, CopiesMatch, Build, CacheKey, StoreContext
<1>2. k \in CacheKey /\ k[1] = r.key[1] /\ k[2] = version[r.key[1]]
    BY <1>1, KeyIsNow
<1>3. PICK gone :
         entries' = [e \in (current \cup {k}) \ gone |-> IF e = k THEN r.copy ELSE entries[e]]
    BY DEF StoreContext
<1>4. /\ builder' = [builder EXCEPT ![b] = NoBuild]
      /\ UNCHANGED << version, rest, asides, torn >>
    BY DEF StoreContext
<1>5. CacheTyped'
    <2>1. DOMAIN entries' \subseteq CacheKey
        BY <1>2, <1>3 DEF CacheInv, CacheTyped
    <2>2. entries' \in [DOMAIN entries' -> Entry]
        BY <1>1, <1>3 DEF CacheInv, CacheTyped
    <2> QED BY <1>4, <2>1, <2>2, NoBuildTyped DEF CacheInv, CacheTyped
<1>6. EntriesMatch'
    <2> SUFFICES ASSUME NEW e \in DOMAIN entries'
                 PROVE  /\ IsOf(e[1], entries'[e])
                        /\ e[1] \notin torn => entries'[e].built = e[2]
        BY <1>4 DEF EntriesMatch, IsOf
    <2>1. CASE e = k
        BY <1>1, <1>2, <1>3, <2>1 DEF CopyMatches
    <2>2. CASE e # k
        BY <1>3, <2>2 DEF CacheInv, EntriesMatch
    <2> QED BY <2>1, <2>2
<1>7. CopiesMatch'
    <2>1. builder'[b] = NoBuild /\ \A c \in Builder : c # b => builder'[c] = builder[c]
        BY <1>4 DEF CacheInv, CacheTyped
    <2>2. ASSUME NEW c \in Builder PROVE CopyMatches(builder[c])'
        BY <1>4, <2>1, NoBuildTyped DEF CacheInv, CopiesMatch, CopyMatches, IsOf
    <2> QED BY <2>2 DEF CopiesMatch
<1> QED BY <1>5, <1>6, <1>7 DEF CacheInv

\* A change of the subject tears the builds that are under way.
LEMMA ChangeKeeps ==
    ASSUME CacheInv, CacheAssumption, NEW x \in Subject, Change(x)
    PROVE  CacheInv'
<1>1. /\ version' \in [Subject -> 0..MaxVersion]
      /\ UNCHANGED << rest, entries, builder, asides >>
      /\ \A y \in Subject : y # x => version'[y] = version[y]
      /\ torn \subseteq torn'
      /\ \A b \in Builder : builder[b].at = "built" /\ builder[b].key[1] = x => x \in torn'
    BY DEF Change, CacheInv, CacheTyped, CacheAssumption
<1>2. \A b \in Builder : builder[b].key[1] \in Subject
    BY DEF CacheInv, CacheTyped, Build, CacheKey
<1>3. CacheTyped' /\ EntriesMatch'
    BY <1>1 DEF CacheInv, CacheTyped, EntriesMatch, IsOf
<1>4. ASSUME NEW b \in Builder PROVE CopyMatches(builder[b])'
    BY <1>1, <1>2 DEF CacheInv, CopiesMatch, CopyMatches, IsOf
<1> QED BY <1>3, <1>4 DEF CacheInv, CopiesMatch

\* A change of what the key leaves out.
LEMMA ChangeRestKeeps ==
    ASSUME CacheInv, CacheAssumption, NEW x \in Subject, ChangeRest(x)
    PROVE  CacheInv'
<1>1. /\ rest' \in [Subject -> 0..MaxVersion]
      /\ \A y \in Subject : rest'[y] \in {rest[y], rest[y] + 1}
      /\ UNCHANGED << version, entries, builder, asides, torn >>
    BY DEF ChangeRest, CacheInv, CacheTyped, CacheAssumption
<1>2. \A y \in Subject, e \in Entry : IsOf(y, e) => IsOf(y, e)'
    BY <1>1, StaysOf
<1>3. CacheTyped'
    BY <1>1 DEF CacheInv, CacheTyped
<1>4. EntriesMatch'
    BY <1>1, <1>2 DEF CacheInv, CacheTyped, EntriesMatch, CacheKey
<1>5. ASSUME NEW b \in Builder PROVE CopyMatches(builder[b])'
    <2>1. CopyMatches(builder[b]) /\ builder[b].key[1] \in Subject /\ builder[b].copy \in Entry
        BY DEF CacheInv, CacheTyped, CopiesMatch, Build, CacheKey
    <2> QED BY <1>1, <1>2, <2>1 DEF CopyMatches
<1> QED BY <1>3, <1>4, <1>5 DEF CacheInv, CopiesMatch

\* Every step of the cache keeps the invariant.
LEMMA CacheStep == ASSUME CacheInv, CacheAssumption, [CacheNext]_cacheVars PROVE CacheInv'
<1>1. ASSUME NEW b \in Builder, NEW x \in Subject, NEW a \in Aside, Probe(b, x, a) PROVE CacheInv'
    BY <1>1, ProbeKeeps
<1>2. ASSUME NEW b \in Builder, Resolve(b) PROVE CacheInv'
    BY <1>2, ResolveKeeps
<1>3. ASSUME NEW b \in Builder, Serve(b) PROVE CacheInv'
    BY <1>3, BuilderMoves, NoBuildTyped DEF Serve, CopyMatches
<1>4. ASSUME NEW b \in Builder, BuildContext(b) PROVE CacheInv'
    BY <1>4, BuildKeeps
<1>5. ASSUME NEW b \in Builder, StoreContext(b) PROVE CacheInv'
    BY <1>5, StoreKeeps
<1>6. ASSUME NEW k \in CacheKey, Expire(k) PROVE CacheInv'
    <2>1. /\ entries[k] \in Entry /\ DOMAIN entries' = DOMAIN entries
          /\ UNCHANGED << version, rest, builder, asides, torn >>
          /\ \A e \in DOMAIN entries : /\ entries'[e] \in Entry
                                       /\ entries'[e].built = entries[e].built
                                       /\ entries'[e].rest = entries[e].rest
                                       /\ entries'[e].aside = entries[e].aside
        BY <1>6 DEF Expire, CacheInv, CacheTyped, Entry
    <2>2. entries' \in [DOMAIN entries' -> Entry]
        BY <1>6, <2>1 DEF Expire, CacheInv, CacheTyped
    <2>3. EntriesMatch'
        BY <2>1 DEF CacheInv, EntriesMatch, IsOf
    <2>4. CopiesMatch'
        BY <2>1 DEF CacheInv, CopiesMatch, CopyMatches, IsOf
    <2> QED BY <2>1, <2>2, <2>3, <2>4 DEF CacheInv, CacheTyped
<1>7. ASSUME NEW x \in Subject, Change(x) PROVE CacheInv'
    BY <1>7, ChangeKeeps
<1>8. ASSUME NEW x \in Subject, ChangeRest(x) PROVE CacheInv'
    BY <1>8, ChangeRestKeeps
<1>9. CASE UNCHANGED cacheVars
    BY <1>9 DEF cacheVars, CacheInv, CacheTyped, EntriesMatch, CopiesMatch, CopyMatches, IsOf
<1> QED BY <1>1, <1>2, <1>3, <1>4, <1>5, <1>6, <1>7, <1>8, <1>9 DEF CacheNext

\* A context served from the cache is of the turn's session and text and was built
\* when all that cacheKey digests was what it was when the turn asked
\* (contextMessageCache, BuildInput), except for a subject that changed under a
\* build; and it is of the turn's scope and attachments as long as nobody has asked
\* with others, and from the same older messages and memories as long as those have
\* not changed: of these the key says nothing.
THEOREM CacheServesWhatWasAsked ==
    ASSUME CacheAssumption PROVE CacheSpec => []ServedMatchesRequest
<1>1. CacheInit => CacheInv
    <2> SUFFICES ASSUME CacheInit PROVE CacheInv
        OBVIOUS
    <2>1. entries = << >> /\ DOMAIN entries = {}
        BY DEF CacheInit
    <2>2. entries \in [DOMAIN entries -> Entry]
        BY <2>1
    <2>3. /\ version \in [Subject -> 0..MaxVersion] /\ rest \in [Subject -> 0..MaxVersion]
          /\ asides \in [Subject -> SUBSET Aside] /\ builder \in [Builder -> Build]
        BY NoBuildTyped DEF CacheInit, CacheAssumption
    <2>4. \A b \in Builder : builder[b].at = "idle"
        BY NoBuildTyped DEF CacheInit
    <2> QED BY <2>1, <2>2, <2>3, <2>4
            DEF CacheInv, CacheTyped, EntriesMatch, CopiesMatch, CopyMatches
<1>2. CacheInv /\ [CacheNext]_cacheVars => CacheInv'
    BY CacheStep
<1>3. CacheInv => ServedMatchesRequest
    <2> SUFFICES ASSUME CacheInv, NEW b \in Builder, builder[b].at = "served",
                        builder[b].key[1] \notin torn
                 PROVE  /\ builder[b].copy.built = builder[b].key[2]
                        /\ rest[builder[b].key[1]] = 0 => builder[b].copy.rest = 0
                        /\ asides[builder[b].key[1]] \subseteq {builder[b].aside} =>
                              builder[b].copy.aside = builder[b].aside
        BY DEF ServedMatchesRequest
    <2>1. builder[b].copy \in Entry /\ CopyMatches(builder[b])
        BY DEF CacheInv, CacheTyped, CopiesMatch, Build
    <2>2. builder[b].copy.rest \in Nat
        BY <2>1 DEF Entry, CacheAssumption
    <2> QED BY <2>1, <2>2 DEF CopyMatches, IsOf
<1> QED BY <1>1, <1>2, <1>3, PTL DEF CacheSpec

-----------------------------------------------------------------------------
(* Compaction.                                                             *)

Segment == [from : 0..MaxRaw, to : 0..MaxRaw, fresh : BOOLEAN]
Compact == [at : {"idle", "read", "summarize", "backup", "check", "append", "save"},
            trigger : {"auto", "manual", "degraded"}, dry : BOOLEAN,
            from : 0..MaxRaw, count : 0..MaxRaw, read : 0..MaxRaw, edition : 0..MaxEdition]

\* Every variable has its type; the failures are bounded below.
CompactTyped ==
    /\ raw \in 0..MaxRaw /\ edition \in 0..MaxEdition /\ begun \in 0..MaxRuns
    /\ segments \in Seq(Segment) /\ task \in [Compactor -> Compact]
    /\ failures \in Nat /\ raced \in BOOLEAN

\* A compaction under way has chosen a prefix of what it read, and what it read
\* was there.
Chosen == {"summarize", "backup", "check", "append"}
ChosenExists ==
    \A c \in Compactor : task[c].at \in Chosen =>
        1 <= task[c].count /\ task[c].count <= task[c].read /\ task[c].from + task[c].read <= raw

\* No boundary is ahead of the history, raced or not.
BoundariesExist == \A i \in 1..Len(segments) : segments[i].to <= raw

\* An automatic compaction begins below the limit of failures and adds at most
\* one.
Autos == {c \in Compactor : task[c].at # "idle" /\ task[c].trigger = "auto"}
FailuresBounded == failures + Cardinality(Autos) <= MaxFailures + Cardinality(Compactor) - 1

CompactInv ==
    CompactTyped /\ ChosenExists /\ BoundariesExist /\ SegmentsTileHistory /\ FailuresBounded

LEMMA CoveredTyped ==
    ASSUME CompactInv, CompactionAssumption
    PROVE  /\ Covered \in 0..MaxRaw /\ Covered <= raw
           /\ Tail_ \in 0..MaxRaw /\ Covered + Tail_ = raw
<1>1. raw \in Nat /\ raw <= MaxRaw /\ MaxRaw \in Nat
    BY DEF CompactInv, CompactTyped, CompactionAssumption
<1>2. CASE segments = << >>
    BY <1>1, <1>2 DEF Covered, Tail_
<1>3. CASE segments # << >>
    <2>1. Len(segments) \in 1..Len(segments) /\ segments[Len(segments)] \in Segment
        BY <1>3 DEF CompactInv, CompactTyped
    <2>2. segments[Len(segments)].to \in 0..MaxRaw /\ segments[Len(segments)].to <= raw
        BY <2>1 DEF CompactInv, BoundariesExist, Segment
    <2> QED BY <1>1, <1>3, <2>2 DEF Covered, Tail_
<1> QED BY <1>2, <1>3

\* The compactions counted are finitely many.
LEMMA AutosFinite ==
    ASSUME CompactionAssumption
    PROVE  /\ IsFiniteSet(Autos) /\ Cardinality(Autos) \in Nat
           /\ Cardinality(Compactor) \in Nat
           /\ \A S \in SUBSET Compactor : /\ IsFiniteSet(S) /\ Cardinality(S) \in Nat
                                          /\ Cardinality(S) <= Cardinality(Compactor)
<1>1. Autos \subseteq Compactor /\ IsFiniteSet(Compactor)
    BY DEF Autos, CompactionAssumption
<1>2. \A S \in SUBSET Compactor : IsFiniteSet(S) /\ Cardinality(S) <= Cardinality(Compactor)
    BY <1>1, FS_Subset
<1> QED BY <1>1, <1>2, FS_CardinalityType

\* One compaction moves on; the history does not.
LEMMA CompactMoves ==
    ASSUME CompactInv, CompactionAssumption, NEW c \in Compactor, NEW t \in Compact,
           task' = [task EXCEPT ![c] = t], UNCHANGED << raw, edition, segments, raced >>,
           begun' \in 0..MaxRuns,
           t.at \in Chosen => 1 <= t.count /\ t.count <= t.read /\ t.from + t.read <= raw,
           \/ /\ failures' = failures
              /\ t.at # "idle" /\ t.trigger = "auto" =>
                    (task[c].at # "idle" /\ task[c].trigger = "auto") \/ failures < MaxFailures
           \/ failures' = 0 /\ t.at = "idle"
           \/ /\ failures' = failures + 1 /\ task[c].at # "idle" /\ task[c].trigger = "auto"
              /\ t.trigger # "auto"
    PROVE  CompactInv'
<1>1. /\ task \in [Compactor -> Compact] /\ failures \in Nat /\ MaxFailures \in Nat \ {0}
      /\ task'[c] = t /\ \A d \in Compactor : d # c => task'[d] = task[d]
    BY DEF CompactInv, CompactTyped, CompactionAssumption
<1>2. CompactTyped'
    BY <1>1 DEF CompactInv, CompactTyped
<1>3. ChosenExists'
    BY <1>1 DEF CompactInv, ChosenExists
<1>4. BoundariesExist' /\ SegmentsTileHistory'
    BY DEF CompactInv, BoundariesExist, SegmentsTileHistory
<1>5. FailuresBounded'
    <2> DEFINE n == Cardinality(Compactor)
    <2>1. /\ Autos' \in SUBSET Compactor /\ n \in Nat
          /\ IsFiniteSet(Autos) /\ IsFiniteSet(Autos') /\ Cardinality(Autos) \in Nat
          /\ Cardinality(Autos') \in Nat /\ Cardinality(Autos') <= n
        BY AutosFinite DEF Autos
    <2>2. failures + Cardinality(Autos) <= MaxFailures + n - 1
        BY DEF CompactInv, FailuresBounded
    <2>3. CASE failures' = failures /\ (failures < MaxFailures)
        BY <1>1, <2>1, <2>3 DEF FailuresBounded
    <2>4. CASE \/ failures' = failures /\ ~ (failures < MaxFailures)
               \/ failures' = 0 /\ t.at = "idle"
        <3>1. Autos' \subseteq Autos
            BY <1>1, <2>4 DEF Autos
        <3>2. Cardinality(Autos') <= Cardinality(Autos)
            BY <2>1, <3>1, FS_Subset
        <3> QED BY <1>1, <2>1, <2>2, <2>4, <3>2 DEF FailuresBounded
    <2>5. CASE failures' = failures + 1 /\ c \in Autos /\ c \notin Autos'
        <3>1. Autos' = Autos \ {c}
            BY <1>1, <2>5 DEF Autos
        <3>2. Cardinality(Autos') = Cardinality(Autos) - 1
            BY <2>1, <2>5, <3>1, FS_RemoveElement
        <3> QED BY <1>1, <2>1, <2>2, <2>5, <3>2 DEF FailuresBounded
    <2>6. \/ failures' = failures
          \/ failures' = 0 /\ t.at = "idle"
          \/ failures' = failures + 1 /\ c \in Autos /\ c \notin Autos'
        <3>1. t.trigger # "auto" => c \notin Autos'
            BY <1>1 DEF Autos
        <3>2. task[c].at # "idle" /\ task[c].trigger = "auto" => c \in Autos
            BY DEF Autos
        <3> QED BY <3>1, <3>2
    <2> QED BY <2>3, <2>4, <2>5, <2>6
<1> QED BY <1>2, <1>3, <1>4, <1>5 DEF CompactInv

LEMMA FailKeeps ==
    ASSUME CompactInv, CompactionAssumption, NEW c \in Compactor, task[c].at # "idle", Fail(c),
           UNCHANGED << raw, edition, segments, begun, raced >>
    PROVE  CompactInv'
<1> DEFINE t == [Idle EXCEPT !.at = "read", !.trigger = "degraded"]
<1>1. Idle \in Compact /\ Idle.at = "idle"
    BY DEF Idle, Compact, CompactionAssumption
<1>4. t \in Compact /\ t.at = "read" /\ t.trigger = "degraded"
    BY <1>1 DEF Compact
<1>2. begun' \in 0..MaxRuns
    BY DEF CompactInv, CompactTyped
<1>3. \/ failures' = failures + 1 /\ task' = [task EXCEPT ![c] = t] /\ task[c].trigger = "auto"
      \/ failures' = failures /\ task' = [task EXCEPT ![c] = Idle]
    BY DEF Fail
<1> HIDE DEF t
<1> QED BY <1>1, <1>2, <1>3, <1>4, CompactMoves DEF Chosen

LEMMA SucceedKeeps ==
    ASSUME CompactInv, CompactionAssumption, NEW c \in Compactor, Succeed(c),
           UNCHANGED << raw, edition, segments, begun, raced >>
    PROVE  CompactInv'
<1>1. Idle \in Compact /\ Idle.at = "idle"
    BY DEF Idle, Compact, CompactionAssumption
<1>2. begun' \in 0..MaxRuns
    BY DEF CompactInv, CompactTyped
<1> QED BY <1>1, <1>2, CompactMoves DEF Succeed, Chosen

LEMMA ToKeeps ==
    ASSUME CompactInv, CompactionAssumption, NEW c \in Compactor, NEW at, To(c, at),
           task[c].at \in Chosen /\ at \in Chosen \ {"idle"},
           UNCHANGED << raw, edition, segments, begun, raced, failures >>
    PROVE  CompactInv'
<1> DEFINE t == [task[c] EXCEPT !.at = at]
<1>1. /\ task[c] \in Compact /\ task \in [Compactor -> Compact] /\ begun' \in 0..MaxRuns
      /\ task[c].at # "idle"
    BY DEF CompactInv, CompactTyped, Chosen
<1>2. /\ t \in Compact /\ t.at = at /\ t.count = task[c].count /\ t.read = task[c].read
      /\ t.from = task[c].from /\ t.trigger = task[c].trigger
    BY <1>1 DEF Compact, Chosen
<1>3. task' = [task EXCEPT ![c] = t]
    BY <1>1 DEF To
<1> HIDE DEF t
<1> QED BY <1>1, <1>2, <1>3, CompactMoves DEF CompactInv, ChosenExists

LEMMA BeginKeeps ==
    ASSUME CompactInv, CompactionAssumption, NEW c \in Compactor,
           NEW trigger \in {"auto", "manual"}, NEW dry \in BOOLEAN, Begin(c, trigger, dry)
    PROVE  CompactInv'
<1> DEFINE t == [Idle EXCEPT !.at = "read", !.trigger = trigger, !.dry = dry]
<1>5. Idle \in Compact
    BY DEF Idle, Compact, CompactionAssumption
<1>1. t \in Compact /\ t.at = "read" /\ t.trigger = trigger
    BY <1>5 DEF Compact
<1>2. begun' \in 0..MaxRuns
    BY DEF Begin, CompactInv, CompactTyped, CompactionAssumption
<1>3. trigger = "auto" => failures < MaxFailures
    BY DEF Begin, ShouldAutoCompact
<1>4. task' = [task EXCEPT ![c] = t] /\ UNCHANGED << raw, edition, segments, failures, raced >>
    BY DEF Begin
<1> HIDE DEF t
<1> QED BY <1>1, <1>2, <1>3, <1>4, CompactMoves DEF Chosen

LEMMA ReadKeeps ==
    ASSUME CompactInv, CompactionAssumption, NEW c \in Compactor, Read(c)
    PROVE  CompactInv'
<1>1. /\ task[c] \in Compact /\ task \in [Compactor -> Compact] /\ begun' \in 0..MaxRuns
      /\ task[c].at = "read" /\ UNCHANGED << raw, edition, segments, begun, raced >>
      /\ edition \in 0..MaxEdition
    BY DEF Read, CompactInv, CompactTyped
<1>2. CASE Fail(c)
    BY <1>1, <1>2, FailKeeps
<1>3. ASSUME NEW n \in 1..Tail_, UNCHANGED failures,
             task' = [task EXCEPT ![c] = [@ EXCEPT !.at = "summarize", !.from = Covered,
                                                   !.count = n, !.read = Tail_,
                                                   !.edition = edition]]
      PROVE  CompactInv'
    <2> DEFINE t == [task[c] EXCEPT !.at = "summarize", !.from = Covered, !.count = n,
                                    !.read = Tail_, !.edition = edition]
    <2>1. Tail_ \in 0..MaxRaw /\ Covered \in 0..MaxRaw /\ Covered + Tail_ = raw /\ MaxRaw \in Nat
        BY CoveredTyped DEF CompactionAssumption
    <2>2. n \in 0..MaxRaw /\ 1 <= n /\ n <= Tail_ /\ Covered + Tail_ <= raw
        BY <2>1 DEF CompactInv, CompactTyped
    <2>3. /\ t \in Compact /\ t.at = "summarize" /\ t.count = n /\ t.read = Tail_
          /\ t.from = Covered /\ t.trigger = task[c].trigger
        BY <1>1, <2>1, <2>2 DEF Compact
    <2>4. task' = [task EXCEPT ![c] = t]
        BY <1>1, <1>3
    <2>5. t.count <= t.read /\ 1 <= t.count /\ t.from + t.read <= raw
        BY <2>2, <2>3
    <2>6. t.trigger = "auto" => task[c].at # "idle" /\ task[c].trigger = "auto"
        BY <1>1, <2>3
    <2> HIDE DEF t
    <2> QED BY <1>1, <1>3, <2>3, <2>4, <2>5, <2>6, CompactMoves
<1> QED BY <1>2, <1>3 DEF Read

\* Where nothing changed since the check, the new boundary begins where the last
\* one ends and stands for messages as they are.
LEMMA AppendKeeps ==
    ASSUME CompactInv, CompactionAssumption, NEW c \in Compactor, Append_(c)
    PROVE  CompactInv'
<1> DEFINE t == task[c]
           s == [from |-> t.from, to |-> t.from + t.count, fresh |-> t.edition = edition]
           r == [t EXCEPT !.at = "save"]
<1>1. /\ t \in Compact /\ t.at = "append" /\ task \in [Compactor -> Compact]
      /\ segments \in Seq(Segment) /\ raw \in 0..MaxRaw /\ MaxRaw \in Nat
      /\ failures \in Nat
    BY DEF Append_, CompactInv, CompactTyped, CompactionAssumption
<1>2. 1 <= t.count /\ t.count <= t.read /\ t.from + t.read <= raw
    BY <1>1 DEF CompactInv, ChosenExists, Chosen
<1>3. t.from \in 0..MaxRaw /\ t.count \in 0..MaxRaw /\ t.read \in 0..MaxRaw
    BY <1>1 DEF Compact
<1>4. s \in Segment /\ t.from < s.to /\ s.to <= raw
    BY <1>1, <1>2, <1>3 DEF Segment
<1>5. /\ segments' = Append(segments, s) /\ raced' = (raced \/ ~Unchanged(t))
      /\ task' = [task EXCEPT ![c] = r] /\ UNCHANGED << raw, edition, failures, begun >>
    BY <1>1 DEF Append_, To
<1>6. /\ segments' \in Seq(Segment) /\ Len(segments') = Len(segments) + 1
      /\ Len(segments) \in Nat /\ segments'[Len(segments) + 1] = s
      /\ \A i \in 1..Len(segments) : segments'[i] = segments[i]
    <2> HIDE DEF s
    <2> QED BY <1>1, <1>4, <1>5
<1>7. /\ r \in Compact /\ task'[c] = r /\ r.at = "save" /\ r.trigger = t.trigger
      /\ \A d \in Compactor : d # c => task'[d] = task[d]
    BY <1>1, <1>5 DEF Compact
<1>8. CompactTyped'
    <2>1. raced' \in BOOLEAN
        BY <1>5
    <2> HIDE DEF r, s
    <2> QED BY <1>1, <1>5, <1>6, <1>7, <2>1 DEF CompactInv, CompactTyped
<1>9. ChosenExists'
    <2> HIDE DEF r, s
    <2> QED BY <1>5, <1>7 DEF CompactInv, ChosenExists, Chosen
<1>10. BoundariesExist'
    BY <1>4, <1>5, <1>6 DEF CompactInv, BoundariesExist
<1>11. SegmentsTileHistory'
    <2> HIDE DEF r, s, t
    <2>3. DOMAIN segments' = 1..Len(segments') /\ raw' = raw
        BY <1>5, <1>6
    <2> SUFFICES ASSUME ~raced, Unchanged(t), NEW i \in 1..Len(segments')
                 PROVE  /\ segments'[i].from = (IF i = 1 THEN 0 ELSE segments'[i - 1].to)
                        /\ segments'[i].from < segments'[i].to /\ segments'[i].to <= raw
                        /\ segments'[i].fresh
        BY <1>5, <2>3, ZenonT(40) DEF SegmentsTileHistory
    <2>1. CASE i <= Len(segments)
        <3>1. i \in DOMAIN segments /\ segments'[i] = segments[i]
              /\ (i # 1 => segments'[i - 1] = segments[i - 1])
            BY <1>1, <1>6, <2>1
        <3> QED BY <3>1 DEF CompactInv, SegmentsTileHistory
    <2>2. CASE i = Len(segments) + 1
        <3>1. segments = << >> <=> Len(segments) = 0
            BY <1>1
        <3>2. t.from = (IF i = 1 THEN 0 ELSE segments'[i - 1].to)
            BY <1>6, <2>2, <3>1 DEF Unchanged, Covered
        <3>3. s.fresh /\ s.from = t.from
            BY DEF Unchanged, s
        <3> QED BY <1>4, <1>6, <2>2, <3>2, <3>3
    <2> QED BY <1>6, <2>1, <2>2
<1>12. FailuresBounded'
    <2>1. Autos' = Autos
        <3> HIDE DEF r
        <3> QED BY <1>1, <1>7 DEF Autos
    <2> QED BY <1>5, <2>1 DEF CompactInv, FailuresBounded
<1> QED BY <1>8, <1>9, <1>10, <1>11, <1>12 DEF CompactInv

LEMMA CompactStep ==
    ASSUME CompactInv, CompactionAssumption, [CompactNext]_compactVars PROVE CompactInv'
<1>1. ASSUME NEW c \in Compactor, NEW trigger \in {"auto", "manual"}, NEW dry \in BOOLEAN,
             Begin(c, trigger, dry)
      PROVE  CompactInv'
    BY <1>1, BeginKeeps
<1>2. ASSUME NEW c \in Compactor, Read(c) PROVE CompactInv'
    BY <1>2, ReadKeeps
<1>3. ASSUME NEW c \in Compactor, Summarize(c) \/ Backup(c) \/ Check(c) \/ Save(c)
      PROVE  CompactInv'
    <2>1. task[c].at # "idle" /\ UNCHANGED << raw, edition, segments, begun, raced >>
        BY <1>3 DEF Summarize, Backup, Check, Save
    <2>2. CASE Fail(c)
        BY <2>1, <2>2, FailKeeps
    <2>3. CASE Succeed(c)
        BY <2>1, <2>3, SucceedKeeps
    <2>4. CASE ~ Fail(c) /\ ~ Succeed(c)
        <3>1. /\ task[c].at \in Chosen /\ UNCHANGED failures
              /\ \E at \in {"backup", "check", "append"} : To(c, at)
            BY <1>3, <2>4 DEF Summarize, Backup, Check, Save, Chosen
        <3> QED BY <2>1, <3>1, ToKeeps DEF Chosen
    <2> QED BY <2>2, <2>3, <2>4
<1>4. ASSUME NEW c \in Compactor, Append_(c) PROVE CompactInv'
    BY <1>4, AppendKeeps
<1>5. CASE AddMessage \/ Rewrite \/ UNCHANGED compactVars
    <2>1. /\ UNCHANGED << segments, task, failures, begun, raced >>
          /\ raw' \in 0..MaxRaw /\ edition' \in 0..MaxEdition /\ raw <= raw'
          /\ raw \in Nat /\ raw' \in Nat
        BY <1>5 DEF AddMessage, Rewrite, compactVars, CompactInv, CompactTyped,
                    CompactionAssumption
    <2>2. CompactTyped'
        BY <2>1 DEF CompactInv, CompactTyped
    <2>7. FailuresBounded'
        <3>1. Autos' = Autos
            BY <2>1 DEF Autos
        <3> QED BY <2>1, <3>1 DEF CompactInv, FailuresBounded
    <2>3. \A i \in 1..Len(segments) : segments[i].to \in Nat
        <3>1. \A i \in 1..Len(segments) : segments[i] \in Segment
            BY DEF CompactInv, CompactTyped
        <3> QED BY <3>1 DEF Segment
    <2>4. BoundariesExist'
        BY <2>1, <2>3 DEF CompactInv, BoundariesExist
    <2>5. ChosenExists'
        <3>1. \A c \in Compactor : task[c].from + task[c].read \in Nat
            BY DEF CompactInv, CompactTyped, Compact
        <3> QED BY <2>1, <3>1 DEF CompactInv, ChosenExists
    <2>6. SegmentsTileHistory'
        <3>1. DOMAIN segments = 1..Len(segments)
            BY DEF CompactInv, CompactTyped
        <3> QED BY <2>1, <2>3, <3>1 DEF CompactInv, SegmentsTileHistory
    <2> QED BY <2>2, <2>4, <2>5, <2>6, <2>7 DEF CompactInv
<1> QED BY <1>1, <1>2, <1>3, <1>4, <1>5 DEF CompactNext

LEMMA CompactInvariance == ASSUME CompactionAssumption PROVE CompactSpec => []CompactInv
<1>1. CompactInit => CompactInv
    <2> SUFFICES ASSUME CompactInit PROVE CompactInv
        OBVIOUS
    <2>1. Idle \in Compact /\ Idle.at = "idle"
        BY DEF Idle, Compact, CompactionAssumption
    <2>2. CompactTyped
        <3>1. << >> \in Seq(Segment)
            OBVIOUS
        <3>2. /\ segments \in Seq(Segment) /\ task \in [Compactor -> Compact]
              /\ raced \in BOOLEAN
            BY <2>1, <3>1 DEF CompactInit
        <3> QED BY <3>2 DEF CompactInit, CompactTyped, CompactionAssumption
    <2>3. ChosenExists /\ BoundariesExist /\ SegmentsTileHistory
        BY <2>1 DEF CompactInit, ChosenExists, BoundariesExist, SegmentsTileHistory, Chosen
    <2>4. FailuresBounded
        <3>1. Autos = {} /\ failures = 0
            BY <2>1 DEF CompactInit, Autos
        <3>2. Cardinality(Autos) = 0 /\ Cardinality(Compactor) \in Nat
            BY <3>1, FS_EmptySet, AutosFinite
        <3> QED BY <3>1, <3>2 DEF FailuresBounded, CompactionAssumption
    <2> QED BY <2>2, <2>3, <2>4 DEF CompactInv
<1>2. CompactInv /\ [CompactNext]_compactVars => CompactInv'
    BY CompactStep
<1> QED BY <1>1, <1>2, PTL DEF CompactSpec

\* Every variable of the compaction has its type; in particular the failures
\* counted stay below the limit plus the compactions that began under it.
THEOREM CompactTypeCorrect == ASSUME CompactionAssumption PROVE CompactSpec => []CompactTypeOK
<1>1. CompactInv => CompactTypeOK
    <2>1. CompactInv => failures <= MaxFailures + Cardinality(Compactor) - 1
        BY AutosFinite DEF CompactInv, CompactTyped, FailuresBounded, CompactionAssumption
    <2> QED BY <2>1, AutosFinite DEF CompactInv, CompactTyped, CompactTypeOK, Segment, Compact,
            CompactionAssumption
<1> QED BY <1>1, CompactInvariance, PTL

\* The boundaries tile the history: each begins where the last one ends and
\* stands for messages that are still the ones it summarizes, unless the session
\* changed in the moment between the last check and the append
\* (compactSessionFn).
THEOREM BoundariesTileHistory ==
    ASSUME CompactionAssumption PROVE CompactSpec => []SegmentsTileHistory
<1>1. CompactInv => SegmentsTileHistory
    BY DEF CompactInv
<1> QED BY <1>1, CompactInvariance, PTL

-----------------------------------------------------------------------------
(* ModelConfig.                                                            *)

\* A copy of the catalog about to replace it has every model discovered before
\* the copying began.
CopiesAreFull ==
    /\ ever \ dropping \subseteq found
    /\ \A c \in Changer : change[c].at = "swap" => ever \ dropping \subseteq change[c].copied

\* Configuration k is the one that answers.
Answers(k) == live = [provider |-> k.model, model |-> k.model]

\* While saved and live are not known to be apart, one change at most is under
\* way, and it knows how to bring them together again: what it saved it will
\* apply, and what it would take back still answers.
Converging ==
    ~ apart =>
        /\ \A c, d \in Changing : c = d
        /\ Changing = {} => Answers(saved)
        /\ \A c \in Changing :
              /\ change[c].at = "save" => Answers(saved) /\ change[c].old = NoConfig
              /\ change[c].at \in {"apply", "swap"} =>
                    IF change[c].persist THEN change[c].next.model = saved.model
                                         ELSE Answers(saved)
              /\ change[c].at \in {"apply", "restore"} /\ change[c].old # NoConfig =>
                    Answers(change[c].old)

\* A change under way has a configuration to apply, and one to take back if it
\* is to do that.
ChangesHaveTargets ==
    \A c \in Changer :
        /\ change[c].at # "idle" => change[c].next \in Config
        /\ change[c].at = "save" => change[c].persist
        /\ change[c].at = "restore" => change[c].old # NoConfig

ModelInv == ModelTypeOK /\ ChangesHaveTargets /\ CopiesAreFull /\ Converging

ChangeRecord == [at: {"idle", "save", "apply", "swap", "restore"},
            next: MaybeConfig, old: MaybeConfig, persist: BOOLEAN,
            copied: SUBSET (Model \ Known)]

LEMMA RecordsTyped ==
    ASSUME ModelAssumption
    PROVE  /\ IdleChange \in ChangeRecord /\ IdleChange.at = "idle"
           /\ IdleChange.old = NoConfig /\ NoConfig \notin Config
           /\ IdleOf \in [at: {"idle", "base", "routed", "ready", "gated", "packed"},
                          provider: Model \cup {NoModel}, model: Model \cup {NoModel},
                          images: Vision, tools: Vision, packed: Vision]
BY DEF ModelAssumption, IdleChange, ChangeRecord, MaybeConfig, NoConfig, Config, IdleOf, Vision

\* A change begins: it is the only one, or the two are apart from now on.
LEMMA BeginsKeeps ==
    ASSUME ModelInv, ModelAssumption, NEW c \in Changer, NEW r \in ChangeRecord, Begins(c, r),
           saved' \in Config, edited' \in MaybeConfig, apart' = (apart \/ Changing # {}),
           UNCHANGED << live, found, turnOf, setbacks, ever, dropping >>,
           r.at \in {"save", "apply"}, r.next \in Config,
           r.at = "save" => saved' = saved /\ r.old = NoConfig /\ r.persist,
           r.at = "apply" => IF r.persist THEN r.next.model = saved'.model ELSE saved' = saved,
           r.old # NoConfig => r.old = saved
    PROVE  ModelInv'
<1>1. /\ change \in [Changer -> ChangeRecord] /\ change' = [change EXCEPT ![c] = r]
      /\ change[c].at = "idle" /\ changes' \in 0..MaxChanges /\ apart \in BOOLEAN
    BY DEF Begins, ModelInv, ModelTypeOK, ChangeRecord, ModelAssumption
<1>2. change'[c] = r /\ \A d \in Changer : d # c => change'[d] = change[d]
    BY <1>1
<1>3. ModelTypeOK'
    BY <1>1 DEF ModelInv, ModelTypeOK, ChangeRecord
<1>4. CopiesAreFull' /\ ChangesHaveTargets'
    BY <1>2 DEF ModelInv, CopiesAreFull, ChangesHaveTargets
<1>5. Converging'
    <2> SUFFICES ASSUME ~ apart, Changing = {} PROVE Converging'
        BY DEF Converging
    <2>1. Changing' = {c} /\ Answers(saved)
        BY <1>2 DEF Changing, ModelInv, Converging
    <2>2. r.at = "save" => Answers(saved)'
        BY <2>1 DEF Answers
    <2>3. r.at = "apply" => IF r.persist THEN r.next.model = saved'.model ELSE Answers(saved)'
        BY <2>1 DEF Answers
    <2>4. r.old # NoConfig => Answers(r.old)'
        BY <2>1 DEF Answers
    <2> QED BY <1>2, <2>1, <2>2, <2>3, <2>4 DEF Converging, Answers
<1> QED BY <1>3, <1>4, <1>5 DEF ModelInv

\* A change that goes on, or ends, is still the only one.
LEMMA AdvanceKeeps ==
    ASSUME ModelInv, ModelAssumption, NEW c \in Changer, change[c].at # "idle",
           NEW r \in ChangeRecord, change' = [change EXCEPT ![c] = r],
           saved' \in Config, edited' \in MaybeConfig, setbacks' \in 0..MaxSetbacks,
           live' \in [provider: Model, model: Model], apart' \in BOOLEAN, apart => apart',
           found' \subseteq Model \ Known, ever \ dropping \subseteq found',
           UNCHANGED << turnOf, changes, ever, dropping >>,
           r.at # "idle" => r.next \in Config, r.at = "save" => r.persist,
           r.at = "restore" => r.old # NoConfig,
           r.at = "swap" => ever \ dropping \subseteq r.copied,
           ~ apart' =>
              /\ r.at = "idle" => Answers(saved)'
              /\ r.at = "save" => Answers(saved)' /\ r.old = NoConfig
              /\ r.at \in {"apply", "swap"} =>
                    IF r.persist THEN r.next.model = saved'.model ELSE Answers(saved)'
              /\ r.at \in {"apply", "restore"} /\ r.old # NoConfig => Answers(r.old)'
    PROVE  ModelInv'
<1>1. /\ change \in [Changer -> ChangeRecord] /\ c \in Changing
      /\ change'[c] = r /\ \A d \in Changer : d # c => change'[d] = change[d]
    BY DEF ModelInv, ModelTypeOK, ChangeRecord, Changing
<1>2. ModelTypeOK'
    BY DEF ModelInv, ModelTypeOK, ChangeRecord
<1>3. ChangesHaveTargets' /\ CopiesAreFull'
    BY <1>1 DEF ModelInv, ChangesHaveTargets, CopiesAreFull
<1>4. Converging'
    <2> SUFFICES ASSUME ~ apart' PROVE Converging'
        BY DEF Converging
    <2>1. Changing = {c}
        BY <1>1 DEF ModelInv, Converging
    <2>2. Changing' = IF r.at = "idle" THEN {} ELSE {c}
        BY <1>1, <2>1 DEF Changing
    <2> QED BY <1>1, <2>2 DEF Converging, Answers
<1> QED BY <1>2, <1>3, <1>4 DEF ModelInv

\* What is known of a change under way while nothing is apart.
LEMMA UnderWay ==
    ASSUME ModelInv, NEW c \in Changer, change[c].at # "idle"
    PROVE  /\ change[c] \in ChangeRecord /\ change \in [Changer -> ChangeRecord]
           /\ change[c].next \in Config /\ saved \in Config /\ edited \in MaybeConfig
           /\ setbacks \in 0..MaxSetbacks /\ live \in [provider: Model, model: Model]
           /\ apart \in BOOLEAN /\ found \subseteq Model \ Known
           /\ ever \ dropping \subseteq found
           /\ change[c].at = "swap" => ever \ dropping \subseteq change[c].copied
           /\ change[c].at = "save" => change[c].persist
           /\ change[c].old \in MaybeConfig
           /\ change[c].at = "restore" => change[c].old # NoConfig
           /\ ~ apart =>
              /\ change[c].at = "save" => Answers(saved) /\ change[c].old = NoConfig
              /\ change[c].at \in {"apply", "swap"} =>
                    IF change[c].persist THEN change[c].next.model = saved.model
                                         ELSE Answers(saved)
              /\ change[c].at \in {"apply", "restore"} /\ change[c].old # NoConfig =>
                    Answers(change[c].old)
BY DEF ModelInv, ModelTypeOK, ChangeRecord, ChangesHaveTargets, CopiesAreFull, Converging, Changing

LEMMA SaveKeeps ==
    ASSUME ModelInv, ModelAssumption, NEW c \in Changer, SaveSelection(c) PROVE ModelInv'
<1> DEFINE k == change[c]
           r == [k EXCEPT !.at = "apply"]
<1>1. k.at = "save" /\ UNCHANGED << live, found, turnOf, changes, apart, ever, dropping >>
    BY DEF SaveSelection
<1>2. CASE saved' = k.next /\ edited' = NoConfig /\ Advances(c, "apply") /\ UNCHANGED setbacks
    <2>1. /\ r \in ChangeRecord /\ r.at = "apply" /\ r.next = k.next /\ r.old = k.old
          /\ r.persist = k.persist
        BY <1>1, UnderWay DEF ChangeRecord
    <2>2. change' = [change EXCEPT ![c] = r]
        BY <1>1, <1>2, UnderWay DEF Advances
    <2>3. edited' \in MaybeConfig
        BY <1>2 DEF MaybeConfig
    <2>4. k.persist /\ (~ apart => k.old = NoConfig)
        BY <1>1, UnderWay
    <2> HIDE DEF r
    <2> QED BY <1>1, <1>2, <2>1, <2>2, <2>3, <2>4, UnderWay, AdvanceKeeps
<1>3. CASE Setback /\ Ends(c) /\ UNCHANGED << saved, edited >>
    <2>1. setbacks' \in 0..MaxSetbacks
        BY <1>1, <1>3, UnderWay DEF Setback, ModelAssumption
    <2>2. ~ apart => Answers(saved)'
        BY <1>1, <1>3, UnderWay DEF Answers
    <2> QED BY <1>1, <1>3, <2>1, <2>2, UnderWay, RecordsTyped, AdvanceKeeps DEF Ends
<1> QED BY <1>2, <1>3 DEF SaveSelection

LEMMA CopyKeeps ==
    ASSUME ModelInv, ModelAssumption, NEW c \in Changer, CopyCatalog(c) PROVE ModelInv'
<1> DEFINE k == change[c]
<1>1. /\ k.at = "apply"
      /\ UNCHANGED << saved, edited, live, found, turnOf, changes, ever, dropping >>
    BY DEF CopyCatalog
<1>2. \A g : Answers(g)' = Answers(g)
    BY <1>1 DEF Answers
<1>3. CASE /\ change' = [change EXCEPT ![c].at = "swap", ![c].copied = found]
           /\ UNCHANGED << setbacks, apart >>
    <2> DEFINE r == [k EXCEPT !.at = "swap", !.copied = found]
    <2>1. /\ r \in ChangeRecord /\ r.at = "swap" /\ r.next = k.next /\ r.copied = found
          /\ r.persist = k.persist
        BY <1>1, UnderWay DEF ChangeRecord
    <2>2. change' = [change EXCEPT ![c] = r]
        BY <1>1, <1>3, UnderWay
    <2>3. ~ apart => IF r.persist THEN r.next.model = saved'.model ELSE Answers(saved)'
        BY <1>1, <2>1, UnderWay DEF Answers
    <2> HIDE DEF r
    <2> QED BY <1>1, <1>3, <2>1, <2>2, <2>3, UnderWay, AdvanceKeeps, ZenonT(40)
<1>4. CASE Setback /\ k.old = NoConfig /\ Ends(c) /\ apart' = (apart \/ k.persist)
    <2>1. setbacks' \in 0..MaxSetbacks
        BY <1>1, <1>4, UnderWay DEF Setback, ModelAssumption
    <2>2. apart' \in BOOLEAN /\ (apart => apart')
        BY <1>4
    <2>3. ~ apart' => Answers(saved)'
        BY <1>1, <1>4, UnderWay DEF Answers
    <2> QED BY <1>1, <1>4, <2>1, <2>2, <2>3, UnderWay, RecordsTyped, AdvanceKeeps DEF Ends
<1>5. CASE Setback /\ k.old # NoConfig /\ Advances(c, "restore") /\ UNCHANGED apart
    <2>6. [k EXCEPT !.at = "restore"] \in ChangeRecord
        BY <1>1, UnderWay DEF ChangeRecord
    <2>1. PICK r \in ChangeRecord : /\ r = [k EXCEPT !.at = "restore"]
                                    /\ r.at = "restore" /\ r.next = k.next /\ r.old = k.old
        BY <1>1, <2>6, UnderWay DEF ChangeRecord
    <2>2. change' = [change EXCEPT ![c] = r]
        BY <1>1, <1>5, <2>1, UnderWay DEF Advances
    <2>3. setbacks' \in 0..MaxSetbacks
        BY <1>1, <1>5, UnderWay DEF Setback, ModelAssumption
    <2>4. ~ apart => Answers(r.old)'
        BY <1>1, <1>2, <1>5, <2>1, UnderWay DEF Answers
    <2> QED BY <1>1, <1>5, <2>1, <2>2, <2>3, <2>4, UnderWay, AdvanceKeeps
<1> QED BY <1>3, <1>4, <1>5 DEF CopyCatalog

LEMMA SwapKeeps ==
    ASSUME ModelInv, ModelAssumption, NEW c \in Changer, Swap(c) PROVE ModelInv'
<1> DEFINE k == change[c]
<1>1. /\ k.at = "swap" /\ Ends(c) /\ found' = k.copied /\ apart' = (apart \/ ~ k.persist)
      /\ live' = [provider |-> k.next.model, model |-> k.next.model]
      /\ UNCHANGED << saved, edited, turnOf, changes, setbacks, ever, dropping >>
    BY DEF Swap
<1>2. live' \in [provider: Model, model: Model] /\ found' \subseteq Model \ Known
    BY <1>1, UnderWay DEF Config, ChangeRecord
<1>3. apart' \in BOOLEAN /\ (apart => apart')
    BY <1>1
<1>4. ~ apart' => Answers(saved)'
    <2>1. ~ apart' => k.persist /\ ~ apart
        BY <1>1
    <2>2. ~ apart' => k.next.model = saved.model
        BY <1>1, <2>1, UnderWay
    <2> QED BY <1>1, <2>2 DEF Answers
<1> QED BY <1>1, <1>2, <1>3, <1>4, UnderWay, RecordsTyped, AdvanceKeeps DEF Ends

LEMMA RestoreKeeps ==
    ASSUME ModelInv, ModelAssumption, NEW c \in Changer, Restore(c) PROVE ModelInv'
<1> DEFINE k == change[c]
           r == [k EXCEPT !.at = "apply", !.next = k.old, !.old = NoConfig]
<1>1. k.at = "restore" /\ UNCHANGED << live, found, turnOf, changes, ever, dropping >>
    BY DEF Restore
<1>2. k.old \in Config
    BY <1>1, UnderWay DEF MaybeConfig
<1>3. CASE /\ saved' = k.old /\ edited' = NoConfig /\ UNCHANGED << setbacks, apart >>
           /\ change' = [change EXCEPT ![c].at = "apply", ![c].next = change[c].old,
                                       ![c].old = NoConfig]
    <2>1. /\ r \in ChangeRecord /\ r.at = "apply" /\ r.next = k.old /\ r.old = NoConfig
          /\ r.persist = k.persist
        BY <1>1, UnderWay DEF ChangeRecord, MaybeConfig
    <2>2. change' = [change EXCEPT ![c] = r]
        BY <1>1, <1>3, UnderWay
    <2>3. edited' \in MaybeConfig /\ saved' \in Config
        BY <1>2, <1>3 DEF MaybeConfig
    <2>4. ~ apart => Answers(saved)'
        BY <1>1, <1>3, UnderWay DEF Answers
    <2>5. r.next.model = saved'.model
        BY <1>3, <2>1
    <2>6. /\ setbacks' \in 0..MaxSetbacks /\ live' \in [provider: Model, model: Model]
          /\ apart' \in BOOLEAN /\ (apart => apart') /\ found' \subseteq Model \ Known
          /\ ever \ dropping \subseteq found'
        BY <1>1, <1>3, UnderWay
    <2> HIDE DEF r
    <2> QED BY <1>1, <1>2, <1>3, <2>1, <2>2, <2>3, <2>4, <2>5, <2>6, AdvanceKeeps
<1>4. CASE Setback /\ Ends(c) /\ apart' = TRUE /\ UNCHANGED << saved, edited >>
    <2>1. setbacks' \in 0..MaxSetbacks
        BY <1>1, <1>4, UnderWay DEF Setback, ModelAssumption
    <2> QED BY <1>1, <1>4, <2>1, UnderWay, RecordsTyped, AdvanceKeeps DEF Ends
<1> QED BY <1>3, <1>4 DEF Restore

LEMMA BeginKeepsModel ==
    ASSUME ModelInv, ModelAssumption, NEW c \in Changer,
           ReloadConfig(c) \/ \E m \in Model, persist \in BOOLEAN : SwitchModelKind(c, m, persist)
    PROVE  ModelInv'
<1>1. saved \in Config /\ edited \in MaybeConfig /\ found \subseteq Model
    BY DEF ModelInv, ModelTypeOK
<1>2. CASE ReloadConfig(c)
    <2> DEFINE r == [at |-> "apply", next |-> edited, old |-> saved, persist |-> TRUE,
                     copied |-> {}]
    <2>1. edited \in Config
        BY <1>1, <1>2 DEF ReloadConfig, MaybeConfig
    <2>2. r \in ChangeRecord
        BY <1>1, <2>1 DEF ChangeRecord, MaybeConfig
    <2>3. Begins(c, r) /\ saved' = edited /\ edited' = NoConfig
          /\ apart' = (apart \/ Changing # {})
          /\ UNCHANGED << live, found, turnOf, setbacks, ever, dropping >>
        BY <1>2 DEF ReloadConfig
    <2>4. edited' \in MaybeConfig
        BY <2>3 DEF MaybeConfig
    <2>5. r.at = "apply" /\ r.next = edited /\ r.persist /\ r.old = saved
        OBVIOUS
    <2> HIDE DEF r
    <2> QED BY <2>1, <2>2, <2>3, <2>4, <2>5, BeginsKeeps
<1>3. ASSUME NEW m \in Model, NEW persist \in BOOLEAN, SwitchModelKind(c, m, persist)
      PROVE  ModelInv'
    <2> DEFINE n == [saved EXCEPT !.model = m]
               r == [at |-> IF persist THEN "save" ELSE "apply", next |-> n, old |-> NoConfig,
                     persist |-> persist, copied |-> {}]
    <2>1. n \in Config
        BY <1>1 DEF Config
    <2> HIDE DEF n
    <2>2. r \in ChangeRecord
        BY <2>1 DEF ChangeRecord, MaybeConfig
    <2>3. Begins(c, r) /\ apart' = (apart \/ Changing # {})
          /\ UNCHANGED << saved, edited, live, found, turnOf, setbacks, ever, dropping >>
        BY <1>3 DEF SwitchModelKind, n
    <2>4. /\ r.at = (IF persist THEN "save" ELSE "apply") /\ r.next = n /\ r.old = NoConfig
          /\ r.persist = persist
        OBVIOUS
    <2> HIDE DEF r
    <2> QED BY <1>1, <2>1, <2>2, <2>3, <2>4, BeginsKeeps
<1> QED BY <1>2, <1>3

\* A turn reads what the changes write, and writes nothing of it.
LEMMA TurnKeeps ==
    ASSUME ModelInv, ModelAssumption, NEW t \in TurnId,
           \/ BaseSnapshot(t) \/ RouteTurn(t) \/ GateImages(t) \/ PackImages(t) \/ TurnEnds(t)
           \/ \E light \in BOOLEAN : ForProfile(t, light)
    PROVE  ModelInv'
<1> DEFINE TurnRecord == [at: {"idle", "base", "routed", "ready", "gated", "packed"},
                          provider: Model \cup {NoModel}, model: Model \cup {NoModel},
                          images: Vision, tools: Vision, packed: Vision]
<1>1. UNCHANGED << saved, edited, live, found, change, changes, setbacks, apart, ever, dropping >>
    BY DEF BaseSnapshot, RouteTurn, ForProfile, GateImages, PackImages, TurnEnds
<1>2. turnOf' \in [TurnId -> TurnRecord]
    <2>1. /\ turnOf \in [TurnId -> TurnRecord] /\ turnOf[t] \in TurnRecord /\ saved.model \in Model
          /\ live.provider \in Model /\ live.model \in Model /\ Known \subseteq Model
        BY DEF ModelInv, ModelTypeOK, Config, ModelAssumption
    <2>2. \A s \in TurnRecord : SupportsImages(s) \in Vision
        BY DEF SupportsImages, Vision
    <2>3. CASE BaseSnapshot(t)
        <3>1. [IdleOf EXCEPT !.at = "base", !.provider = live.provider, !.model = live.model]
                 \in TurnRecord
            BY <2>1, RecordsTyped
        <3> QED BY <2>1, <2>3, <3>1 DEF BaseSnapshot
    <2>4. CASE RouteTurn(t)
        <3>1. PICK m \in Known \cup {turnOf[t].model} :
                 LET s == IF m = turnOf[t].model THEN turnOf[t]
                          ELSE [turnOf[t] EXCEPT !.provider = m, !.model = m]
                 IN  turnOf' = [turnOf EXCEPT ![t] = [s EXCEPT !.at = "routed",
                                                          !.images = SupportsImages(s)]]
            BY <2>4 DEF RouteTurn
        <3> DEFINE s == IF m = turnOf[t].model THEN turnOf[t]
                        ELSE [turnOf[t] EXCEPT !.provider = m, !.model = m]
        <3>2. s \in TurnRecord
            BY <2>1
        <3>3. turnOf' = [turnOf EXCEPT ![t] = [s EXCEPT !.at = "routed",
                                                   !.images = SupportsImages(s)]]
            BY <3>1
        <3> HIDE DEF s
        <3>4. SupportsImages(s) \in Vision
            BY <2>2, <3>2
        <3>5. [s EXCEPT !.at = "routed", !.images = SupportsImages(s)] \in TurnRecord
            BY <3>2, <3>4
        <3> QED BY <2>1, <3>3, <3>5
    <2>5. CASE \E light \in BOOLEAN : ForProfile(t, light)
        <3>1. "unset" \in Vision
            BY DEF Vision
        <3>2. /\ [turnOf[t] EXCEPT !.at = "ready", !.provider = saved.model, !.images = "unset"]
                    \in TurnRecord
              /\ [turnOf[t] EXCEPT !.at = "ready"] \in TurnRecord
            BY <2>1, <3>1
        <3> QED BY <2>1, <2>5, <3>2 DEF ForProfile
    <2>6. CASE GateImages(t)
        <3>1. [turnOf[t] EXCEPT !.at = "gated", !.tools = SupportsImages(turnOf[t])] \in TurnRecord
            BY <2>1, <2>2
        <3>2. turnOf' = [turnOf EXCEPT ![t] =
                  [turnOf[t] EXCEPT !.at = "gated", !.tools = SupportsImages(turnOf[t])]]
            BY <2>1, <2>6 DEF GateImages
        <3> QED BY <2>1, <3>1, <3>2
    <2>7. CASE PackImages(t)
        <3>1. [turnOf[t] EXCEPT !.at = "packed", !.packed = SupportsImages(turnOf[t])] \in TurnRecord
            BY <2>1, <2>2
        <3>2. turnOf' = [turnOf EXCEPT ![t] =
                  [turnOf[t] EXCEPT !.at = "packed", !.packed = SupportsImages(turnOf[t])]]
            BY <2>1, <2>7 DEF PackImages
        <3> QED BY <2>1, <3>1, <3>2
    <2>8. CASE TurnEnds(t)
        BY <2>1, <2>8, RecordsTyped DEF TurnEnds
    <2> QED BY <2>3, <2>4, <2>5, <2>6, <2>7, <2>8
<1>3. ModelTypeOK'
    BY <1>1, <1>2 DEF ModelInv, ModelTypeOK
<1> QED BY <1>1, <1>3 DEF ModelInv, ChangesHaveTargets, CopiesAreFull, Converging, Answers, Changing

LEMMA ModelStep == ASSUME ModelInv, ModelAssumption, [ModelNext]_modelVars PROVE ModelInv'
<1>1. ASSUME NEW c \in Changer,
             \/ ReloadConfig(c)
             \/ \E m \in Model, persist \in BOOLEAN : SwitchModelKind(c, m, persist)
      PROVE  ModelInv'
    BY <1>1, BeginKeepsModel
<1>2. ASSUME NEW c \in Changer, SaveSelection(c) \/ CopyCatalog(c) \/ Swap(c) \/ Restore(c)
      PROVE  ModelInv'
    BY <1>2, SaveKeeps, CopyKeeps, SwapKeeps, RestoreKeeps
<1>3. CASE EditFile
    <2>1. edited' \in MaybeConfig
        BY <1>3 DEF EditFile, MaybeConfig
    <2> QED BY <1>3, <2>1 DEF EditFile, ModelInv, ModelTypeOK, ChangesHaveTargets, CopiesAreFull,
            Converging, Answers, Changing
<1>4. ASSUME NEW m \in Model, RefreshChatModels(m) PROVE ModelInv'
    <2>1. /\ UNCHANGED << saved, edited, live, change, turnOf, changes, setbacks, apart >>
          /\ found' = found \cup {m} /\ ever' = ever \cup {m} /\ m \notin Known
          /\ dropping' = IF \E c \in Changer : change[c].at = "swap" THEN dropping \cup {m}
                         ELSE dropping
        BY <1>4 DEF RefreshChatModels
    <2>2. ModelTypeOK'
        BY <2>1 DEF ModelInv, ModelTypeOK
    <2>3. CopiesAreFull'
        BY <2>1 DEF ModelInv, CopiesAreFull
    <2> QED BY <2>1, <2>2, <2>3 DEF ModelInv, ChangesHaveTargets, Converging, Answers, Changing
<1>5. ASSUME NEW t \in TurnId,
             \/ BaseSnapshot(t) \/ RouteTurn(t) \/ GateImages(t) \/ PackImages(t) \/ TurnEnds(t)
             \/ \E light \in BOOLEAN : ForProfile(t, light)
      PROVE  ModelInv'
    BY <1>5, TurnKeeps
<1>6. CASE UNCHANGED modelVars
    BY <1>6 DEF modelVars, ModelInv, ModelTypeOK, ChangesHaveTargets, CopiesAreFull, Converging,
                Answers, Changing
<1> QED BY <1>1, <1>2, <1>3, <1>4, <1>5, <1>6 DEF ModelNext

LEMMA ModelInvariance == ASSUME ModelAssumption PROVE ModelSpec => []ModelInv
<1>1. ModelInit => ModelInv
    <2> SUFFICES ASSUME ModelInit PROVE ModelInv
        OBVIOUS
    <2>1. PICK k \in Config : saved = k /\ live = [provider |-> k.model, model |-> k.model]
        BY DEF ModelInit
    <2>2. live \in [provider: Model, model: Model] /\ Answers(saved)
        BY <2>1 DEF Config, Answers
    <2>3. ModelTypeOK
        <3>1. change \in [Changer -> ChangeRecord] /\ edited \in MaybeConfig
            BY RecordsTyped DEF ModelInit, MaybeConfig
        <3>2. turnOf \in [TurnId -> [at: {"idle", "base", "routed", "ready", "gated", "packed"},
                          provider: Model \cup {NoModel}, model: Model \cup {NoModel},
                          images: Vision, tools: Vision, packed: Vision]]
            BY RecordsTyped DEF ModelInit
        <3>3. changes \in 0..MaxChanges /\ setbacks \in 0..MaxSetbacks
            BY DEF ModelInit, ModelAssumption
        <3>4. apart \in BOOLEAN
            BY DEF ModelInit
        <3> QED BY <2>1, <2>2, <3>1, <3>2, <3>3, <3>4 DEF ModelInit, ModelTypeOK, ChangeRecord
    <2>4. \A c \in Changer : change[c].at = "idle"
        BY RecordsTyped DEF ModelInit
    <2> QED BY <2>2, <2>3, <2>4
            DEF ModelInit, ModelInv, ChangesHaveTargets, CopiesAreFull, Converging, Changing
<1>2. ModelInv /\ [ModelNext]_modelVars => ModelInv'
    BY ModelStep
<1> QED BY <1>1, <1>2, PTL DEF ModelSpec

\* Every variable of the model configuration has its type.
THEOREM ModelTypeCorrect == ASSUME ModelAssumption PROVE ModelSpec => []ModelTypeOK
<1>1. ModelInv => ModelTypeOK
    BY DEF ModelInv
<1> QED BY <1>1, ModelInvariance, PTL

\* With no change under way the model that is saved is the one that answers:
\* failed saves and failed reloads leave both as they were (SwitchModelKind,
\* ReloadConfig).
THEOREM SavedModelAnswers == ASSUME ModelAssumption PROVE ModelSpec => []SavedIsActive
<1>1. ModelInv => SavedIsActive
    BY DEF ModelInv, Converging, Answers, SavedIsActive
<1> QED BY <1>1, ModelInvariance, PTL

\* A model discovered by a refresh outlives every later configuration, unless it
\* was discovered while a catalog was being copied (ApplyRuntimeConfig).
THEOREM DiscoveriesOutliveChanges == ASSUME ModelAssumption PROVE ModelSpec => []DiscoveredIsKept
<1>1. ModelInv => DiscoveredIsKept
    BY DEF ModelInv, CopiesAreFull, DiscoveredIsKept
<1> QED BY <1>1, ModelInvariance, PTL

-----------------------------------------------------------------------------
(* The journal: induction, over sets.                                      *)

\* A set that has zero and with every number the next has them all: else the
\* part of it below a number it lacks would have a proper part of its own size.
LEMMA SetInduction ==
    ASSUME NEW T, 0 \in T, \A n \in Nat : n \in T => n + 1 \in T
    PROVE  \A n \in Nat : n \in T
<1> SUFFICES ASSUME NEW m \in Nat, m \notin T PROVE FALSE
    OBVIOUS
<1> DEFINE A == T \cap (0 .. m)
           B == A \ {0}
           f == [n \in A |-> n + 1]
<1>1. IsFiniteSet(A) /\ 0 \in A
    <2>1. IsFiniteSet(0 .. m)
        BY FS_Interval
    <2> QED BY <2>1, FS_Subset
<1>2. \A n \in A : n + 1 \in B
    <2> SUFFICES ASSUME NEW n \in A PROVE n + 1 \in B
        OBVIOUS
    <2>1. n \in Nat /\ n <= m /\ n # m /\ n \in T
        OBVIOUS
    <2>2. n + 1 \in 0 .. m /\ n + 1 # 0 /\ n + 1 \in T
        BY <2>1
    <2> QED BY <2>2
<1>3. f \in Injection(A, B)
    BY <1>2 DEF Injection, IsInjective
<1>4. IsFiniteSet(B) /\ Cardinality(B) = Cardinality(A) - 1
    <2> HIDE DEF A
    <2> QED BY <1>1, FS_RemoveElement
<1> HIDE DEF f, B
<1>5. Cardinality(A) <= Cardinality(B)
    BY <1>3, <1>4, FS_Injection
<1>6. Cardinality(A) \in Nat
    BY <1>1, FS_CardinalityType
<1> QED BY <1>4, <1>5, <1>6

\* Some numbers up to a bound have a greatest.
LEMMA GreatestExists ==
    ASSUME NEW S \in SUBSET Nat, NEW b \in Nat, \A s \in S : s <= b, S # {}
    PROVE  \E m \in S : \A n \in S : n <= m
<1> DEFINE T == {k \in Nat : (\A s \in S : s <= k) => \E m \in S : \A n \in S : n <= m}
<1>1. 0 \in T
    <2> SUFFICES ASSUME \A s \in S : s <= 0 PROVE \E m \in S : \A n \in S : n <= m
        OBVIOUS
    <2>1. PICK s \in S : TRUE
        OBVIOUS
    <2>2. \A n \in S : n <= s
        OBVIOUS
    <2> QED BY <2>2
<1>2. ASSUME NEW k \in Nat, k \in T PROVE k + 1 \in T
    <2> SUFFICES ASSUME \A s \in S : s <= k + 1 PROVE \E m \in S : \A n \in S : n <= m
        BY <1>2
    <2>1. CASE k + 1 \in S
        BY <2>1
    <2>2. CASE k + 1 \notin S
        <3>1. \A s \in S : s <= k
            BY <2>2
        <3> QED BY <1>2, <3>1
    <2> QED BY <2>1, <2>2
<1> HIDE DEF T
<1>3. b \in T
    BY <1>1, <1>2, SetInduction
<1> QED BY <1>3 DEF T

-----------------------------------------------------------------------------
(* The journal: events.                                                    *)

\* What a line of the log may be: the events of a difference, each with the
\* number of the save.
Event ==
    [kind : {"messages"}, since : 0 .. SnapshotEvery, added : Seq(Message)]
    \cup [kind : {"reset"}, since : 0 .. SnapshotEvery,
          messages : Seq(Message), calls : Seq(Call)]
    \cup [kind : {"pending"}, since : 0 .. SnapshotEvery, calls : Seq(Call)]
    \cup [kind : {"pending_drop"}, since : 0 .. SnapshotEvery, drop : Nat]
    \cup [kind : {"state"}, since : 0 .. SnapshotEvery,
          values : UNION {[fs -> FieldValue] : fs \in SUBSET StateField}]

\* An event makes another checkpoint of a checkpoint, or is refused.
LEMMA ApplyEventType ==
    ASSUME NEW cp \in Checkpoint, NEW e \in Event
    PROVE  ApplyEvent(cp, e) \in Checkpoint \cup {Rejected}
<1>1. /\ cp = [messages |-> cp.messages, pending |-> cp.pending, state |-> cp.state]
      /\ cp.messages \in Seq(Message) /\ cp.pending \in Seq(Call)
      /\ cp.state \in [StateField -> FieldValue]
    BY DEF Checkpoint
<1>2. CASE e.kind = "messages"
    <2>1. e.added \in Seq(Message)
        BY <1>2 DEF Event
    <2>2. cp.messages \o e.added \in Seq(Message)
        BY <1>1, <2>1
    <2>3. ApplyEvent(cp, e) = [cp EXCEPT !.messages = @ \o e.added]
        BY <1>2 DEF ApplyEvent
    <2> QED BY <2>2, <2>3 DEF Checkpoint
<1>3. CASE e.kind = "reset"
    <2>1. e.messages \in Seq(Message) /\ e.calls \in Seq(Call)
        BY <1>3 DEF Event
    <2>2. ApplyEvent(cp, e) = [cp EXCEPT !.messages = e.messages, !.pending = e.calls]
        BY <1>3 DEF ApplyEvent
    <2> QED BY <2>1, <2>2 DEF Checkpoint
<1>4. CASE e.kind = "pending"
    <2>1. e.calls \in Seq(Call)
        BY <1>4 DEF Event
    <2>2. cp.pending \o e.calls \in Seq(Call)
        BY <1>1, <2>1
    <2>3. ApplyEvent(cp, e) = [cp EXCEPT !.pending = @ \o e.calls]
        BY <1>4 DEF ApplyEvent
    <2> QED BY <2>2, <2>3 DEF Checkpoint
<1>5. CASE e.kind = "pending_drop"
    <2>1. CASE e.drop \in 0 .. Len(cp.pending)
        <3>1. SubSeq(cp.pending, e.drop + 1, Len(cp.pending)) \in Seq(Call)
            <4>1. Len(cp.pending) \in Nat /\ e.drop \in Nat /\ e.drop + 1 \in Int
                BY <1>1, <2>1
            <4>2. \A i \in (e.drop + 1) .. Len(cp.pending) : cp.pending[i] \in Call
                BY <1>1, <4>1
            <4> QED BY <4>1, <4>2, SubSeqProperties
        <3>2. ApplyEvent(cp, e) = [cp EXCEPT !.pending = SubSeq(@, e.drop + 1, Len(@))]
            BY <1>5, <2>1 DEF ApplyEvent
        <3> QED BY <3>1, <3>2 DEF Checkpoint
    <2>2. CASE e.drop \notin 0 .. Len(cp.pending)
        BY <1>5, <2>2 DEF ApplyEvent
    <2> QED BY <2>1, <2>2
<1>6. CASE e.kind = "state"
    <2> DEFINE s == [f \in StateField |-> IF f \in DOMAIN e.values THEN e.values[f]
                                          ELSE cp.state[f]]
    <2>1. PICK fs \in SUBSET StateField : e.values \in [fs -> FieldValue]
        BY <1>6 DEF Event
    <2>2. s \in [StateField -> FieldValue]
        BY <1>1, <2>1
    <2>3. ApplyEvent(cp, e) = [cp EXCEPT !.state = s]
        BY <1>6 DEF ApplyEvent
    <2> HIDE DEF s
    <2> QED BY <2>2, <2>3 DEF Checkpoint
<1> QED BY <1>2, <1>3, <1>4, <1>5, <1>6 DEF Event

\* The number of the save is not part of what an event does.
LEMMA StampIsIdle ==
    ASSUME NEW e \in Event, NEW n \in 0 .. SnapshotEvery
    PROVE  /\ [e EXCEPT !.since = n] \in Event
           /\ [e EXCEPT !.since = n].since = n
           /\ \A cp : ApplyEvent(cp, [e EXCEPT !.since = n]) = ApplyEvent(cp, e)
<1> DEFINE d == [e EXCEPT !.since = n]
<1>1. d \in Event /\ d.since = n
    BY DEF Event
<1>2. /\ d.kind = e.kind
      /\ (e.kind = "messages" => d.added = e.added)
      /\ (e.kind = "reset" => d.messages = e.messages /\ d.calls = e.calls)
      /\ (e.kind = "pending" => d.calls = e.calls)
      /\ (e.kind = "pending_drop" => d.drop = e.drop)
      /\ (e.kind = "state" => d.values = e.values)
      /\ e.kind \in {"messages", "reset", "pending", "pending_drop", "state"}
    BY DEF Event
<1> HIDE DEF d
<1>3. ASSUME NEW cp PROVE ApplyEvent(cp, d) = ApplyEvent(cp, e)
    BY <1>2 DEF ApplyEvent
<1> QED BY <1>1, <1>3 DEF d

-----------------------------------------------------------------------------
(* The journal: replaying a log.                                           *)

\* One line: nothing is applied to a refusal.
ReplayStep(cp, e) == IF cp = Rejected THEN Rejected ELSE ApplyEvent(cp, e)

\* The function of Replay: the checkpoint after each number of lines.
ReplayFcn(snapshot, events) ==
    CHOOSE cp : cp = [i \in 0 .. Len(events) |->
        IF i = 0 THEN snapshot
        ELSE IF cp[i - 1] = Rejected THEN Rejected
        ELSE ApplyEvent(cp[i - 1], events[i])]

\* Replay is the last value of that function.
LEMMA ReplayIs == \A s, es : Replay(s, es) = ReplayFcn(s, es)[Len(es)]
BY DEF Replay, ReplayFcn

\* cp holds the checkpoint after each of the first n lines.
Replays(cp, s, es, n) ==
    cp = [i \in 0 .. n |-> IF i = 0 THEN s ELSE ReplayStep(cp[i - 1], es[i])]

\* There is such a function.
LEMMA ReplayExists ==
    ASSUME NEW s, NEW es, NEW n \in Nat
    PROVE  \E cp : Replays(cp, s, es, n)
<1> DEFINE T == {k \in Nat : \E cp :
                  cp = [i \in 0 .. k |-> IF i = 0 THEN s ELSE ReplayStep(cp[i - 1], es[i])]}
<1>1. 0 \in T
    <2> DEFINE c == [i \in 0 .. 0 |-> s]
    <2>1. c = [i \in 0 .. 0 |-> IF i = 0 THEN s ELSE ReplayStep(c[i - 1], es[i])]
        OBVIOUS
    <2> QED BY <2>1
<1>2. ASSUME NEW k \in Nat, k \in T PROVE k + 1 \in T
    <2>1. PICK c : c = [i \in 0 .. k |-> IF i = 0 THEN s ELSE ReplayStep(c[i - 1], es[i])]
        BY <1>2
    <2> DEFINE d == [i \in 0 .. (k + 1) |-> IF i <= k THEN c[i] ELSE ReplayStep(c[k], es[k + 1])]
               r == [i \in 0 .. (k + 1) |-> IF i = 0 THEN s ELSE ReplayStep(d[i - 1], es[i])]
    <2>2. ASSUME NEW i \in 0 .. (k + 1) PROVE d[i] = r[i]
        <3>1. CASE i = 0
            <4>1. c[0] = s
                BY <2>1
            <4> QED BY <3>1, <4>1
        <3>2. CASE i # 0 /\ i <= k
            <4>1. i \in 0 .. k /\ i - 1 \in 0 .. (k + 1) /\ i - 1 <= k
                BY <3>2
            <4>2. c[i] = ReplayStep(c[i - 1], es[i])
                BY <2>1, <3>2, <4>1
            <4>3. d[i - 1] = c[i - 1] /\ d[i] = c[i]
                BY <3>2, <4>1
            <4>4. r[i] = ReplayStep(d[i - 1], es[i])
                BY <3>2
            <4> HIDE DEF d, r
            <4> QED BY <4>2, <4>3, <4>4
        <3>3. CASE i = k + 1
            <4>1. d[k] = c[k] /\ d[k + 1] = ReplayStep(c[k], es[k + 1])
                OBVIOUS
            <4>2. r[k + 1] = ReplayStep(d[(k + 1) - 1], es[k + 1])
                OBVIOUS
            <4>3. (k + 1) - 1 = k
                OBVIOUS
            <4> HIDE DEF d, r
            <4> QED BY <3>3, <4>1, <4>2, <4>3
        <3> QED BY <3>1, <3>2, <3>3
    <2>3. d = r
        BY <2>2
    <2>4. d = [i \in 0 .. (k + 1) |-> IF i = 0 THEN s ELSE ReplayStep(d[i - 1], es[i])]
        BY <2>3
    <2> HIDE DEF d, r
    <2> QED BY <2>4
<1> HIDE DEF T
<1>3. n \in T
    BY <1>1, <1>2, SetInduction
<1> QED BY <1>3 DEF T, Replays

\* The function starts at the snapshot and each line makes one step.
LEMMA ReplaySteps ==
    ASSUME NEW s, NEW es, Len(es) \in Nat
    PROVE  /\ ReplayFcn(s, es)[0] = s
           /\ \A i \in 1 .. Len(es) : ReplayFcn(s, es)[i] = ReplayStep(ReplayFcn(s, es)[i - 1], es[i])
<1> DEFINE n == Len(es)
           F == ReplayFcn(s, es)
<1>1. F = CHOOSE cp : Replays(cp, s, es, n)
    BY DEF ReplayFcn, Replays, ReplayStep
<1>2. n \in Nat
    OBVIOUS
<1> HIDE DEF F, n
<1>3. F = [i \in 0 .. n |-> IF i = 0 THEN s ELSE ReplayStep(F[i - 1], es[i])]
    <2>1. \E cp : Replays(cp, s, es, n)
        BY <1>2, ReplayExists
    <2>2. Replays(F, s, es, n)
        BY <1>1, <2>1
    <2> QED BY <2>2 DEF Replays
<1>4. F[0] = s
    BY <1>2, <1>3
<1>5. \A i \in 1 .. n : F[i] = ReplayStep(F[i - 1], es[i])
    <2> SUFFICES ASSUME NEW i \in 1 .. n PROVE F[i] = ReplayStep(F[i - 1], es[i])
        OBVIOUS
    <2>1. i \in 0 .. n /\ i # 0
        BY <1>2
    <2> QED BY <1>3, <2>1
<1> QED BY <1>4, <1>5 DEF F, n

\* Two logs that agree up to a line replay to the same checkpoint there.
LEMMA ReplayAgrees ==
    ASSUME NEW s, NEW d, NEW e, Len(d) \in Nat, Len(e) \in Nat,
           NEW n \in Nat, n <= Len(d), n <= Len(e), \A i \in 1 .. n : d[i] = e[i]
    PROVE  ReplayFcn(s, d)[n] = ReplayFcn(s, e)[n]
<1> DEFINE F == ReplayFcn(s, d)
           G == ReplayFcn(s, e)
           T == {k \in Nat : k <= n => F[k] = G[k]}
<1>1. /\ F[0] = s /\ \A i \in 1 .. Len(d) : F[i] = ReplayStep(F[i - 1], d[i])
      /\ G[0] = s /\ \A i \in 1 .. Len(e) : G[i] = ReplayStep(G[i - 1], e[i])
    BY ReplaySteps
<1> HIDE DEF F, G
<1>2. 0 \in T
    BY <1>1
<1>3. ASSUME NEW k \in Nat, k \in T PROVE k + 1 \in T
    <2> SUFFICES ASSUME k + 1 <= n PROVE F[k + 1] = G[k + 1]
        OBVIOUS
    <2>1. k + 1 \in 1 .. n /\ k + 1 \in 1 .. Len(d) /\ k + 1 \in 1 .. Len(e)
          /\ (k + 1) - 1 = k
        OBVIOUS
    <2>2. F[k] = G[k]
        BY <1>3
    <2>3. F[k + 1] = ReplayStep(F[k], d[k + 1]) /\ G[k + 1] = ReplayStep(G[k], e[k + 1])
        BY <1>1, <2>1
    <2> QED BY <2>1, <2>2, <2>3
<1> HIDE DEF T
<1>4. n \in T
    BY <1>2, <1>3, SetInduction
<1> QED BY <1>4 DEF T, F, G

\* A log without lines leaves the snapshot.
LEMMA ReplayEmpty == \A s : Replay(s, << >>) = s
<1>1. Len(<< >>) = 0
    OBVIOUS
<1> QED BY <1>1, ReplayIs, ReplaySteps

\* One more line is one more step.
LEMMA ReplayAppend ==
    ASSUME NEW S, NEW s, NEW es \in Seq(S), NEW e \in S
    PROVE  Replay(s, Append(es, e)) = ReplayStep(Replay(s, es), e)
<1> DEFINE d == Append(es, e)
           n == Len(es)
<1>1. /\ n \in Nat /\ Len(d) = n + 1
      /\ \A i \in 1 .. n : d[i] = es[i]
      /\ d[n + 1] = e
    BY AppendProperties
<1> HIDE DEF d
<1>2. ReplayFcn(s, d)[n] = ReplayFcn(s, es)[n]
    BY <1>1, ReplayAgrees
<1>3. ReplayFcn(s, d)[n + 1] = ReplayStep(ReplayFcn(s, d)[(n + 1) - 1], d[n + 1])
    <2>1. n + 1 \in 1 .. Len(d) /\ Len(d) \in Nat
        BY <1>1
    <2> HIDE DEF n
    <2> QED BY <2>1, ReplaySteps
<1>4. (n + 1) - 1 = n
    BY <1>1
<1>5. Replay(s, d) = ReplayFcn(s, d)[n + 1] /\ Replay(s, es) = ReplayFcn(s, es)[n]
    BY <1>1, ReplayIs
<1> HIDE DEF n
<1> QED BY <1>1, <1>2, <1>3, <1>4, <1>5 DEF d

\* A log replays to a checkpoint or is refused.
LEMMA ReplayType ==
    ASSUME NEW s \in Checkpoint \cup {Rejected}, NEW es \in Seq(Event)
    PROVE  Replay(s, es) \in Checkpoint \cup {Rejected}
<1> DEFINE n == Len(es)
           F == ReplayFcn(s, es)
           T == {k \in Nat : k <= n => F[k] \in Checkpoint \cup {Rejected}}
<1>1. n \in Nat /\ \A i \in 1 .. n : es[i] \in Event
    OBVIOUS
<1>2. F[0] = s /\ \A i \in 1 .. n : F[i] = ReplayStep(F[i - 1], es[i])
    BY <1>1, ReplaySteps
<1>3. Replay(s, es) = F[n]
    BY ReplayIs
<1> HIDE DEF F, n
<1>4. 0 \in T
    BY <1>2
<1>5. ASSUME NEW k \in Nat, k \in T PROVE k + 1 \in T
    <2> SUFFICES ASSUME k + 1 <= n PROVE F[k + 1] \in Checkpoint \cup {Rejected}
        OBVIOUS
    <2>1. k + 1 \in 1 .. n /\ (k + 1) - 1 = k
        BY <1>1
    <2>2. F[k] \in Checkpoint \cup {Rejected}
        BY <1>1, <1>5
    <2>3. F[k + 1] = ReplayStep(F[k], es[k + 1]) /\ es[k + 1] \in Event
        BY <1>1, <1>2, <2>1
    <2> QED BY <2>2, <2>3, ApplyEventType DEF ReplayStep
<1> HIDE DEF T
<1>6. n \in T
    BY <1>1, <1>4, <1>5, SetInduction
<1> QED BY <1>1, <1>3, <1>6 DEF T

-----------------------------------------------------------------------------
(* The journal: differences.                                               *)

\* At most one more event: it makes its step, or there is none.
LEMMA ReplayMore ==
    ASSUME NEW S, NEW s, NEW es \in Seq(S), NEW e \in S
    PROVE  /\ Replay(s, es \o << e >>) = ReplayStep(Replay(s, es), e)
           /\ Replay(s, es \o << >>) = Replay(s, es)
<1>1. es \o << e >> = Append(es, e)
    BY AppendIsConcat
<1>2. es \o << >> = es
    BY ConcatEmptySeq
<1>3. Replay(s, Append(es, e)) = ReplayStep(Replay(s, es), e)
    BY ReplayAppend
<1> QED BY <1>1, <1>2, <1>3

\* A prefix and what follows it are the sequence.
LEMMA PrefixConcat ==
    ASSUME NEW S, NEW p \in Seq(S), NEW t \in Seq(S), IsPrefix(p, t)
    PROVE  /\ p \o SubSeq(t, Len(p) + 1, Len(t)) = t
           /\ SubSeq(t, Len(p) + 1, Len(t)) \in Seq(S)
           /\ Len(p) = Len(t) => p = t
<1>1. /\ Len(p) \in Nat /\ Len(t) \in Nat /\ Len(p) <= Len(t)
      /\ SubSeq(p, 1, Len(p)) = SubSeq(t, 1, Len(p))
    BY DEF IsPrefix
<1>2. SubSeq(p, 1, Len(p)) = p /\ SubSeq(t, 1, Len(t)) = t
    BY SubSeqFull
<1>3. 1 \in 1 .. Len(t) + 1 /\ Len(p) \in (1 - 1) .. Len(t) /\ Len(t) \in Len(p) .. Len(t)
    BY <1>1
<1>4. SubSeq(t, 1, Len(p)) \o SubSeq(t, Len(p) + 1, Len(t)) = SubSeq(t, 1, Len(t))
    BY <1>3, ConcatAdjacentSubSeq
<1>5. \A i \in (Len(p) + 1) .. Len(t) : t[i] \in S
    BY <1>1
<1>6. SubSeq(t, Len(p) + 1, Len(t)) \in Seq(S)
    BY <1>1, <1>5, SubSeqProperties
<1> QED BY <1>1, <1>2, <1>4, <1>6

\* A sequence is its own prefix.
LEMMA PrefixOfItself ==
    ASSUME NEW S, NEW t \in Seq(S)
    PROVE  IsPrefix(t, t)
BY DEF IsPrefix

\* The parts of a checkpoint.
LEMMA CheckpointParts ==
    ASSUME NEW cp \in Checkpoint
    PROVE  /\ cp.messages \in Seq(Message) /\ cp.pending \in Seq(Call)
           /\ cp.state \in [StateField -> FieldValue]
           /\ cp = [messages |-> cp.messages, pending |-> cp.pending, state |-> cp.state]
BY DEF Checkpoint

\* Parts make a checkpoint.
LEMMA CheckpointMade ==
    ASSUME NEW ms \in Seq(Message), NEW ps \in Seq(Call), NEW st \in [StateField -> FieldValue]
    PROVE  [messages |-> ms, pending |-> ps, state |-> st] \in Checkpoint
BY DEF Checkpoint

\* The transcript part of a difference has at most one event, and brings the
\* transcript to the new one; a rewrite brings the pending calls too.
LEMMA MessagesReplay ==
    ASSUME NEW prev \in Checkpoint, NEW next \in Checkpoint
    PROVE  LET es == MessageEvents(prev, next)
           IN  /\ es \in Seq(Event)
               /\ Replay(prev, es) =
                    [messages |-> next.messages,
                     pending  |-> IF IsReset(prev, next) THEN next.pending ELSE prev.pending,
                     state    |-> prev.state]
<1> DEFINE es == MessageEvents(prev, next)
           pm == prev.messages
           nm == next.messages
<1>1. /\ pm \in Seq(Message) /\ nm \in Seq(Message)
      /\ prev = [messages |-> pm, pending |-> prev.pending, state |-> prev.state]
      /\ next.pending \in Seq(Call)
    BY CheckpointParts
<1>2. prev # Rejected
    BY RejectedAssumption
<1>3. SnapshotEvery \in Nat
    BY JournalAssumption
<1>4. << >> \in Seq(Event) /\ \A s, e : << >> \o << e >> = << e >>
    OBVIOUS
<1>5. ASSUME NEW e \in Event PROVE Replay(prev, << e >>) = ApplyEvent(prev, e)
    <2>1. Replay(prev, << >> \o << e >>) = ReplayStep(Replay(prev, << >>), e)
        <3> DEFINE none == << >>
        <3>1. none \in Seq(Event)
            BY <1>4
        <3> HIDE DEF none
        <3>2. Replay(prev, Append(none, e)) = ReplayStep(Replay(prev, none), e)
            BY <3>1, ReplayAppend
        <3> USE DEF none
        <3>3. Append(<< >>, e) = << >> \o << e >>
            OBVIOUS
        <3> QED BY <3>2, <3>3
    <2>2. Replay(prev, << >>) = prev
        BY ReplayEmpty
    <2>3. << >> \o << e >> = << e >>
        BY <1>4
    <2> QED BY <1>2, <2>1, <2>2, <2>3 DEF ReplayStep
<1>6. CASE IsStrictPrefix(pm, nm)
    <2> DEFINE added == SubSeq(nm, Len(pm) + 1, Len(nm))
               e == MessagesEvent(added)
    <2>1. IsPrefix(pm, nm)
        BY <1>6 DEF IsStrictPrefix
    <2>2. pm \o added = nm /\ added \in Seq(Message)
        BY <1>1, <2>1, PrefixConcat
    <2>3. es = << e >>
        BY <1>6 DEF MessageEvents
    <2> HIDE DEF added
    <2>4. e \in Event
        BY <1>3, <2>2 DEF Event, MessagesEvent
    <2>5. ApplyEvent(prev, e) = [prev EXCEPT !.messages = pm \o added]
        BY DEF ApplyEvent, MessagesEvent
    <2>6. ~ IsReset(prev, next)
        BY <2>1 DEF IsReset
    <2>7. ApplyEvent(prev, e) = [messages |-> nm, pending |-> prev.pending,
                                 state |-> prev.state]
        BY <1>1, <2>2, <2>5
    <2>8. << e >> \in Seq(Event)
        BY <2>4
    <2> HIDE DEF e
    <2> QED BY <1>5, <2>3, <2>4, <2>6, <2>7, <2>8
<1>7. CASE ~ IsStrictPrefix(pm, nm) /\ pm # nm
    <2> DEFINE e == ResetEvent(nm, next.pending)
    <2>1. es = << e >>
        BY <1>7 DEF MessageEvents
    <2>2. e \in Event
        BY <1>1, <1>3 DEF Event, ResetEvent
    <2>3. ApplyEvent(prev, e) = [prev EXCEPT !.messages = nm, !.pending = next.pending]
        BY DEF ApplyEvent, ResetEvent
    <2>4. ApplyEvent(prev, e) = [messages |-> nm, pending |-> next.pending,
                                 state |-> prev.state]
        BY <1>1, <2>3
    <2>5. IsReset(prev, next)
        BY <1>7 DEF IsReset, IsStrictPrefix
    <2>6. << e >> \in Seq(Event)
        BY <2>2
    <2> HIDE DEF e
    <2> QED BY <1>5, <2>1, <2>2, <2>4, <2>5, <2>6
<1>8. CASE pm = nm
    <2>1. es = << >>
        BY <1>8 DEF MessageEvents, IsStrictPrefix
    <2>2. IsPrefix(pm, nm)
        BY <1>1, <1>8, PrefixOfItself
    <2>3. ~ IsReset(prev, next)
        BY <2>2 DEF IsReset
    <2>4. Replay(prev, es) = prev
        BY <2>1, ReplayEmpty
    <2> QED BY <1>1, <1>4, <1>8, <2>1, <2>3, <2>4
<1> QED BY <1>6, <1>7, <1>8

\* The pending part brings the pending calls to the new ones, unless the pair
\* cannot be stored as a difference.
LEMMA PendingReplay ==
    ASSUME NEW prev \in Checkpoint, NEW next \in Checkpoint, SameCheckpointPrefix(prev, next),
           NEW s, NEW ms \in Seq(Event),
           Replay(s, ms) =
             [messages |-> next.messages,
              pending  |-> IF IsReset(prev, next) THEN next.pending ELSE prev.pending,
              state    |-> prev.state]
    PROVE  LET es == PendingEvents(prev, next)
           IN  /\ ms \o es \in Seq(Event)
               /\ Replay(s, ms \o es) =
                    [messages |-> next.messages, pending |-> next.pending,
                     state |-> prev.state]
<1> DEFINE es == PendingEvents(prev, next)
           pp == prev.pending
           np == next.pending
           cp == [messages |-> next.messages, pending |-> pp, state |-> prev.state]
<1>1. /\ pp \in Seq(Call) /\ np \in Seq(Call)
      /\ next.messages \in Seq(Message) /\ prev.state \in [StateField -> FieldValue]
    BY CheckpointParts
<1>2. Len(pp) \in Nat /\ Len(np) \in Nat
    BY <1>1
<1>3. SnapshotEvery \in Nat
    BY JournalAssumption
<1>4. cp # Rejected
    BY <1>1, CheckpointMade, RejectedAssumption
<1>5. ms \o << >> = ms
    BY ConcatEmptySeq
<1>6. /\ Len(np) >= Len(pp) => IsPrefix(pp, np)
      /\ ~ (Len(np) >= Len(pp)) => np = SubSeq(pp, Len(pp) - Len(np) + 1, Len(pp))
    BY DEF SameCheckpointPrefix, PendingDroppedFromMiddle
<1>7. ASSUME ~ IsReset(prev, next), NEW e \in Event
      PROVE  /\ Replay(s, ms \o << e >>) = ApplyEvent(cp, e)
             /\ ms \o << e >> \in Seq(Event)
    <2>1. Replay(s, ms) = cp
        BY <1>7
    <2>2. ms \o << e >> \in Seq(Event)
        OBVIOUS
    <2> HIDE DEF cp
    <2> QED BY <1>4, <1>7, <2>1, <2>2, ReplayMore DEF ReplayStep
<1>8. CASE IsReset(prev, next)
    <2>1. es = << >>
        BY <1>8 DEF PendingEvents
    <2> QED BY <1>5, <1>8, <2>1
<1>9. CASE ~ IsReset(prev, next) /\ Len(np) > Len(pp)
    <2> DEFINE added == SubSeq(np, Len(pp) + 1, Len(np))
               e == PendingEvent(added)
    <2>1. IsPrefix(pp, np)
        BY <1>2, <1>6, <1>9
    <2>2. pp \o added = np /\ added \in Seq(Call)
        <3> HIDE DEF pp, np
        <3> QED BY <1>1, <2>1, PrefixConcat
    <2>3. es = << e >>
        BY <1>9 DEF PendingEvents
    <2> HIDE DEF added
    <2>4. e \in Event
        BY <1>3, <2>2 DEF Event, PendingEvent
    <2>5. ApplyEvent(cp, e) = [cp EXCEPT !.pending = pp \o added]
        BY DEF ApplyEvent, PendingEvent
    <2>6. ApplyEvent(cp, e) = [messages |-> next.messages, pending |-> np, state |-> prev.state]
        BY <2>2, <2>5
    <2> HIDE DEF e, cp
    <2> QED BY <1>7, <1>9, <2>3, <2>4, <2>6
<1>10. CASE ~ IsReset(prev, next) /\ Len(np) < Len(pp)
    <2> DEFINE drop == Len(pp) - Len(np)
               e == PendingDropEvent(drop)
    <2>0. ~ (Len(np) >= Len(pp)) /\ ~ (Len(np) > Len(pp)) /\ ~ IsReset(prev, next)
          /\ Len(np) < Len(pp)
        BY <1>2, <1>10
    <2>1. np = SubSeq(pp, Len(pp) - Len(np) + 1, Len(pp))
        BY <1>6, <2>0
    <2>2. es = << e >>
        BY <2>0 DEF PendingEvents
    <2>3. drop \in Nat /\ drop \in 0 .. Len(pp)
        <3>1. \A p, n \in Nat : n < p => p - n \in Nat /\ p - n \in 0 .. p
            OBVIOUS
        <3> QED BY <1>2, <2>0, <3>1
    <2>4. SubSeq(pp, drop + 1, Len(pp)) = np
        BY <2>1
    <2> HIDE DEF drop
    <2>5. e \in Event
        BY <1>3, <2>3 DEF Event, PendingDropEvent
    <2>6. ApplyEvent(cp, e) = [cp EXCEPT !.pending = SubSeq(pp, drop + 1, Len(pp))]
        BY <2>3 DEF ApplyEvent, PendingDropEvent
    <2>7. ApplyEvent(cp, e) = [messages |-> next.messages, pending |-> np, state |-> prev.state]
        BY <2>4, <2>6
    <2> HIDE DEF e, cp
    <2> QED BY <1>7, <1>10, <2>2, <2>5, <2>7
<1>11. CASE ~ IsReset(prev, next) /\ Len(np) = Len(pp)
    <2>1. IsPrefix(pp, np)
        BY <1>2, <1>6, <1>11
    <2>2. pp = np
        BY <1>1, <1>11, <2>1, PrefixConcat
    <2>3. es = << >>
        BY <1>2, <1>11 DEF PendingEvents
    <2> QED BY <1>5, <1>11, <2>2, <2>3
<1> HIDE DEF es, cp
<1>12. Len(np) > Len(pp) \/ Len(np) < Len(pp) \/ Len(np) = Len(pp)
    BY <1>2
<1> QED BY <1>8, <1>9, <1>10, <1>11, <1>12 DEF es

\* The scalar part brings the fields to the new ones.
LEMMA StateReplay ==
    ASSUME NEW prev \in Checkpoint, NEW next \in Checkpoint,
           NEW s, NEW ms \in Seq(Event),
           Replay(s, ms) = [messages |-> next.messages, pending |-> next.pending,
                            state |-> prev.state]
    PROVE  LET es == StateEvents(prev, next)
           IN  /\ ms \o es \in Seq(Event)
               /\ Replay(s, ms \o es) = next
<1> DEFINE es == StateEvents(prev, next)
           changed == ChangedFields(prev, next)
           values == [f \in changed |-> next.state[f]]
           cp == [messages |-> next.messages, pending |-> next.pending, state |-> prev.state]
           e == StateEvent(values)
           st == [f \in StateField |-> IF f \in DOMAIN values THEN values[f] ELSE prev.state[f]]
<1>1. /\ prev.state \in [StateField -> FieldValue] /\ next.state \in [StateField -> FieldValue]
      /\ next.messages \in Seq(Message) /\ next.pending \in Seq(Call)
      /\ next = [messages |-> next.messages, pending |-> next.pending, state |-> next.state]
    BY CheckpointParts
<1>2. cp # Rejected
    BY <1>1, CheckpointMade, RejectedAssumption
<1>3. changed \subseteq StateField
    BY DEF ChangedFields
<1>4. DOMAIN values = changed /\ values \in [changed -> FieldValue]
    BY <1>1, <1>3
<1>5. st = next.state
    <2>1. st \in [StateField -> FieldValue]
        BY <1>1, <1>3, <1>4
    <2>2. \A f \in StateField : st[f] = next.state[f]
        BY <1>4 DEF ChangedFields
    <2> HIDE DEF st
    <2> QED BY <1>1, <2>1, <2>2
<1>6. CASE changed = {}
    <2>1. es = << >>
        BY <1>6 DEF StateEvents
    <2>2. \A f \in StateField : prev.state[f] = next.state[f]
        BY <1>6 DEF ChangedFields
    <2>3. prev.state = next.state
        BY <1>1, <2>2
    <2>4. ms \o << >> = ms
        BY ConcatEmptySeq
    <2> QED BY <1>1, <2>1, <2>3, <2>4
<1>7. CASE changed # {}
    <2>1. es = << e >>
        BY <1>7 DEF StateEvents
    <2> HIDE DEF changed
    <2>2. values \in UNION {[fs -> FieldValue] : fs \in SUBSET StateField}
        BY <1>3, <1>4
    <2>3. ApplyEvent(cp, e) = [cp EXCEPT !.state = st]
        BY DEF ApplyEvent, StateEvent
    <2>4. ApplyEvent(cp, e) = next
        BY <1>1, <1>5, <2>3
    <2> HIDE DEF values
    <2>5. e \in Event
        <3>1. SnapshotEvery \in Nat
            BY JournalAssumption
        <3> QED BY <2>2, <3>1 DEF Event, StateEvent
    <2> HIDE DEF e, cp
    <2>6. ms \o << e >> \in Seq(Event)
        BY <2>5
    <2>7. Replay(s, ms \o << e >>) = ReplayStep(Replay(s, ms), e)
        BY <2>5, ReplayMore
    <2>8. Replay(s, ms) = cp
        BY DEF cp
    <2> QED BY <1>2, <2>1, <2>4, <2>6, <2>7, <2>8 DEF ReplayStep
<1> QED BY <1>6, <1>7

\* A difference is made of events (diffCheckpoint), and replaying it over the
\* checkpoint it was taken from gives the checkpoint it was taken for, whenever
\* the writer may store the pair as a difference (sameCheckpointPrefix).
THEOREM DifferencesReplay ==
    ASSUME NEW prev \in Checkpoint, NEW next \in Checkpoint, SameCheckpointPrefix(prev, next)
    PROVE  /\ DiffCheckpoint(prev, next) \in Seq(Event)
           /\ Replay(prev, DiffCheckpoint(prev, next)) = next
<1> DEFINE ms == MessageEvents(prev, next)
           ps == PendingEvents(prev, next)
           ss == StateEvents(prev, next)
<1>1. /\ ms \in Seq(Event)
      /\ Replay(prev, ms) =
           [messages |-> next.messages,
            pending  |-> IF IsReset(prev, next) THEN next.pending ELSE prev.pending,
            state    |-> prev.state]
    BY MessagesReplay
<1> HIDE DEF ms, ss
<1>2. /\ ms \o ps \in Seq(Event)
      /\ Replay(prev, ms \o ps) = [messages |-> next.messages, pending |-> next.pending,
                                   state |-> prev.state]
    BY <1>1, PendingReplay
<1> HIDE DEF ps
<1>3. (ms \o ps) \o ss \in Seq(Event) /\ Replay(prev, (ms \o ps) \o ss) = next
    BY <1>2, StateReplay DEF ss
<1> QED BY <1>3 DEF DiffCheckpoint, ms, ps, ss

\* A difference is made of events even when the writer would not store it.
LEMMA DiffType ==
    ASSUME NEW prev \in Checkpoint, NEW next \in Checkpoint
    PROVE  DiffCheckpoint(prev, next) \in Seq(Event)
<1> DEFINE pp == prev.pending
           np == next.pending
           added == SubSeq(np, Len(pp) + 1, Len(np))
           values == [f \in ChangedFields(prev, next) |-> next.state[f]]
<1>1. SnapshotEvery \in Nat
    BY JournalAssumption
<1>2. pp \in Seq(Call) /\ np \in Seq(Call) /\ next.state \in [StateField -> FieldValue]
    BY CheckpointParts
<1>3. Len(pp) \in Nat /\ Len(np) \in Nat
    BY <1>2
<1>4. MessageEvents(prev, next) \in Seq(Event)
    BY MessagesReplay
<1>5. PendingEvents(prev, next) \in Seq(Event)
    <2>1. added \in Seq(Call)
        <3>1. \A i \in (Len(pp) + 1) .. Len(np) : np[i] \in Call
            BY <1>2, <1>3
        <3> QED BY <1>3, <3>1, SubSeqProperties
    <2>2. PendingEvent(added) \in Event
        BY <1>1, <2>1 DEF Event, PendingEvent
    <2>3. ASSUME Len(np) < Len(pp) PROVE PendingDropEvent(Len(pp) - Len(np)) \in Event
        <3>1. \A p, n \in Nat : n < p => p - n \in Nat
            OBVIOUS
        <3>2. Len(pp) - Len(np) \in Nat
            BY <1>3, <2>3, <3>1
        <3> QED BY <1>1, <3>2 DEF Event, PendingDropEvent
    <2>4. \A e \in Event : << e >> \in Seq(Event)
        OBVIOUS
    <2>5. << >> \in Seq(Event)
        OBVIOUS
    <2>6. PendingEvents(prev, next) \in
            {<< >>, << PendingEvent(added) >>}
            \cup {d \in {<< PendingDropEvent(Len(pp) - Len(np)) >>} : Len(np) < Len(pp)}
        BY DEF PendingEvents
    <2> QED BY <2>2, <2>3, <2>4, <2>5, <2>6
<1>6. StateEvents(prev, next) \in Seq(Event)
    <2>1. values \in UNION {[fs -> FieldValue] : fs \in SUBSET StateField}
        <3>1. ChangedFields(prev, next) \in SUBSET StateField
            BY DEF ChangedFields
        <3>2. values \in [ChangedFields(prev, next) -> FieldValue]
            BY <1>2, <3>1
        <3> QED BY <3>1, <3>2
    <2>2. StateEvents(prev, next) \in {<< >>, << StateEvent(values) >>}
        BY DEF StateEvents
    <2> HIDE DEF values
    <2>3. StateEvent(values) \in Event
        BY <1>1, <2>1 DEF Event, StateEvent
    <2>4. << StateEvent(values) >> \in Seq(Event) /\ << >> \in Seq(Event)
        BY <2>3
    <2> QED BY <2>2, <2>4
<1> QED BY <1>4, <1>5, <1>6 DEF DiffCheckpoint

-----------------------------------------------------------------------------
(* The journal: lines of a log.                                            *)

\* What a log may hold: events, the beginnings of some, and lines joined.
Log == Seq(Event \cup {Cut, Joined})

\* Of these the events are what parses.
LEMMA EventsParse ==
    /\ \A e \in Event : Parses(e) /\ e.kind # "joined"
    /\ \A e \in Event \cup {Cut, Joined} : Parses(e) => e \in Event
    /\ Cut.kind = "cut" /\ ~ Parses(Cut)
    /\ Joined.kind = "joined" /\ ~ Parses(Joined)
BY DEF Event, Cut, Joined, Parses

\* The elements of a log.
LEMMA LogElements ==
    ASSUME NEW es \in Log
    PROVE  /\ Len(es) \in Nat /\ DOMAIN es = 1 .. Len(es)
           /\ \A i \in 1 .. Len(es) : es[i] \in Event \cup {Cut, Joined}
BY DEF Log

\* Reading stops before the first line that does not parse, or at the end.
LEMMA ReadablePrefix ==
    ASSUME NEW es \in Log, NEW k \in 0 .. Len(es), \A i \in 1 .. k : Parses(es[i]),
           k = Len(es) \/ ~ Parses(es[k + 1])
    PROVE  Readable(es) = SubSeq(es, 1, k)
<1> DEFINE S == {n \in 0 .. Len(es) : \A i \in 1 .. n : Parses(es[i])}
<1>1. Len(es) \in Nat /\ k \in Nat
    BY LogElements
<1>2. k \in S
    OBVIOUS
<1>3. ASSUME NEW n \in S PROVE n <= k
    <2> SUFFICES ASSUME ~ (n <= k) PROVE FALSE
        OBVIOUS
    <2>1. n \in 0 .. Len(es) /\ k + 1 \in 1 .. n /\ k # Len(es)
        BY <1>1
    <2>2. Parses(es[k + 1])
        BY <2>1
    <2> QED BY <2>1, <2>2
<1>4. S \in SUBSET Nat
    BY <1>1
<1>5. Readable(es) = SubSeq(es, 1, Max(S))
    BY DEF Readable
<1> HIDE DEF S
<1>6. Max(S) = k
    <2>1. \A x \in S : (\A y \in S : x >= y) => x = k
        BY <1>1, <1>2, <1>3, <1>4
    <2>2. \E x \in S : \A y \in S : x >= y
        BY <1>1, <1>2, <1>3, <1>4
    <2> QED BY <2>1, <2>2 DEF Max
<1> QED BY <1>5, <1>6

\* A log of events is read whole.
LEMMA ReadableWhole ==
    ASSUME NEW es \in Seq(Event)
    PROVE  es \in Log /\ ~ Truncated(es) /\ ~ HasJoined(es) /\ Readable(es) = es
<1>1. Len(es) \in Nat /\ DOMAIN es = 1 .. Len(es) /\ \A i \in 1 .. Len(es) : es[i] \in Event
    OBVIOUS
<1>2. es \in Log
    <2> Event \subseteq Event \cup {Cut, Joined}
        OBVIOUS
    <2> QED BY SeqMonotonic DEF Log
<1>3. \A i \in 1 .. Len(es) : Parses(es[i]) /\ es[i].kind # "joined"
    BY <1>1, EventsParse
<1>4. Readable(es) = SubSeq(es, 1, Len(es))
    <2>1. Len(es) \in 0 .. Len(es)
        BY <1>1
    <2> QED BY <1>2, <1>3, <2>1, ReadablePrefix
<1>5. SubSeq(es, 1, Len(es)) = es
    BY SubSeqFull
<1> QED BY <1>1, <1>2, <1>3, <1>4, <1>5 DEF Truncated, HasJoined

\* A line more is a line of a log.
LEMMA LogGrows ==
    ASSUME NEW es \in Log, NEW e \in Event \cup {Cut, Joined}
    PROVE  /\ Append(es, e) \in Log /\ Len(Append(es, e)) = Len(es) + 1
           /\ \A i \in 1 .. Len(es) : Append(es, e)[i] = es[i]
           /\ Append(es, e)[Len(es) + 1] = e
BY AppendProperties DEF Log

\* An unfinished line at the end is dropped, and nothing else.
LEMMA ReadableCut ==
    ASSUME NEW es \in Seq(Event)
    PROVE  Append(es, Cut) \in Log /\ Readable(Append(es, Cut)) = es
<1> DEFINE d == Append(es, Cut)
           n == Len(es)
<1>1. es \in Log
    BY ReadableWhole
<1>2. /\ n \in Nat /\ \A i \in 1 .. n : es[i] \in Event
      /\ d \in Log /\ Len(d) = n + 1
      /\ \A i \in 1 .. n : d[i] = es[i]
      /\ d[n + 1] = Cut
    BY <1>1, LogGrows
<1> HIDE DEF d, n
<1>3. \A i \in 1 .. n : Parses(d[i])
    BY <1>2, EventsParse
<1>4. n \in 0 .. Len(d) /\ ~ Parses(d[n + 1])
    BY <1>2, EventsParse
<1>5. Readable(d) = SubSeq(d, 1, n)
    BY <1>2, <1>3, <1>4, ReadablePrefix
<1>6. SubSeq(d, 1, n) = es
    <2>1. \A i \in 1 .. n : d[i] \in Event
        BY <1>2
    <2>2. /\ SubSeq(d, 1, n) \in Seq(Event)
          /\ Len(SubSeq(d, 1, n)) = IF 1 <= n THEN n - 1 + 1 ELSE 0
          /\ \A i \in 1 .. n - 1 + 1 : SubSeq(d, 1, n)[i] = d[1 + i - 1]
        BY <1>2, <2>1, SubSeqProperties
    <2>3. Len(SubSeq(d, 1, n)) = n
        BY <1>2, <2>2
    <2>4. \A i \in 1 .. n : SubSeq(d, 1, n)[i] = es[i]
        <3> SUFFICES ASSUME NEW i \in 1 .. n PROVE SubSeq(d, 1, n)[i] = es[i]
            OBVIOUS
        <3>1. i \in 1 .. n - 1 + 1 /\ 1 + i - 1 = i
            BY <1>2
        <3> QED BY <1>2, <2>2, <3>1
    <2> QED BY <2>2, <2>3, <2>4, SeqEqual DEF n
<1> QED BY <1>2, <1>5, <1>6 DEF d

\* What is read of a log are events.
LEMMA ReadableLog ==
    ASSUME NEW es \in Log
    PROVE  /\ Readable(es) \in Seq(Event)
           /\ ~ Truncated(es) => es \in Seq(Event)
<1> DEFINE n == Len(es)
           S == {k \in 0 .. n : \A i \in 1 .. k : Parses(es[i])}
<1>1. /\ n \in Nat /\ DOMAIN es = 1 .. n
      /\ \A i \in 1 .. n : es[i] \in Event \cup {Cut, Joined}
    BY LogElements
<1>2. ~ Truncated(es) => es \in Seq(Event)
    <2> SUFFICES ASSUME ~ Truncated(es) PROVE es \in Seq(Event)
        OBVIOUS
    <2>1. \A i \in 1 .. n : es[i] \in Event
        BY <1>1, EventsParse DEF Truncated
    <2> HIDE DEF n
    <2>2. SubSeq(es, 1, n) \in Seq(Event)
        BY <1>1, <2>1, SubSeqProperties
    <2>3. SubSeq(es, 1, n) = es
        BY SubSeqFull DEF n, Log
    <2> QED BY <2>2, <2>3
<1>3. 0 \in S /\ S \in SUBSET Nat /\ \A k \in S : k <= n
    BY <1>1
<1> HIDE DEF S
<1>4. PICK k \in S : \A m \in S : m <= k
    BY <1>1, <1>3, GreatestExists
<1>5. k \in 0 .. n /\ \A i \in 1 .. k : Parses(es[i])
    BY <1>4 DEF S
<1>6. k = n \/ ~ Parses(es[k + 1])
    <2> SUFFICES ASSUME k # n, Parses(es[k + 1]) PROVE FALSE
        OBVIOUS
    <2> HIDE DEF n
    <2>1. k + 1 \in 0 .. n /\ \A i \in 1 .. k + 1 : i \in 1 .. k \/ i = k + 1
        BY <1>1, <1>5
    <2>2. \A i \in 1 .. k + 1 : Parses(es[i])
        BY <1>5, <2>1
    <2>3. k + 1 \in S
        BY <2>1, <2>2 DEF S
    <2> QED BY <1>1, <1>4, <1>5, <2>3
<1>7. Readable(es) = SubSeq(es, 1, k)
    BY <1>5, <1>6, ReadablePrefix
<1> HIDE DEF n
<1>8. \A i \in 1 .. k : es[i] \in Event
    <2>1. \A i \in 1 .. k : i \in 1 .. n
        BY <1>1, <1>5
    <2> QED BY <1>1, <1>5, <2>1, EventsParse
<1>9. SubSeq(es, 1, k) \in Seq(Event)
    BY <1>1, <1>5, <1>8, SubSeqProperties
<1> QED BY <1>2, <1>7, <1>9

\* A joined line stays where it is.
LEMMA JoinedStays ==
    ASSUME NEW es \in Log, NEW e \in Event \cup {Cut, Joined}, HasJoined(es) \/ e = Joined
    PROVE  HasJoined(Append(es, e))
<1> DEFINE d == Append(es, e)
<1>1. /\ d \in Log /\ Len(d) = Len(es) + 1 /\ \A i \in 1 .. Len(es) : d[i] = es[i]
      /\ d[Len(es) + 1] = e
    BY LogGrows
<1>2. /\ Len(es) \in Nat /\ DOMAIN es = 1 .. Len(es)
      /\ DOMAIN d = 1 .. (Len(es) + 1)
    BY <1>1, LogElements
<1> HIDE DEF d
<1>3. CASE HasJoined(es)
    <2>1. PICK i \in 1 .. Len(es) : es[i].kind = "joined"
        BY <1>2, <1>3 DEF HasJoined
    <2>2. d[i].kind = "joined" /\ i \in DOMAIN d
        BY <1>1, <1>2, <2>1
    <2> QED BY <2>2 DEF HasJoined, d
<1>4. CASE e = Joined
    <2>1. d[Len(es) + 1].kind = "joined" /\ Len(es) + 1 \in DOMAIN d
        BY <1>1, <1>2, <1>4, EventsParse
    <2> QED BY <2>1 DEF HasJoined, d
<1> QED BY <1>3, <1>4

\* The save count a log has reached is one of its marks.
LEMMA SinceType ==
    ASSUME NEW es \in Seq(Event)
    PROVE  JournalSince(es) \in 0 .. SnapshotEvery
<1> DEFINE marks == {0} \cup {es[i].since : i \in DOMAIN es}
<1>1. SnapshotEvery \in Nat
    BY JournalAssumption
<1>2. \A e \in Event : e.since \in 0 .. SnapshotEvery
    BY DEF Event
<1>3. \A i \in DOMAIN es : es[i] \in Event
    OBVIOUS
<1>4. \A m \in marks : m \in 0 .. SnapshotEvery
    BY <1>1, <1>2, <1>3
<1>5. JournalSince(es) = CHOOSE m \in marks : \A n \in marks : n <= m
    BY DEF JournalSince
<1>6. 0 \in marks
    OBVIOUS
<1> HIDE DEF marks
<1>7. marks \in SUBSET Nat /\ marks # {} /\ \A m \in marks : m <= SnapshotEvery
    BY <1>1, <1>4, <1>6
<1>8. \E m \in marks : \A n \in marks : n <= m
    BY <1>1, <1>7, GreatestExists
<1>9. JournalSince(es) \in marks
    BY <1>5, <1>8
<1> QED BY <1>4, <1>9

-----------------------------------------------------------------------------
(* The journal: the invariant.                                             *)

\* A task record: an anchor, or the bare checkpoint of an older release.
Stored == [format : {1, 2}, snapshot : Checkpoint, log : Nat]

\* The checkpointWriter.
Writer == [ready : BOOLEAN, log : Nat, steps : 0 .. SnapshotEvery,
           baseline : Checkpoint, anchor : Stored \cup {NoAnchor}]

\* Every variable has its type, and no log name is used before it is made.
JournalTyped ==
    /\ store \in Stored \cup {NoAnchor} /\ (store # NoAnchor => store.log <= created)
    /\ logs \in [DOMAIN logs -> Log] /\ DOMAIN logs \subseteq 1 .. created
    /\ unended \subseteq DOMAIN logs
    /\ writer \in Writer /\ writer.log <= created
    /\ mem \in Checkpoint /\ attempt \in Checkpoint
    /\ acked \in Checkpoint \cup {NoAnchor}
    /\ tail \in Seq(Event)
    /\ phase \in Phases
    /\ created \in Nat /\ saves \in 0 .. MaxSaves /\ faults \in 0 .. MaxFaults

\* The writer's anchor and the lines of its log stand for cp, unless lines of the
\* log were joined.
Continues(cp) ==
    /\ writer.ready
    /\ writer.anchor \in Stored
    /\ writer.anchor.format = 2 /\ writer.anchor.log = writer.log
    /\ ~ HasJoined(Lines(writer.log)) =>
          /\ Lines(writer.log) \in Seq(Event)
          /\ Replay(writer.anchor.snapshot, Lines(writer.log)) = cp

\* The save under way, and how much of its difference is written.
Events == DiffCheckpoint(acked, mem)
Written == Len(Events) - Len(tail)

\* While a slice runs, the last save and the present one are known.
BusyPlace == acked \in Checkpoint /\ attempt = mem

\* Between two saves the disk stands for the loop's checkpoint.
RunPlace ==
    /\ store = writer.anchor
    /\ acked = mem /\ writer.baseline = mem
    /\ Continues(mem)

\* Before a save the disk stands for the last one, and a writer that is ready
\* goes on from there.
SavePlace ==
    /\ LogIntact => Recovered = acked
    /\ writer.ready => /\ store = writer.anchor
                       /\ writer.baseline = acked
                       /\ Continues(acked)

\* The new log is there, empty, and nobody names it yet.
SwapPlace ==
    /\ LogIntact => Recovered = acked
    /\ created \in DOMAIN logs /\ logs[created] = << >>
    /\ writer.log # created
    /\ store # NoAnchor => store.log # created

\* The lines written so far stand for the last save and the beginning of the
\* difference; the tail is the rest of it.
AppendPlace ==
    /\ store = writer.anchor
    /\ writer.baseline = acked
    /\ SameCheckpointPrefix(acked, mem)
    /\ Written \in 0 .. Len(Events)
    /\ \A i \in 1 .. Len(tail) : tail[i] = [Events[Written + i] EXCEPT !.since = writer.steps]
    /\ Continues(Replay(acked, SubSeq(Events, 1, Written)))
    /\ tail # << >> => writer.log \in DOMAIN logs

\* The disk stands for the last save or already for this one, which the writer
\* stands for.
PersistPlace ==
    /\ LogIntact => Recovered \in {acked, mem}
    /\ writer.baseline = mem
    /\ Continues(mem)

\* The inductive invariant: for each place of a save what disk and writer hold.
JournalInv ==
    /\ JournalTyped
    /\ phase # "off" => BusyPlace
    /\ phase = "off" => NothingLostWithLogIntact
    /\ phase = "run" => RunPlace
    /\ phase = "save" => SavePlace
    /\ phase = "swap" => SwapPlace
    /\ phase = "append" => AppendPlace
    /\ phase = "persist" => PersistPlace

-----------------------------------------------------------------------------
(* The journal: what the invariant says of the disk.                       *)

\* The parts of the type.
LEMMA TypedFacts ==
    ASSUME JournalTyped
    PROVE  /\ store \in Stored \cup {NoAnchor} /\ (store # NoAnchor => store.log <= created)
           /\ DOMAIN logs \subseteq 1 .. created /\ \A n \in DOMAIN logs : logs[n] \in Log
           /\ logs = [n \in DOMAIN logs |-> logs[n]] /\ unended \subseteq DOMAIN logs
           /\ writer \in Writer /\ writer.log <= created
           /\ mem \in Checkpoint /\ attempt \in Checkpoint
           /\ acked \in Checkpoint \cup {NoAnchor}
           /\ tail \in Seq(Event)
           /\ phase \in Phases
           /\ created \in Nat /\ saves \in 0 .. MaxSaves /\ faults \in 0 .. MaxFaults
BY DEF JournalTyped

\* The fields of a writer and of a record.
LEMMA RecordFacts ==
    /\ \A w \in Writer : /\ w.ready \in BOOLEAN /\ w.log \in Nat
                         /\ w.steps \in 0 .. SnapshotEvery /\ w.baseline \in Checkpoint
                         /\ w.anchor \in Stored \cup {NoAnchor}
    /\ \A r \in Stored : /\ r.format \in {1, 2} /\ r.snapshot \in Checkpoint /\ r.log \in Nat
                         /\ r # NoAnchor
<1>1. \A w \in Writer : /\ w.ready \in BOOLEAN /\ w.log \in Nat
                        /\ w.steps \in 0 .. SnapshotEvery /\ w.baseline \in Checkpoint
                        /\ w.anchor \in Stored \cup {NoAnchor}
    BY DEF Writer
<1>2. \A r \in Stored : /\ r.format \in {1, 2} /\ r.snapshot \in Checkpoint /\ r.log \in Nat
    BY DEF Stored
<1>3. \A r \in Stored : r # NoAnchor
    BY JournalAssumption DEF Stored
<1> QED BY <1>1, <1>2, <1>3

\* The lines of any log are a log.
LEMMA LinesType ==
    ASSUME JournalTyped, NEW n
    PROVE  Lines(n) \in Log
<1>1. << >> \in Log
    <2>1. << >> \in Seq(Event)
        OBVIOUS
    <2> QED BY <2>1, ReadableWhole
<1> QED BY <1>1, TypedFacts DEF Lines

\* What a restart finds is a checkpoint, or cannot be replayed.
LEMMA RecoveredType ==
    ASSUME JournalTyped
    PROVE  Recovered \in Checkpoint \cup {Rejected}
<1>1. CASE store = NoAnchor
    BY <1>1, JournalAssumption DEF Recovered
<1>2. CASE store # NoAnchor
    <2>1. store \in Stored
        BY <1>2, TypedFacts
    <2>2. store.snapshot \in Checkpoint
        BY <2>1, RecordFacts
    <2>3. Readable(Lines(store.log)) \in Seq(Event)
        BY LinesType, ReadableLog
    <2>4. Replay(store.snapshot, Readable(Lines(store.log))) \in Checkpoint \cup {Rejected}
        BY <2>2, <2>3, ReplayType
    <2> QED BY <1>2, <2>2, <2>4 DEF Recovered, Load
<1> QED BY <1>1, <1>2

\* A disk that is the writer's anchor and log stands for what the writer does.
LEMMA DiskIsWritten ==
    ASSUME NEW cp, Continues(cp), store = writer.anchor, LogIntact
    PROVE  Recovered = cp
<1>1. /\ writer.anchor \in Stored /\ writer.anchor.format = 2
      /\ writer.anchor.log = writer.log
    BY DEF Continues
<1>2. store # NoAnchor /\ store.format # 1
    BY <1>1, RecordFacts
<1>3. ~ HasJoined(Lines(writer.log))
    BY <1>1, <1>2 DEF LogIntact, Lines
<1>4. /\ Lines(writer.log) \in Seq(Event)
      /\ Replay(writer.anchor.snapshot, Lines(writer.log)) = cp
    BY <1>3 DEF Continues
<1>5. Readable(Lines(writer.log)) = Lines(writer.log)
    BY <1>4, ReadableWhole
<1> QED BY <1>1, <1>2, <1>4, <1>5 DEF Recovered, Load

\* The last save and the present one are both allowed after a restart.
LEMMA EndsAllowed ==
    ASSUME JournalTyped, acked \in Checkpoint
    PROVE  acked \in BetweenSaves /\ attempt \in BetweenSaves
<1> DEFINE events == DiffCheckpoint(acked, attempt)
<1>1. Len(events) \in Nat
    <2>1. events \in Seq(Event)
        BY DiffType, TypedFacts
    <2> HIDE DEF events
    <2> QED BY <2>1
<1>2. SubSeq(events, 1, 0) = << >>
    OBVIOUS
<1>3. Replay(acked, SubSeq(events, 1, 0)) = acked
    BY <1>2, ReplayEmpty
<1>4. 0 \in 0 .. Len(events)
    BY <1>1
<1>5. BetweenSaves = {Replay(acked, SubSeq(events, 1, k)) : k \in 0 .. Len(events)}
                     \cup {attempt}
    BY DEF BetweenSaves, PartWay
<1> HIDE DEF events
<1> QED BY <1>3, <1>4, <1>5

\* In every place of a save, whatever happens next, nothing is lost.
LEMMA SafeNow ==
    ASSUME JournalInv
    PROVE  NothingLostWithLogIntact
<1> USE DEF JournalInv
<1>1. CASE phase = "off"
    BY <1>1
<1>2. CASE phase # "off"
    <2>1. acked \in Checkpoint /\ attempt = mem
        BY <1>2 DEF BusyPlace
    <2>2. acked \in BetweenSaves /\ attempt \in BetweenSaves
        BY <2>1, EndsAllowed
    <2>3. CASE phase = "run"
        <3>1. LogIntact => Recovered = mem
            BY <2>3, DiskIsWritten DEF RunPlace
        <3> QED BY <2>1, <2>2, <3>1 DEF NothingLostWithLogIntact
    <2>4. CASE phase = "save"
        BY <2>2, <2>4 DEF SavePlace, NothingLostWithLogIntact
    <2>5. CASE phase = "swap"
        BY <2>2, <2>5 DEF SwapPlace, NothingLostWithLogIntact
    <2>6. CASE phase = "append"
        <3>1. AppendPlace
            BY <2>6
        <3>2. LogIntact => Recovered = Replay(acked, SubSeq(Events, 1, Written))
            BY <3>1, DiskIsWritten DEF AppendPlace
        <3>3. Written \in 0 .. Len(Events)
            BY <3>1 DEF AppendPlace
        <3>4. LogIntact => Recovered \in BetweenSaves
            BY <2>1, <3>2, <3>3 DEF BetweenSaves, PartWay, Events
        <3> QED BY <3>4 DEF NothingLostWithLogIntact
    <2>7. CASE phase = "persist"
        BY <2>1, <2>2, <2>7 DEF PersistPlace, NothingLostWithLogIntact
    <2>8. phase \in Phases
        BY TypedFacts
    <2> QED BY <1>2, <2>3, <2>4, <2>5, <2>6, <2>7, <2>8 DEF Phases
<1> QED BY <1>1, <1>2

\* A restart reads the same when the disk does not change.
LEMMA DiskSame ==
    ASSUME store' = store, logs' = logs
    PROVE  Recovered' = Recovered /\ (LogIntact' <=> LogIntact) /\ \A n : Lines(n)' = Lines(n)
<1>1. \A n : Lines(n)' = Lines(n)
    BY DEF Lines
<1>2. (LogIntact' <=> LogIntact)
    BY DEF LogIntact
<1>3. Recovered' = Recovered
    BY DEF Recovered, Load, Lines
<1> QED BY <1>1, <1>2, <1>3

\* Other logs may come and go: as long as the log of the record is there and
\* was there with the same lines, a restart reads the same.
LEMMA OtherLogs ==
    ASSUME JournalTyped, store' = store,
           store # NoAnchor /\ store.log \in DOMAIN logs' =>
               store.log \in DOMAIN logs /\ logs'[store.log] = logs[store.log],
           LogIntact'
    PROVE  LogIntact /\ Recovered' = Recovered
<1>1. CASE store = NoAnchor
    BY <1>1 DEF LogIntact, Recovered
<1>2. CASE store # NoAnchor /\ store.format = 1
    BY <1>2 DEF LogIntact, Recovered, Load
<1>3. CASE store # NoAnchor /\ store.format # 1
    <2>1. store.log \in DOMAIN logs'
        BY <1>3 DEF LogIntact
    <2>2. store.log \in DOMAIN logs /\ logs'[store.log] = logs[store.log]
        BY <1>3, <2>1
    <2>3. Lines(store.log)' = Lines(store.log)
        BY <2>1, <2>2 DEF Lines
    <2> QED BY <1>3, <2>2, <2>3 DEF LogIntact, Recovered, Load
<1> QED BY <1>1, <1>2, <1>3

\* A writer goes on standing for the same while its log and anchor are the same.
LEMMA StillContinues ==
    ASSUME NEW cp, Continues(cp), logs' = logs,
           writer'.ready = writer.ready, writer'.log = writer.log,
           writer'.anchor = writer.anchor
    PROVE  Continues(cp)'
<1>2. \A n : Lines(n)' = Lines(n)
    BY DEF Lines
<1> QED BY <1>2 DEF Continues

-----------------------------------------------------------------------------
(* The journal: the invariant holds at first and every step keeps it.      *)

\* The zero writer.
LEMMA NewWriterType == NewWriter \in Writer /\ NewWriter.ready = FALSE /\ NewWriter.log = 0
BY JournalAssumption DEF NewWriter, Writer, NoLog

\* Initially nothing was saved.
LEMMA JournalInit ==
    ASSUME Init
    PROVE  JournalInv
<1>1. store \in Stored \cup {NoAnchor} /\ (store # NoAnchor => store.log = 0)
    <2>1. Version1(Fresh) \in Stored /\ Version1(Fresh).log = 0
        BY JournalAssumption DEF Version1, Stored, NoLog
    <2> QED BY <2>1 DEF Init
<1>2. logs = << >> /\ logs \in [DOMAIN logs -> Log] /\ DOMAIN logs = {} /\ unended = {}
    BY DEF Init
<1>3. JournalTyped
    <2>1. writer \in Writer /\ writer.log <= created /\ created = 0
        BY NewWriterType DEF Init
    <2>2. tail \in Seq(Event)
        BY DEF Init
    <2>3. mem \in Checkpoint /\ attempt \in Checkpoint /\ acked \in Checkpoint \cup {NoAnchor}
        BY JournalAssumption DEF Init
    <2>4. phase \in Phases
        BY DEF Init, Phases
    <2>5. saves \in 0 .. MaxSaves /\ faults \in 0 .. MaxFaults
        BY JournalAssumption DEF Init
    <2>6. (store # NoAnchor => store.log <= created)
        BY <1>1, <2>1
    <2> QED BY <1>1, <1>2, <2>1, <2>2, <2>3, <2>4, <2>5, <2>6 DEF JournalTyped
<1>4. phase = "off" /\ NothingLostWithLogIntact
    BY DEF Init, NothingLostWithLogIntact
<1> QED BY <1>3, <1>4 DEF JournalInv

\* A slice that ends, however it ends, leaves the disk; what was not lost
\* before is not lost after.
LEMMA ForgetKeeps ==
    ASSUME JournalInv, Forget,
           UNCHANGED << store, logs, unended, created, acked, attempt, saves >>,
           faults' \in 0 .. MaxFaults
    PROVE  JournalInv'
<1>1. JournalTyped
    BY DEF JournalInv
<1>2. phase' = "off" /\ writer' = NewWriter /\ mem' = Fresh /\ tail' = << >>
    BY DEF Forget
<1>3. JournalTyped'
    <2>1. writer' \in Writer /\ writer'.log <= created'
        BY <1>1, <1>2, NewWriterType, TypedFacts
    <2>2. mem' \in Checkpoint /\ tail' \in Seq(Event) /\ phase' \in Phases
        BY <1>2, JournalAssumption DEF Phases
    <2> QED BY <1>1, <2>1, <2>2 DEF JournalTyped
<1>4. NothingLostWithLogIntact
    BY SafeNow
<1>5. NothingLostWithLogIntact'
    <2>1. Recovered' = Recovered /\ (LogIntact' <=> LogIntact)
        BY DiskSame
    <2>2. BetweenSaves' = BetweenSaves
        BY DEF BetweenSaves, PartWay
    <2> QED BY <1>4, <2>1, <2>2 DEF NothingLostWithLogIntact
<1> QED BY <1>2, <1>3, <1>5 DEF JournalInv

\* Resume starts from what the disk stands for.
LEMMA ResumeKeeps ==
    ASSUME JournalInv, Resume
    PROVE  JournalInv'
<1>1. JournalTyped
    BY DEF JournalInv
<1>2. /\ phase' = "save" /\ Recovered # Rejected
      /\ store' = store /\ logs' = logs /\ unended' = unended /\ created' = created
      /\ tail' = tail /\ saves' = saves /\ faults' = faults
      /\ mem' = [Recovered EXCEPT !.state[Stalls] = 0] /\ attempt' = mem'
      /\ acked' = Recovered
      /\ writer' = IF store = NoAnchor THEN NewWriter ELSE Adopt(store, Recovered)
    BY DEF Resume, disk
<1>3. Recovered \in Checkpoint
    BY <1>1, <1>2, RecoveredType
<1>4. mem' \in Checkpoint
    <2>1. /\ Recovered.messages \in Seq(Message) /\ Recovered.pending \in Seq(Call)
          /\ Recovered.state \in [StateField -> FieldValue]
          /\ Recovered = [messages |-> Recovered.messages, pending |-> Recovered.pending,
                          state |-> Recovered.state]
        BY <1>3, CheckpointParts
    <2> DEFINE st == [Recovered.state EXCEPT ![Stalls] = 0]
               cp == Recovered
    <2>2. st \in [StateField -> FieldValue]
        BY <2>1, JournalAssumption
    <2>3. mem' = [Recovered EXCEPT !.state = st]
        BY <1>2
    <2>4. mem' = [messages |-> Recovered.messages, pending |-> Recovered.pending, state |-> st]
        BY <2>1, <2>3
    <2> HIDE DEF st
    <2> QED BY <2>1, <2>2, <2>4, CheckpointMade
<1>5. Recovered' = Recovered /\ (LogIntact' <=> LogIntact) /\ \A n : Lines(n)' = Lines(n)
    BY <1>2, DiskSame
<1> DEFINE adopts == store # NoAnchor /\ store.format = 2 /\ ~ Truncated(Lines(store.log))
           adopted == [ready |-> TRUE, log |-> store.log,
                       steps |-> JournalSince(Lines(store.log)),
                       baseline |-> Recovered, anchor |-> store]
<1>6. writer' = IF adopts THEN adopted ELSE NewWriter
    BY <1>2 DEF Adopt
<1>7. ASSUME adopts
      PROVE  /\ store \in Stored /\ Lines(store.log) \in Seq(Event)
             /\ Replay(store.snapshot, Lines(store.log)) = Recovered
             /\ adopted \in Writer /\ store.log <= created
    <2>1. store \in Stored /\ store.log <= created
        BY <1>1, <1>7, TypedFacts
    <2>2. Lines(store.log) \in Log
        BY <1>1, LinesType
    <2>3. Lines(store.log) \in Seq(Event)
        BY <1>7, <2>2, ReadableLog
    <2>4. Readable(Lines(store.log)) = Lines(store.log)
        BY <2>3, ReadableWhole
    <2>5. Recovered = Replay(store.snapshot, Lines(store.log))
        BY <1>7, <2>4 DEF Recovered, Load
    <2>6. JournalSince(Lines(store.log)) \in 0 .. SnapshotEvery
        BY <2>3, SinceType
    <2>7. store.log \in Nat
        BY <2>1, RecordFacts
    <2>8. adopted \in Writer
        BY <1>3, <2>1, <2>6, <2>7 DEF Writer
    <2> QED BY <2>1, <2>3, <2>5, <2>8
<1>8. JournalTyped'
    <2>1. writer' \in Writer /\ writer'.log <= created'
        <3>1. CASE adopts
            <4>1. writer' = adopted /\ adopted.log = store.log
                BY <1>6, <3>1
            <4>2. adopted \in Writer /\ store.log <= created
                BY <1>7, <3>1
            <4> HIDE DEF adopted, adopts
            <4> QED BY <1>2, <4>1, <4>2
        <3>2. CASE ~ adopts
            BY <1>1, <1>2, <1>6, <3>2, NewWriterType, TypedFacts
        <3> QED BY <3>1, <3>2
    <2>2. attempt' \in Checkpoint /\ acked' \in Checkpoint \cup {NoAnchor}
        BY <1>2, <1>3, <1>4
    <2>3. phase' \in Phases
        BY <1>2 DEF Phases
    <2> QED BY <1>1, <1>2, <1>4, <2>1, <2>2, <2>3 DEF JournalTyped
<1>9. SavePlace'
    <2>1. LogIntact' => Recovered' = acked'
        BY <1>2, <1>5
    <2>2. ASSUME writer'.ready
          PROVE  store' = writer'.anchor /\ writer'.baseline = acked' /\ Continues(acked)'
        <3>1. adopts
            BY <1>6, <2>2, NewWriterType
        <3>2. writer' = adopted
            BY <1>6, <3>1
        <3>3. /\ writer'.ready /\ writer'.log = store.log /\ writer'.baseline = Recovered
              /\ writer'.anchor = store
            BY <3>2
        <3>4. Lines(writer.log)' = Lines(store.log)
            BY <1>2, <3>3 DEF Lines
        <3> HIDE DEF adopted
        <3>5. Continues(acked)'
            BY <1>2, <1>7, <3>1, <3>3, <3>4 DEF Continues
        <3> QED BY <1>2, <3>3, <3>5
    <2> QED BY <2>1, <2>2 DEF SavePlace
<1>10. BusyPlace'
    BY <1>2, <1>3 DEF BusyPlace
<1> QED BY <1>2, <1>8, <1>9, <1>10 DEF JournalInv

\* The loop's next checkpoint is saved from where the last save left the disk.
LEMMA NextCheckpointKeeps ==
    ASSUME JournalInv, NEW cp \in Checkpoint, NextCheckpoint(cp)
    PROVE  JournalInv'
<1>1. JournalTyped /\ RunPlace /\ BusyPlace
    BY DEF JournalInv, NextCheckpoint
<1>2. /\ phase' = "save" /\ mem' = cp /\ attempt' = cp
      /\ saves < MaxSaves /\ saves' = saves + 1
      /\ store' = store /\ logs' = logs /\ unended' = unended /\ created' = created
      /\ writer' = writer /\ tail' = tail /\ acked' = acked /\ faults' = faults
    BY DEF NextCheckpoint, disk
<1>3. JournalTyped'
    <2>1. saves' \in 0 .. MaxSaves
        BY <1>1, <1>2, TypedFacts, JournalAssumption
    <2>2. phase' \in Phases
        BY <1>2 DEF Phases
    <2> QED BY <1>1, <1>2, <2>1, <2>2 DEF JournalTyped
<1>4. SavePlace'
    <2>1. store = writer.anchor /\ acked = mem /\ writer.baseline = mem /\ Continues(acked)
        BY <1>1 DEF RunPlace
    <2>2. LogIntact => Recovered = acked
        BY <2>1, DiskIsWritten
    <2>3. LogIntact' => Recovered' = acked'
        BY <1>2, <2>2, DiskSame
    <2>4. Continues(acked)'
        BY <1>2, <2>1 DEF Continues, Lines
    <2> QED BY <1>2, <2>1, <2>3, <2>4 DEF SavePlace
<1>5. BusyPlace'
    BY <1>1, <1>2 DEF BusyPlace
<1> QED BY <1>2, <1>3, <1>4, <1>5 DEF JournalInv

\* Changing the parts of a checkpoint gives a checkpoint.
LEMMA CheckpointEdited ==
    ASSUME NEW cp \in Checkpoint, NEW ms \in Seq(Message), NEW ps \in Seq(Call),
           NEW st \in [StateField -> FieldValue]
    PROVE  /\ [cp EXCEPT !.messages = ms, !.pending = ps, !.state = st] \in Checkpoint
           /\ [cp EXCEPT !.messages = ms, !.pending = ps] \in Checkpoint
           /\ [cp EXCEPT !.messages = ms] \in Checkpoint
           /\ [cp EXCEPT !.state = st] \in Checkpoint
BY DEF Checkpoint

\* Whatever the loop does to its checkpoint gives a checkpoint.
LEMMA LoopStepKeeps ==
    ASSUME JournalInv, LoopStep
    PROVE  JournalInv'
<1>1. mem \in Checkpoint
    BY TypedFacts DEF JournalInv
<1>2. /\ mem.messages \in Seq(Message) /\ mem.pending \in Seq(Call)
      /\ mem.state \in [StateField -> FieldValue]
    BY <1>1, CheckpointParts
<1>3. CASE ModelAsksForTools
    <2> SUFFICES ASSUME NEW m \in Message,
                        NEW calls \in {<< c >> : c \in Call} \cup (Call \X Call),
                        NextCheckpoint([mem EXCEPT !.messages = Append(@, m),
                                                   !.pending = calls, !.state[Batch] = @ + 1])
                 PROVE  JournalInv'
        BY <1>3 DEF ModelAsksForTools
    <2> DEFINE st == [mem.state EXCEPT ![Batch] = @ + 1]
               ms == Append(mem.messages, m)
               cp == [mem EXCEPT !.messages = ms, !.pending = calls, !.state = st]
    <2>1. mem.state[Batch] + 1 \in FieldValue
        BY <1>3 DEF ModelAsksForTools
    <2>2. st \in [StateField -> FieldValue]
        <3> DEFINE n == mem.state[Batch] + 1
        <3>1. st = [mem.state EXCEPT ![Batch] = n]
            OBVIOUS
        <3>2. n \in FieldValue
            BY <2>1
        <3> HIDE DEF n
        <3> QED BY <1>2, <3>1, <3>2
    <2>3. ms \in Seq(Message)
        BY <1>2
    <2>4. calls \in Seq(Call)
        <3>1. ASSUME NEW c \in Call PROVE << c >> \in Seq(Call)
            OBVIOUS
        <3>2. ASSUME NEW cs \in Call \X Call PROVE cs \in Seq(Call)
            <4>1. cs = << cs[1], cs[2] >> /\ cs[1] \in Call /\ cs[2] \in Call
                OBVIOUS
            <4>2. ASSUME NEW c \in Call, NEW d \in Call PROVE << c, d >> \in Seq(Call)
                OBVIOUS
            <4> QED BY <4>1, <4>2
        <3> QED BY <3>1, <3>2
    <2>5. NextCheckpoint(cp)
        OBVIOUS
    <2> HIDE DEF st, ms
    <2>6. cp \in Checkpoint
        BY <1>1, <2>2, <2>3, <2>4, CheckpointEdited
    <2> HIDE DEF cp
    <2> QED BY <2>5, <2>6, NextCheckpointKeeps
<1>4. CASE ToolAnswers
    <2> SUFFICES ASSUME NEW m \in Message,
                        NextCheckpoint([mem EXCEPT !.messages = Append(@, m),
                                                   !.pending = Tail(@)])
                 PROVE  JournalInv'
        BY <1>4 DEF ToolAnswers
    <2> DEFINE ms == Append(mem.messages, m)
               ps == Tail(mem.pending)
               cp == [mem EXCEPT !.messages = ms, !.pending = ps]
    <2>1. mem.pending # << >>
        BY <1>4 DEF ToolAnswers
    <2>2. ps \in Seq(Call)
        BY <1>2, <2>1
    <2>3. ms \in Seq(Message)
        BY <1>2
    <2>4. NextCheckpoint(cp)
        OBVIOUS
    <2> HIDE DEF ms, ps
    <2>5. cp \in Checkpoint
        BY <1>1, <1>2, <2>2, <2>3, CheckpointEdited
    <2> HIDE DEF cp
    <2> QED BY <2>4, <2>5, NextCheckpointKeeps
<1>5. CASE FieldsChange
    <2> SUFFICES ASSUME NEW f \in StateField \ {Batch}, NEW v \in FieldValue,
                        NextCheckpoint([mem EXCEPT !.state[f] = v])
                 PROVE  JournalInv'
        BY <1>5 DEF FieldsChange
    <2> DEFINE st == [mem.state EXCEPT ![f] = v]
               cp == [mem EXCEPT !.state = st]
    <2>1. st \in [StateField -> FieldValue]
        BY <1>2
    <2>2. NextCheckpoint(cp)
        OBVIOUS
    <2> HIDE DEF st
    <2>3. cp \in Checkpoint
        BY <1>1, <1>2, <2>1, CheckpointEdited
    <2> HIDE DEF cp
    <2> QED BY <2>2, <2>3, NextCheckpointKeeps
<1>6. CASE TranscriptRewritten
    <2> SUFFICES ASSUME NEW m \in Message,
                        NextCheckpoint([mem EXCEPT !.messages = << m >>, !.pending = Tail(@)])
                 PROVE  JournalInv'
        BY <1>6 DEF TranscriptRewritten
    <2> DEFINE ms == << m >>
               ps == Tail(mem.pending)
               cp == [mem EXCEPT !.messages = ms, !.pending = ps]
    <2>1. ms \in Seq(Message)
        OBVIOUS
    <2>2. ps \in Seq(Call)
        BY <1>2, <1>6 DEF TranscriptRewritten
    <2>3. NextCheckpoint(cp)
        OBVIOUS
    <2> HIDE DEF ms, ps
    <2>4. cp \in Checkpoint
        BY <1>1, <1>2, <2>1, <2>2, CheckpointEdited
    <2> HIDE DEF cp
    <2> QED BY <2>3, <2>4, NextCheckpointKeeps
<1> QED BY <1>3, <1>4, <1>5, <1>6 DEF LoopStep

\* A new log nobody names changes nothing.
LEMMA CreateLogKeeps ==
    ASSUME JournalInv, CreateLog
    PROVE  JournalInv'
<1>1. JournalTyped /\ SavePlace /\ BusyPlace
    BY DEF JournalInv, CreateLog
<1>2. /\ phase' = "swap" /\ created' = created + 1
      /\ store' = store /\ writer' = writer /\ mem' = mem /\ tail' = tail
      /\ acked' = acked /\ attempt' = attempt /\ saves' = saves /\ faults' = faults
      /\ unended' = unended
    BY DEF CreateLog, memory
<1>3. logs' = [n \in DOMAIN logs \cup {created + 1} |->
                 IF n \in DOMAIN logs THEN logs[n] ELSE << >>]
    BY DEF CreateLog, Lines
<1>4. created + 1 \notin DOMAIN logs /\ created \in Nat
    BY <1>1, TypedFacts
<1>5. << >> \in Log
    <2>1. << >> \in Seq(Event)
        OBVIOUS
    <2> QED BY <2>1, ReadableWhole
<1>6. JournalTyped'
    <2>1. \A n \in DOMAIN logs' : logs'[n] \in Log
        BY <1>1, <1>3, <1>5, TypedFacts
    <2>2. logs' = [n \in DOMAIN logs' |-> logs'[n]]
        BY <1>3
    <2>3. logs' \in [DOMAIN logs' -> Log]
        BY <2>1, <2>2
    <2>4. DOMAIN logs' \subseteq 1 .. created'
        BY <1>1, <1>2, <1>3, <1>4, TypedFacts
    <2>5. store' # NoAnchor => store'.log <= created'
        <3> SUFFICES ASSUME store # NoAnchor PROVE store.log <= created + 1
            BY <1>2
        <3>1. store.log \in Nat /\ store.log <= created
            BY <1>1, TypedFacts, RecordFacts
        <3> QED BY <1>4, <3>1
    <2>6. writer'.log <= created' /\ created' \in Nat
        <3>1. writer.log \in Nat /\ writer.log <= created
            BY <1>1, TypedFacts, RecordFacts
        <3> QED BY <1>2, <1>4, <3>1
    <2>7. phase' \in Phases
        BY <1>2 DEF Phases
    <2>8. unended' \subseteq DOMAIN logs'
        BY <1>1, <1>2, <1>3, TypedFacts
    <2> QED BY <1>1, <1>2, <2>3, <2>4, <2>5, <2>6, <2>7, <2>8 DEF JournalTyped
<1>7. SwapPlace'
    <2>1. LogIntact' => Recovered' = acked'
        <3> SUFFICES ASSUME LogIntact' PROVE Recovered' = acked'
            OBVIOUS
        <3>1. ASSUME store # NoAnchor, store.log \in DOMAIN logs'
              PROVE  store.log \in DOMAIN logs /\ logs'[store.log] = logs[store.log]
            <4>1. store.log \in Nat /\ store.log <= created
                BY <1>1, <3>1, TypedFacts, RecordFacts
            <4>2. store.log # created + 1
                BY <1>4, <4>1
            <4> QED BY <1>3, <3>1, <4>2
        <3>2. LogIntact /\ Recovered' = Recovered
            BY <1>1, <1>2, <3>1, OtherLogs
        <3> QED BY <1>1, <1>2, <3>2 DEF SavePlace
    <2>2. created' \in DOMAIN logs' /\ logs'[created'] = << >>
        BY <1>2, <1>3, <1>4
    <2>3. writer'.log # created'
        <3>1. writer.log \in Nat /\ writer.log <= created
            BY <1>1, TypedFacts, RecordFacts
        <3> QED BY <1>2, <1>4, <3>1
    <2>4. store' # NoAnchor => store'.log # created'
        <3> SUFFICES ASSUME store # NoAnchor PROVE store.log # created + 1
            BY <1>2
        <3>1. store.log \in Nat /\ store.log <= created
            BY <1>1, TypedFacts, RecordFacts
        <3> QED BY <1>4, <3>1
    <2> QED BY <2>1, <2>2, <2>3, <2>4 DEF SwapPlace
<1>8. BusyPlace'
    BY <1>1, <1>2 DEF BusyPlace
<1> QED BY <1>2, <1>6, <1>7, <1>8 DEF JournalInv

\* The writer moves to its new, empty log, and its anchor is the checkpoint.
LEMMA SwapLogKeeps ==
    ASSUME JournalInv, SwapLog
    PROVE  JournalInv'
<1>1. JournalTyped /\ SwapPlace /\ BusyPlace
    BY DEF JournalInv, SwapLog
<1> DEFINE w == [ready |-> TRUE, log |-> created, steps |-> 0,
                 baseline |-> mem, anchor |-> Anchor(mem, created)]
<1>2. /\ phase' = "persist" /\ writer' = w
      /\ logs' = [n \in DOMAIN logs \ {writer.log} |-> logs[n]]
      /\ store' = store /\ mem' = mem /\ tail' = tail /\ acked' = acked
      /\ attempt' = attempt /\ created' = created /\ saves' = saves /\ faults' = faults
      /\ unended' = unended \ {writer.log}
    BY DEF SwapLog
<1>3. created \in Nat /\ mem \in Checkpoint
    BY <1>1, TypedFacts
<1>4. Anchor(mem, created) \in Stored
    BY <1>3 DEF Anchor, Stored
<1>5. w \in Writer
    BY <1>3, <1>4, JournalAssumption DEF Writer
<1>6. /\ w.ready /\ w.log = created /\ w.baseline = mem
      /\ w.anchor = Anchor(mem, created)
    OBVIOUS
<1> HIDE DEF w
<1>7. JournalTyped'
    <2>1. \A n \in DOMAIN logs' : logs'[n] \in Log
        BY <1>1, <1>2, TypedFacts
    <2>2. logs' = [n \in DOMAIN logs' |-> logs'[n]]
        BY <1>2
    <2>3. logs' \in [DOMAIN logs' -> Log]
        BY <2>1, <2>2
    <2>4. DOMAIN logs' \subseteq 1 .. created'
        BY <1>1, <1>2, TypedFacts
    <2>5. writer' \in Writer /\ writer'.log <= created'
        BY <1>2, <1>3, <1>5, <1>6
    <2>6. phase' \in Phases
        BY <1>2 DEF Phases
    <2>7. unended' \subseteq DOMAIN logs'
        BY <1>1, <1>2, TypedFacts
    <2> QED BY <1>1, <1>2, <2>3, <2>4, <2>5, <2>6, <2>7 DEF JournalTyped
<1>8. PersistPlace'
    <2>1. LogIntact' => Recovered' = acked'
        <3> SUFFICES ASSUME LogIntact' PROVE Recovered' = acked'
            OBVIOUS
        <3>1. ASSUME store # NoAnchor, store.log \in DOMAIN logs'
              PROVE  store.log \in DOMAIN logs /\ logs'[store.log] = logs[store.log]
            BY <1>2, <3>1
        <3>2. LogIntact /\ Recovered' = Recovered
            BY <1>1, <1>2, <3>1, OtherLogs
        <3> QED BY <1>1, <1>2, <3>2 DEF SwapPlace
    <2>2. Lines(writer.log)' = << >>
        <3>1. created \in DOMAIN logs' /\ logs'[created] = << >>
            BY <1>1, <1>2 DEF SwapPlace
        <3> QED BY <1>2, <1>6, <3>1 DEF Lines
    <2>3. Continues(mem)'
        <3>1. /\ Anchor(mem, created).format = 2 /\ Anchor(mem, created).log = created
              /\ Anchor(mem, created).snapshot = mem
            BY DEF Anchor
        <3>2. Replay(mem, << >>) = mem
            BY ReplayEmpty
        <3>3. << >> \in Seq(Event)
            OBVIOUS
        <3> QED BY <1>2, <1>4, <1>6, <2>2, <3>1, <3>2, <3>3 DEF Continues
    <2> QED BY <1>2, <1>6, <2>1, <2>3 DEF PersistPlace
<1>9. BusyPlace'
    BY <1>1, <1>2 DEF BusyPlace
<1> QED BY <1>2, <1>7, <1>8, <1>9 DEF JournalInv

\* A stamped difference keeps its length, and each event but for its stamp.
LEMMA StampType ==
    ASSUME NEW es \in Seq(Event), NEW n \in 0 .. SnapshotEvery
    PROVE  /\ Stamp(es, n) \in Seq(Event) /\ Len(Stamp(es, n)) = Len(es)
           /\ \A i \in 1 .. Len(es) : Stamp(es, n)[i] = [es[i] EXCEPT !.since = n]
<1> DEFINE m == Len(es)
           s == Stamp(es, n)
<1>1. m \in Nat /\ DOMAIN es = 1 .. m /\ \A i \in 1 .. m : es[i] \in Event
    OBVIOUS
<1>2. s = [i \in 1 .. m |-> [es[i] EXCEPT !.since = n]]
    BY <1>1 DEF Stamp
<1> HIDE DEF m, s
<1>3. \A i \in 1 .. m : s[i] = [es[i] EXCEPT !.since = n]
    BY <1>2
<1>4. ASSUME NEW i \in 1 .. m PROVE s[i] \in Event
    <2>1. es[i] \in Event /\ s[i] = [es[i] EXCEPT !.since = n]
        BY <1>1, <1>3
    <2> DEFINE e == es[i]
    <2> HIDE DEF e
    <2>2. e \in Event /\ s[i] = [e EXCEPT !.since = n]
        BY <2>1 DEF e
    <2>3. [e EXCEPT !.since = n] \in Event
        BY <2>2, StampIsIdle
    <2> QED BY <2>2, <2>3
<1>5. DOMAIN s = 1 .. m
    BY <1>2
<1>6. s = [i \in 1 .. m |-> s[i]]
    BY <1>2
<1>7. s \in [1 .. m -> Event]
    BY <1>4, <1>6
<1>8. s \in Seq(Event) /\ Len(s) = m
    BY <1>1, <1>5, <1>7
<1> QED BY <1>3, <1>8 DEF m, s

\* The difference is encoded: nothing of it is written yet.
LEMMA EncodeDifferenceKeeps ==
    ASSUME JournalInv, EncodeDifference
    PROVE  JournalInv'
<1>1. JournalTyped /\ SavePlace /\ BusyPlace
    BY DEF JournalInv, EncodeDifference
<1> DEFINE new == Stamp(DiffCheckpoint(writer.baseline, mem), writer.steps + 1)
<1>2. /\ store' = store /\ logs' = logs /\ unended' = unended /\ created' = created
      /\ acked' = acked /\ attempt' = attempt /\ saves' = saves /\ faults' = faults
    BY DEF EncodeDifference, disk
<1>3. writer.ready /\ writer.steps < SnapshotEvery /\ SameCheckpointPrefix(writer.baseline, mem)
    <2>1. writer \in Writer /\ SnapshotEvery \in Nat
        BY <1>1, TypedFacts, JournalAssumption
    <2>2. writer.steps \in 0 .. SnapshotEvery
        BY <2>1, RecordFacts
    <2> QED BY <2>1, <2>2 DEF EncodeDifference, NeedsSnapshot
<1>4. store = writer.anchor /\ writer.baseline = acked /\ Continues(acked)
    BY <1>1, <1>3 DEF SavePlace
<1>5. CASE Forget
    <2>1. faults' \in 0 .. MaxFaults
        BY <1>1, <1>2, TypedFacts
    <2> QED BY <1>2, <1>5, <2>1, ForgetKeeps
<1>6. CASE /\ new = << >> \/ writer.log \in DOMAIN logs
           /\ tail' = new
           /\ writer' = [writer EXCEPT !.steps = @ + 1]
           /\ phase' = "append"
           /\ UNCHANGED mem
    <2>1. writer \in Writer /\ SnapshotEvery \in Nat /\ mem \in Checkpoint /\ acked \in Checkpoint
        BY <1>1, TypedFacts, JournalAssumption DEF BusyPlace
    <2>2. writer.steps + 1 \in 0 .. SnapshotEvery
        BY <1>3, <2>1, RecordFacts
    <2>3. Events \in Seq(Event)
        BY <2>1, DiffType DEF Events
    <2>4. new = Stamp(Events, writer.steps + 1)
        BY <1>4 DEF Events
    <2> HIDE DEF new
    <2>5. /\ new \in Seq(Event) /\ Len(new) = Len(Events)
          /\ \A i \in 1 .. Len(Events) : new[i] = [Events[i] EXCEPT !.since = writer.steps + 1]
        BY <2>2, <2>3, <2>4, StampType
    <2>6. /\ writer' \in Writer /\ writer'.steps = writer.steps + 1
          /\ writer'.ready = writer.ready /\ writer'.log = writer.log
          /\ writer'.baseline = writer.baseline /\ writer'.anchor = writer.anchor
        BY <1>6, <2>1, <2>2 DEF Writer
    <2>7. JournalTyped'
        <3>1. writer' \in Writer /\ writer'.log <= created'
            BY <1>1, <1>2, <2>6, TypedFacts
        <3>2. mem' \in Checkpoint /\ tail' \in Seq(Event) /\ phase' \in Phases
            BY <1>6, <2>1, <2>5 DEF Phases
        <3> QED BY <1>1, <1>2, <3>1, <3>2 DEF JournalTyped
    <2>8. AppendPlace'
        <3>1. Events' = Events
            BY <1>2, <1>6 DEF Events
        <3>2. Len(Events) \in Nat
            BY <2>3
        <3>3. Written' = 0
            BY <1>6, <2>5, <3>1, <3>2 DEF Written
        <3>4. \A i \in 1 .. Len(tail') :
                tail'[i] = [Events'[Written' + i] EXCEPT !.since = writer'.steps]
            <4> SUFFICES ASSUME NEW i \in 1 .. Len(Events)
                         PROVE  new[i] = [Events[0 + i] EXCEPT !.since = writer.steps + 1]
                BY <1>6, <2>5, <2>6, <3>1, <3>3
            <4>1. 0 + i = i
                BY <3>2
            <4> QED BY <2>5, <4>1
        <3>5. Continues(Replay(acked, SubSeq(Events, 1, Written)))'
            <4>1. SubSeq(Events, 1, 0) = << >>
                BY <2>3
            <4>2. Replay(acked, SubSeq(Events, 1, 0)) = acked
                BY <4>1, ReplayEmpty
            <4>3. Continues(acked)'
                BY <1>2, <1>4, <2>6, StillContinues
            <4> QED BY <1>2, <3>1, <3>3, <4>2, <4>3
        <3>6. tail' # << >> => writer'.log \in DOMAIN logs'
            BY <1>2, <1>6, <2>6
        <3>7. store' = writer'.anchor /\ writer'.baseline = acked'
            BY <1>2, <1>4, <2>6
        <3>8. SameCheckpointPrefix(acked, mem)'
            <4>1. acked' = acked /\ mem' = mem
                BY <1>2, <1>6
            <4> QED BY <1>3, <1>4, <4>1
        <3>9. Written' \in 0 .. Len(Events')
            BY <3>1, <3>2, <3>3
        <3> QED BY <3>4, <3>5, <3>6, <3>7, <3>8, <3>9 DEF AppendPlace
    <2>9. BusyPlace'
        BY <1>1, <1>2, <1>6 DEF BusyPlace
    <2> QED BY <1>6, <2>7, <2>8, <2>9 DEF JournalInv
<1> QED BY <1>5, <1>6 DEF EncodeDifference

\* What one more line of the difference stands for.
LEMMA OneMoreLine ==
    ASSUME JournalTyped, AppendPlace, acked \in Checkpoint, tail # << >>
    PROVE  /\ Written + 1 \in 0 .. Len(Events)
           /\ ReplayStep(Replay(acked, SubSeq(Events, 1, Written)), Head(tail)) =
                Replay(acked, SubSeq(Events, 1, Written + 1))
<1> DEFINE k == Written
           n == Len(Events)
           e == Events[k + 1]
           sofar == SubSeq(Events, 1, k)
<1>1. Events \in Seq(Event) /\ n \in Nat
    <2>1. Events \in Seq(Event)
        BY DiffType, TypedFacts DEF Events
    <2> QED BY <2>1
<1>2. Len(tail) \in Nat /\ Len(tail) # 0 /\ Head(tail) = tail[1]
    BY TypedFacts
<1>3. k = n - Len(tail) /\ k \in 0 .. n
    BY DEF Written, AppendPlace
<1>4. Head(tail) = [e EXCEPT !.since = writer.steps]
    <2>1. 1 \in 1 .. Len(tail)
        BY <1>2
    <2> QED BY <1>2, <2>1 DEF AppendPlace
<1> HIDE DEF k, n
<1>5. k \in Nat /\ k + 1 \in 1 .. n /\ k + 1 \in 0 .. n /\ (k + 1) - 1 = k
    BY <1>1, <1>2, <1>3
<1>6. e \in Event
    BY <1>1, <1>5 DEF n
<1>7. writer.steps \in 0 .. SnapshotEvery
    BY TypedFacts, RecordFacts
<1>8. \A cp : ApplyEvent(cp, Head(tail)) = ApplyEvent(cp, e)
    <2> HIDE DEF e
    <2> QED BY <1>4, <1>6, <1>7, StampIsIdle
<1>9. SubSeq(Events, 1, k + 1) = Append(sofar, e) /\ sofar \in Seq(Event)
    <2>1. ASSUME NEW i \in 1 .. k PROVE Events[i] \in Event
        <3>1. i \in 1 .. n
            BY <1>1, <1>5
        <3>2. i \in 1 .. Len(Events)
            BY <3>1 DEF n
        <3> QED BY <1>1, <3>2, ElementOfSeq
    <2>2. sofar \in Seq(Event)
        BY <1>5, <2>1, SubSeqProperties
    <2>3. SubSeq(Events, 1, k + 1) = SubSeq(Events, 1, (k + 1) - 1) \o << Events[k + 1] >>
        <3> DEFINE j == k + 1
        <3>1. 1 \in 1 .. Len(Events) /\ j \in 1 .. Len(Events)
            BY <1>1, <1>5 DEF n
        <3> HIDE DEF j
        <3>2. SubSeq(Events, 1, j) = SubSeq(Events, 1, j - 1) \o << Events[j] >>
            BY <1>1, <3>1, SubSeqRecursiveSecond
        <3> QED BY <3>2 DEF j
    <2>4. SubSeq(Events, 1, k + 1) = sofar \o << e >>
        BY <1>5, <2>3
    <2> HIDE DEF sofar, e
    <2>5. sofar \o << e >> = Append(sofar, e)
        BY <1>6, <2>2, AppendIsConcat
    <2> QED BY <2>2, <2>4, <2>5
<1> HIDE DEF sofar, e
<1>10. Replay(acked, Append(sofar, e)) = ReplayStep(Replay(acked, sofar), e)
    BY <1>6, <1>9, ReplayAppend
<1>11. ReplayStep(Replay(acked, sofar), Head(tail)) = ReplayStep(Replay(acked, sofar), e)
    BY <1>8 DEF ReplayStep
<1> QED BY <1>5, <1>9, <1>10, <1>11 DEF k, n, sofar

\* What a line makes of the log: lines are joined, or the log has one line more.
\* The line it may go on with is a whole one: no log with another was adopted.
LEMMA PutLine ==
    ASSUME JournalTyped, AppendPlace, NEW line \in Event \cup {Cut}, NEW ended \in BOOLEAN,
           writer.log \in DOMAIN logs, Put(line, ended), created' = created
    PROVE  /\ logs' \in [DOMAIN logs' -> Log] /\ DOMAIN logs' \subseteq 1 .. created'
           /\ DOMAIN logs' = DOMAIN logs /\ unended' \subseteq DOMAIN logs'
           /\ \/ HasJoined(logs'[writer.log])
              \/ /\ ~ HasJoined(logs[writer.log])
                 /\ logs'[writer.log] = Append(logs[writer.log], line)
<1> DEFINE n == writer.log
           old == logs[n]
           go  == IF Truncated(old) THEN old ELSE Append(Front(old), Joined)
           new == IF n \in unended THEN go ELSE Append(old, line)
<1>1. logs' = [logs EXCEPT ![n] = new] /\ unended' \subseteq unended \cup {n}
    BY DEF Put
<1>2. old \in Log
    BY TypedFacts
<1>3. DOMAIN logs' = DOMAIN logs /\ logs'[n] = new
    BY <1>1
<1>4. line \in Event \cup {Cut, Joined} /\ Joined \in Event \cup {Cut, Joined}
    OBVIOUS
<1>7. ~ HasJoined(old) => ~ Truncated(old)
    <2>1. ~ HasJoined(old) => old \in Seq(Event)
        BY DEF AppendPlace, Continues, Lines
    <2> QED BY <2>1, ReadableWhole
<1> HIDE DEF old
<1>5. new \in Log /\ (HasJoined(new) \/ (~ HasJoined(old) /\ new = Append(old, line)))
    <2>1. CASE n \in unended
        <3>1. Front(old) \in Log
            <4>1. Len(old) \in Nat /\ \A i \in 1 .. Len(old) : old[i] \in Event \cup {Cut, Joined}
                BY <1>2, LogElements
            <4>2. \A i \in 1 .. Len(old) - 1 : old[i] \in Event \cup {Cut, Joined}
                BY <4>1
            <4>3. Len(old) - 1 \in Int
                BY <4>1
            <4> QED BY <4>2, <4>3, SubSeqProperties DEF Front, Log
        <3>2. (new = old /\ HasJoined(old)) \/ new = Append(Front(old), Joined)
            BY <1>7, <2>1
        <3> QED BY <1>2, <1>4, <3>1, <3>2, LogGrows, JoinedStays
    <2>2. CASE n \notin unended
        <3>1. new = Append(old, line)
            BY <2>2
        <3> HIDE DEF new
        <3> QED BY <1>2, <1>4, <3>1, LogGrows, JoinedStays
    <2> QED BY <2>1, <2>2
<1> HIDE DEF new
<1>6. logs' \in [DOMAIN logs -> Log]
    BY <1>1, <1>5 DEF JournalTyped
<1> QED BY <1>1, <1>3, <1>5, <1>6, TypedFacts DEF old

\* One line written: the log stands for one event more of the difference, unless
\* lines are joined.
LEMMA WriteLineKeeps ==
    ASSUME JournalInv, WriteLine
    PROVE  JournalInv'
<1>1. JournalTyped /\ AppendPlace /\ BusyPlace
    BY DEF JournalInv, WriteLine
<1> DEFINE old == logs[writer.log]
           new == logs'[writer.log]
           k == Written
<1>2. /\ phase' = "append" /\ tail # << >> /\ tail' = Tail(tail) /\ Put(Head(tail), TRUE)
      /\ store' = store /\ writer' = writer /\ mem' = mem
      /\ acked' = acked /\ attempt' = attempt /\ created' = created
      /\ saves' = saves /\ faults' = faults
    BY DEF WriteLine
<1>3. writer.log \in DOMAIN logs
    BY <1>1, <1>2 DEF AppendPlace
<1>5. Continues(Replay(acked, SubSeq(Events, 1, Written)))
    BY <1>1 DEF AppendPlace
<1>6. Head(tail) \in Event /\ tail \in Seq(Event)
    <2>1. tail \in Seq(Event)
        BY <1>1, TypedFacts
    <2>2. Head(tail) \in Event
        BY <1>2, <2>1
    <2> QED BY <2>1, <2>2
<1>9. /\ logs' \in [DOMAIN logs' -> Log] /\ DOMAIN logs' \subseteq 1 .. created'
      /\ DOMAIN logs' = DOMAIN logs /\ unended' \subseteq DOMAIN logs'
      /\ HasJoined(new) \/ (~ HasJoined(old) /\ new = Append(old, Head(tail)))
    BY <1>1, <1>2, <1>3, <1>6, PutLine
<1>7. Lines(writer.log) = old /\ Lines(writer.log)' = new
    BY <1>2, <1>3, <1>9 DEF Lines
<1> HIDE DEF old, new
<1>10. JournalTyped'
    <2>1. tail' \in Seq(Event) /\ phase' \in Phases
        BY <1>2, <1>6 DEF Phases
    <2> QED BY <1>1, <1>2, <1>9, <2>1 DEF JournalTyped
<1>11. AppendPlace'
    <2>1. Events' = Events
        BY <1>2 DEF Events
    <2>2. acked \in Checkpoint
        BY <1>1 DEF BusyPlace
    <2>3. /\ k + 1 \in 0 .. Len(Events)
          /\ ReplayStep(Replay(acked, SubSeq(Events, 1, k)), Head(tail)) =
               Replay(acked, SubSeq(Events, 1, k + 1))
        BY <1>1, <1>2, <2>2, OneMoreLine
    <2>4. Len(Events) \in Nat
        <3>1. Events \in Seq(Event)
            BY <1>1, <2>2, DiffType, TypedFacts DEF Events
        <3> QED BY <3>1
    <2>5. /\ Len(tail) \in Nat /\ Len(tail') = Len(tail) - 1
          /\ \A i \in 1 .. Len(tail) - 1 : tail'[i] = tail[i + 1]
        BY <1>2, <1>6
    <2>6. k = Len(Events) - Len(tail) /\ Written' = Len(Events) - (Len(tail) - 1)
        BY <2>1, <2>5 DEF Written
    <2>7. Written' = k + 1 /\ k \in Int
        BY <2>4, <2>5, <2>6
    <2>8. \A i \in 1 .. Len(tail) : tail[i] = [Events[k + i] EXCEPT !.since = writer.steps]
        BY <1>1 DEF AppendPlace
    <2> HIDE DEF k
    <2>9. ASSUME NEW i \in 1 .. Len(tail')
          PROVE  tail'[i] = [Events'[Written' + i] EXCEPT !.since = writer'.steps]
        <3>1. i + 1 \in 1 .. Len(tail) /\ i \in 1 .. Len(tail) - 1
            BY <2>5
        <3>2. (k + 1) + i = k + (i + 1)
            BY <2>7
        <3>3. tail'[i] = tail[i + 1]
            BY <2>5, <3>1
        <3>4. tail[i + 1] = [Events[k + (i + 1)] EXCEPT !.since = writer.steps]
            BY <2>8, <3>1
        <3> QED BY <1>2, <2>1, <2>7, <3>2, <3>3, <3>4
    <2>10. Continues(Replay(acked, SubSeq(Events, 1, Written)))'
        <3>1. /\ writer.ready /\ writer.anchor \in Stored
              /\ writer.anchor.format = 2 /\ writer.anchor.log = writer.log
            BY <1>5 DEF Continues
        <3>2. ASSUME ~ HasJoined(new)
              PROVE  /\ new \in Seq(Event)
                     /\ Replay(writer.anchor.snapshot, new) =
                          Replay(acked, SubSeq(Events, 1, k + 1))
            <4>1. ~ HasJoined(old) /\ new = Append(old, Head(tail))
                BY <1>9, <3>2
            <4>2. /\ old \in Seq(Event)
                  /\ Replay(writer.anchor.snapshot, old) = Replay(acked, SubSeq(Events, 1, k))
                BY <1>5, <1>7, <4>1 DEF Continues, k
            <4>3. Replay(writer.anchor.snapshot, new) =
                    ReplayStep(Replay(writer.anchor.snapshot, old), Head(tail))
                BY <1>6, <4>1, <4>2, ReplayAppend
            <4>4. new \in Seq(Event)
                BY <1>6, <4>1, <4>2
            <4> QED BY <2>3, <4>2, <4>3, <4>4
        <3>3. Replay(acked, SubSeq(Events, 1, Written))' = Replay(acked, SubSeq(Events, 1, k + 1))
            BY <1>2, <2>1, <2>7
        <3> QED BY <1>2, <1>7, <3>1, <3>2, <3>3 DEF Continues
    <2>11. Written' \in 0 .. Len(Events')
        BY <2>1, <2>3, <2>7
    <2>12. store' = writer'.anchor /\ writer'.baseline = acked'
           /\ SameCheckpointPrefix(acked', mem') /\ writer'.log \in DOMAIN logs'
        BY <1>1, <1>2, <1>3, <1>9 DEF AppendPlace
    <2> QED BY <2>9, <2>10, <2>11, <2>12 DEF AppendPlace
<1>12. BusyPlace'
    BY <1>1, <1>2 DEF BusyPlace
<1> QED BY <1>2, <1>10, <1>11, <1>12 DEF JournalInv

\* All lines written: the disk stands for the new checkpoint.
LEMMA LinesSyncedKeeps ==
    ASSUME JournalInv, LinesSynced
    PROVE  JournalInv'
<1>1. JournalTyped /\ AppendPlace /\ BusyPlace
    BY DEF JournalInv, LinesSynced
<1>2. /\ phase' = "persist" /\ tail = << >>
      /\ writer' = [writer EXCEPT !.baseline = mem]
      /\ store' = store /\ logs' = logs /\ created' = created /\ mem' = mem /\ tail' = tail
      /\ acked' = acked /\ attempt' = attempt /\ saves' = saves /\ faults' = faults
      /\ unended' = unended
    BY DEF LinesSynced, disk
<1>3. mem \in Checkpoint /\ acked \in Checkpoint /\ writer \in Writer
    BY <1>1, TypedFacts DEF BusyPlace
<1>4. SameCheckpointPrefix(acked, mem) /\ store = writer.anchor
    BY <1>1 DEF AppendPlace
<1>5. Events \in Seq(Event) /\ Replay(acked, Events) = mem
    BY <1>3, <1>4, DifferencesReplay DEF Events
<1>6. Continues(mem)
    <2>1. Len(Events) \in Nat /\ Len(tail) = 0
        BY <1>2, <1>5
    <2>2. Written = Len(Events)
        BY <2>1 DEF Written
    <2>3. SubSeq(Events, 1, Len(Events)) = Events
        BY <1>5, SubSeqFull
    <2>4. Continues(Replay(acked, SubSeq(Events, 1, Written)))
        BY <1>1 DEF AppendPlace
    <2> QED BY <1>5, <2>2, <2>3, <2>4
<1>7. /\ writer' \in Writer /\ writer'.ready = writer.ready /\ writer'.log = writer.log
      /\ writer'.anchor = writer.anchor /\ writer'.baseline = mem
    BY <1>2, <1>3 DEF Writer
<1>8. JournalTyped'
    <2>1. writer'.log <= created'
        BY <1>1, <1>2, <1>7, TypedFacts
    <2>2. phase' \in Phases
        BY <1>2 DEF Phases
    <2> QED BY <1>1, <1>2, <1>7, <2>1, <2>2 DEF JournalTyped
<1>9. PersistPlace'
    <2>1. Continues(mem)'
        <3>1. \A cp : Continues(cp) => Continues(cp)'
            BY <1>2, <1>7, StillContinues
        <3> QED BY <1>2, <1>6, <3>1 DEF Continues
    <2>2. LogIntact' => Recovered' = mem'
        BY <1>2, <1>4, <1>6, DiskIsWritten, DiskSame
    <2> QED BY <1>2, <1>7, <2>1, <2>2 DEF PersistPlace
<1>10. BusyPlace'
    BY <1>1, <1>2 DEF BusyPlace
<1> QED BY <1>2, <1>8, <1>9, <1>10 DEF JournalInv

\* The store takes the writer's anchor: the save is acknowledged.
LEMMA PersistKeeps ==
    ASSUME JournalInv, Persist
    PROVE  JournalInv'
<1>1. JournalTyped /\ PersistPlace /\ BusyPlace
    BY DEF JournalInv, Persist
<1>2. /\ phase' = "run" /\ store' = writer.anchor /\ acked' = mem
      /\ logs' = logs /\ writer' = writer /\ mem' = mem /\ tail' = tail
      /\ attempt' = attempt /\ created' = created /\ saves' = saves /\ faults' = faults
      /\ unended' = unended
    BY DEF Persist, memory
<1>3. writer.baseline = mem /\ Continues(mem)
    BY <1>1 DEF PersistPlace
<1>4. writer.anchor \in Stored /\ writer.anchor.log = writer.log /\ writer.log <= created
    BY <1>1, <1>3, TypedFacts DEF Continues
<1>5. JournalTyped'
    <2>1. store' \in Stored \cup {NoAnchor} /\ (store' # NoAnchor => store'.log <= created')
        BY <1>2, <1>4
    <2>2. phase' \in Phases /\ acked' \in Checkpoint \cup {NoAnchor}
        BY <1>1, <1>2, TypedFacts DEF Phases
    <2> QED BY <1>1, <1>2, <2>1, <2>2 DEF JournalTyped
<1>6. RunPlace'
    <2>1. Continues(mem)'
        BY <1>2, <1>3 DEF Continues, Lines
    <2> QED BY <1>2, <1>3, <2>1 DEF RunPlace
<1>7. BusyPlace'
    BY <1>1, <1>2, TypedFacts DEF BusyPlace
<1> QED BY <1>2, <1>5, <1>6, <1>7 DEF JournalInv

\* A line at the end of the log without its newline, and the end of the slice.  A
\* restart drops the line if it does not parse and reads what it would have read
\* without it; if it parses, it reads one event more of the difference.
LEMMA BrokenLine ==
    ASSUME JournalInv, phase = "append", tail # << >>,
           NEW line \in {Cut, Head(tail)}, Put(line, FALSE),
           UNCHANGED << store, created >>, LogIntact'
    PROVE  /\ LogIntact
           /\ \E j \in {Written, Written + 1} :
                 /\ j \in 0 .. Len(Events)
                 /\ Recovered' = Replay(acked, SubSeq(Events, 1, j))
<1>1. JournalTyped /\ AppendPlace /\ BusyPlace
    BY DEF JournalInv
<1> DEFINE old == logs[writer.log]
           new == logs'[writer.log]
<1>2. writer.log \in DOMAIN logs
    BY <1>1 DEF AppendPlace
<1>3. tail \in Seq(Event) /\ Head(tail) \in Event
    BY <1>1, TypedFacts
<1>4. /\ DOMAIN logs' = DOMAIN logs
      /\ HasJoined(new) \/ (~ HasJoined(old) /\ new = Append(old, line))
    BY <1>1, <1>2, <1>3, PutLine
<1>5. Continues(Replay(acked, SubSeq(Events, 1, Written)))
    BY <1>1 DEF AppendPlace
<1>6. /\ store = writer.anchor /\ store.log = writer.log /\ store.format = 2
      /\ store # NoAnchor /\ store' = store
    BY <1>1, <1>5, RecordFacts DEF AppendPlace, Continues
<1>7. ~ HasJoined(new)
    BY <1>6 DEF LogIntact
<1>8. Lines(store.log) = old /\ Lines(store.log)' = new /\ Lines(writer.log) = old
    BY <1>2, <1>4, <1>6 DEF Lines
<1> HIDE DEF old, new
<1>9. ~ HasJoined(old) /\ new = Append(old, line)
    BY <1>4, <1>7
<1>10. LogIntact
    BY <1>2, <1>6, <1>9 DEF LogIntact, old
<1>11. /\ old \in Seq(Event)
       /\ Replay(store.snapshot, old) = Replay(acked, SubSeq(Events, 1, Written))
    BY <1>5, <1>6, <1>8, <1>9 DEF Continues
<1>12. Recovered' = Replay(store.snapshot, Readable(new))
    BY <1>6, <1>8 DEF Recovered, Load
<1>13. Written \in 0 .. Len(Events)
    BY <1>1 DEF AppendPlace
<1>14. CASE line = Cut
    <2>1. Readable(new) = old
        BY <1>9, <1>11, <1>14, ReadableCut
    <2> QED BY <1>10, <1>11, <1>12, <1>13, <2>1
<1>15. CASE line = Head(tail)
    <2>1. acked \in Checkpoint
        BY <1>1 DEF BusyPlace
    <2>2. /\ Written + 1 \in 0 .. Len(Events)
          /\ ReplayStep(Replay(acked, SubSeq(Events, 1, Written)), Head(tail)) =
               Replay(acked, SubSeq(Events, 1, Written + 1))
        BY <1>1, <2>1, OneMoreLine
    <2>3. Replay(store.snapshot, new) = ReplayStep(Replay(store.snapshot, old), Head(tail))
        BY <1>3, <1>9, <1>11, <1>15, ReplayAppend
    <2>4. new \in Seq(Event)
        BY <1>3, <1>9, <1>11, <1>15
    <2>5. Readable(new) = new
        BY <2>4, ReadableWhole
    <2> QED BY <1>10, <1>11, <1>12, <2>2, <2>3, <2>5
<1> QED BY <1>14, <1>15

\* In both cases nothing is lost.
LEMMA CutKeeps ==
    ASSUME JournalInv, phase = "append", tail # << >>, Forget,
           NEW line \in {Cut, Head(tail)}, Put(line, FALSE),
           UNCHANGED << store, created, acked, attempt, saves >>,
           faults' \in 0 .. MaxFaults
    PROVE  JournalInv'
<1>1. JournalTyped /\ AppendPlace /\ BusyPlace
    BY DEF JournalInv
<1>2. phase' = "off" /\ writer' = NewWriter /\ mem' = Fresh /\ tail' = << >>
    BY DEF Forget
<1>3. writer.log \in DOMAIN logs
    BY <1>1 DEF AppendPlace
<1>4. line \in Event \cup {Cut}
    BY <1>1, TypedFacts
<1>5. /\ logs' \in [DOMAIN logs' -> Log] /\ DOMAIN logs' \subseteq 1 .. created'
      /\ unended' \subseteq DOMAIN logs'
    BY <1>1, <1>3, <1>4, PutLine
<1>6. JournalTyped'
    <2>1. writer' \in Writer /\ writer'.log <= created'
        BY <1>1, <1>2, NewWriterType, TypedFacts
    <2>2. mem' \in Checkpoint /\ tail' \in Seq(Event) /\ phase' \in Phases
        BY <1>2, JournalAssumption DEF Phases
    <2> QED BY <1>1, <1>5, <2>1, <2>2 DEF JournalTyped
<1>7. NothingLostWithLogIntact'
    <2> SUFFICES ASSUME LogIntact' PROVE Recovered' \in BetweenSaves'
        BY DEF NothingLostWithLogIntact
    <2>1. PICK j \in {Written, Written + 1} :
            j \in 0 .. Len(Events) /\ Recovered' = Replay(acked, SubSeq(Events, 1, j))
        BY BrokenLine
    <2>2. BetweenSaves' = BetweenSaves
        BY DEF BetweenSaves, PartWay
    <2>3. attempt = mem
        BY <1>1 DEF BusyPlace
    <2> QED BY <2>1, <2>2, <2>3 DEF BetweenSaves, PartWay, Events
<1> QED BY <1>2, <1>6, <1>7 DEF JournalInv

\* A write that stops inside a line, or between two.
LEMMA BreaksOffKeeps ==
    ASSUME JournalInv, Forget, BreaksOffInLine,
           UNCHANGED << store, created, acked, attempt, saves >>,
           faults' \in 0 .. MaxFaults
    PROVE  JournalInv'
<1>1. CASE UNCHANGED << logs, unended >>
    BY <1>1, ForgetKeeps
<1>2. CASE /\ phase = "append" /\ tail # << >>
           /\ \E line \in {Cut, Head(tail)} : Put(line, FALSE)
    BY <1>2, CutKeeps
<1> QED BY <1>1, <1>2 DEF BreaksOffInLine

\* A fault stays within the budget.
LEMMA FaultCounted ==
    ASSUME JournalTyped, Fault
    PROVE  faults' \in 0 .. MaxFaults
<1>1. faults \in 0 .. MaxFaults /\ MaxFaults \in Nat
    BY TypedFacts, JournalAssumption
<1> QED BY <1>1 DEF Fault

\* Every step keeps the invariant.
LEMMA JournalStep ==
    ASSUME JournalInv, [Next]_vars
    PROVE  JournalInv'
<1>1. JournalTyped
    BY DEF JournalInv
<1>2. CASE Resume
    BY <1>2, ResumeKeeps
<1>3. CASE LoopStep
    BY <1>3, LoopStepKeeps
<1>4. CASE SaveStep
    BY <1>4, CreateLogKeeps, SwapLogKeeps, EncodeDifferenceKeeps, WriteLineKeeps,
       LinesSyncedKeeps, PersistKeeps DEF SaveStep
<1>5. CASE PersistFails
    <2>1. Forget /\ UNCHANGED << store, logs, unended, created, acked, attempt, saves >>
          /\ Fault
        BY <1>5 DEF PersistFails, disk
    <2> QED BY <1>1, <2>1, FaultCounted, ForgetKeeps
<1>6. CASE WriteFails \/ Crash
    <2>1. Forget /\ UNCHANGED << store, created, acked, attempt, saves >> /\ Fault
          /\ BreaksOffInLine
        BY <1>6 DEF WriteFails, Crash
    <2> QED BY <1>1, <2>1, FaultCounted, BreaksOffKeeps
<1>8. CASE EndSlice
    <2>1. Forget /\ UNCHANGED << store, logs, unended, created, acked, attempt, saves >>
          /\ faults' = faults
        BY <1>8 DEF EndSlice, disk
    <2>2. faults' \in 0 .. MaxFaults
        BY <1>1, <2>1, TypedFacts
    <2> QED BY <2>1, <2>2, ForgetKeeps
<1>9. CASE UNCHANGED vars
    <2>1. /\ store' = store /\ logs' = logs /\ writer' = writer /\ mem' = mem
          /\ phase' = phase /\ tail' = tail /\ acked' = acked /\ attempt' = attempt
          /\ unended' = unended
          /\ created' = created /\ saves' = saves /\ faults' = faults
        BY <1>9 DEF vars
    <2>2. JournalTyped' /\ (BusyPlace' <=> BusyPlace)
        BY <1>1, <2>1 DEF JournalTyped, BusyPlace
    <2>3. Recovered' = Recovered /\ (LogIntact' <=> LogIntact) /\ \A n : Lines(n)' = Lines(n)
        BY <2>1, DiskSame
    <2>4. Events' = Events /\ Written' = Written /\ BetweenSaves' = BetweenSaves
        BY <2>1 DEF Events, Written, BetweenSaves, PartWay
    <2>5. \A cp : (Continues(cp)' <=> Continues(cp))
        BY <2>1 DEF Continues, Lines
    <2>6. (NothingLostWithLogIntact' <=> NothingLostWithLogIntact)
        BY <2>1, <2>3, <2>4 DEF NothingLostWithLogIntact
    <2>7. (RunPlace' <=> RunPlace) /\ (SavePlace' <=> SavePlace) /\ (SwapPlace' <=> SwapPlace)
        BY <2>1 DEF RunPlace, SavePlace, SwapPlace, Continues, Lines, LogIntact, Recovered,
           Load
    <2>8. (AppendPlace' <=> AppendPlace) /\ (PersistPlace' <=> PersistPlace)
        BY <2>1 DEF AppendPlace, PersistPlace, Continues, Lines, LogIntact, Recovered, Load,
           Events, Written
    <2> QED BY <2>1, <2>2, <2>6, <2>7, <2>8 DEF JournalInv
<1> QED BY <1>2, <1>3, <1>4, <1>5, <1>6, <1>8, <1>9 DEF Next

\* The inductive invariant holds in every reachable state.
LEMMA JournalInvariant == Spec => []JournalInv
<1>1. Init => JournalInv
    BY JournalInit
<1>2. JournalInv /\ [Next]_vars => JournalInv'
    BY JournalStep
<1> QED BY <1>1, <1>2, PTL DEF Spec

\* Every variable of the journal has its type; among it that the number of a
\* save never passes checkpointSnapshotEvery (checkpointWriter.encode).
THEOREM JournalTypeCorrect == Spec => []TypeOK
<1>1. JournalInv => TypeOK
    <2> SUFFICES ASSUME JournalInv PROVE TypeOK
        OBVIOUS
    <2>1. JournalTyped
        BY DEF JournalInv
    <2>2. store = NoAnchor \/ (/\ store.format \in {1, 2} /\ store.snapshot \in Checkpoint
                               /\ store.log \in 0 .. created)
        <3> SUFFICES ASSUME store # NoAnchor
                     PROVE  /\ store.format \in {1, 2} /\ store.snapshot \in Checkpoint
                            /\ store.log \in 0 .. created
            OBVIOUS
        <3>1. store \in Stored /\ store.log <= created /\ created \in Nat
            BY <2>1, TypedFacts
        <3> QED BY <3>1, RecordFacts
    <2>3. /\ writer.ready \in BOOLEAN /\ writer.log \in 0 .. created
          /\ writer.steps \in 0 .. SnapshotEvery /\ writer.baseline \in Checkpoint
        <3>1. writer \in Writer /\ writer.log <= created /\ created \in Nat
            BY <2>1, TypedFacts
        <3> QED BY <3>1, RecordFacts
    <2> QED BY <2>1, <2>2, <2>3, TypedFacts DEF TypeOK
<1> QED BY <1>1, JournalInvariant, PTL

\* As long as the log named by the task record exists and no line of it was joined
\* to one without its newline, no crash and no failed write of checkpointWriter
\* loses an acknowledged save, and a restart finds that save, the next one, or the
\* first lines of the difference between them.
THEOREM AckedSavesSurvive == Spec => []NothingLostWithLogIntact
<1>1. JournalInv => NothingLostWithLogIntact
    BY SafeNow
<1> QED BY <1>1, JournalInvariant, PTL

-----------------------------------------------------------------------------
(* The journal: it keeps one checkpoint.                                   *)

\* No beginning of a difference is refused when it is replayed.
LEMMA PartReplays ==
    ASSUME NEW prev \in Checkpoint, NEW next \in Checkpoint, SameCheckpointPrefix(prev, next),
           NEW k \in 0 .. Len(DiffCheckpoint(prev, next))
    PROVE  Replay(prev, SubSeq(DiffCheckpoint(prev, next), 1, k)) \in Checkpoint
<1> DEFINE es == DiffCheckpoint(prev, next)
           n == Len(es)
           F == ReplayFcn(prev, es)
           part == SubSeq(es, 1, k)
           T == {j \in Nat : k + j <= n /\ F[k] = Rejected => F[k + j] = Rejected}
<1>1. es \in Seq(Event) /\ Replay(prev, es) = next
    BY DifferencesReplay
<1> HIDE DEF es
<1>2. n \in Nat /\ k \in Nat /\ k <= n /\ k \in 0 .. n /\ \A i \in 1 .. n : es[i] \in Event
    BY <1>1 DEF es
<1>3. \A i \in 1 .. n : F[i] = ReplayStep(F[i - 1], es[i])
    BY <1>2, ReplaySteps
<1>4. F[n] = next
    BY <1>1, ReplayIs
<1>5. part \in Seq(Event) /\ Len(part) = k /\ \A i \in 1 .. k : part[i] = es[i]
    <2>1. \A i \in 1 .. k : es[i] \in Event
        BY <1>2
    <2>2. /\ part \in Seq(Event)
          /\ Len(part) = IF 1 <= k THEN k - 1 + 1 ELSE 0
          /\ \A i \in 1 .. k - 1 + 1 : part[i] = es[1 + i - 1]
        BY <1>2, <2>1, SubSeqProperties
    <2>3. Len(part) = k
        BY <1>2, <2>2
    <2>4. \A i \in 1 .. k : i \in 1 .. k - 1 + 1 /\ 1 + i - 1 = i
        BY <1>2
    <2> HIDE DEF part
    <2> QED BY <2>2, <2>3, <2>4
<1> HIDE DEF part
<1>6. Replay(prev, part) = F[k]
    <2>1. ReplayFcn(prev, part)[k] = ReplayFcn(prev, es)[k]
        BY <1>2, <1>5, ReplayAgrees
    <2> QED BY <1>5, <2>1, ReplayIs
<1>7. Replay(prev, part) \in Checkpoint \cup {Rejected}
    BY <1>5, ReplayType
<1> HIDE DEF F, n
<1>8. F[k] # Rejected
    <2>1. 0 \in T
        BY <1>2
    <2>2. ASSUME NEW j \in Nat, j \in T PROVE j + 1 \in T
        <3> SUFFICES ASSUME k + (j + 1) <= n, F[k] = Rejected PROVE F[k + (j + 1)] = Rejected
            OBVIOUS
        <3>1. k + j <= n /\ k + (j + 1) \in 1 .. n /\ (k + (j + 1)) - 1 = k + j
            BY <1>2
        <3>2. F[k + j] = Rejected
            BY <2>2, <3>1
        <3>3. F[k + (j + 1)] = ReplayStep(F[k + j], es[k + (j + 1)])
            BY <1>3, <3>1
        <3> QED BY <3>2, <3>3 DEF ReplayStep
    <2>3. n - k \in Nat /\ k + (n - k) = n /\ k + (n - k) <= n
        BY <1>2
    <2> HIDE DEF T
    <2>4. n - k \in T
        BY <2>1, <2>2, <2>3, SetInduction
    <2>5. F[k] = Rejected => F[n] = Rejected
        BY <2>3, <2>4 DEF T
    <2> QED BY <1>4, <2>5, RejectedAssumption
<1> QED BY <1>6, <1>7, <1>8 DEF part, es

\* What the abstract store keeps, and when it saves.
Held == IF LogIntact THEN Recovered ELSE Rejected
Saving == phase \in {"save", "swap", "append", "persist"}

\* A step of the abstract store, in these words.
LEMMA StoreSteps ==
    /\ Kept!Restart <=> /\ ~ Saving /\ Saving' = TRUE /\ acked' \in Checkpoint
                        /\ (Held # Rejected => acked' = Held)
                        /\ attempt' \in Checkpoint /\ Held' = Held
    /\ Kept!Ask <=> /\ ~ Saving /\ Saving' = TRUE /\ Held \in {acked, Rejected}
                    /\ attempt' \in Checkpoint /\ Held' = Held /\ acked' = acked
    /\ Kept!Advance <=> /\ Saving /\ Held # Rejected /\ Held' \in PartWay(acked, attempt)
                        /\ acked' = acked /\ attempt' = attempt /\ Saving' = Saving
    /\ Kept!Lose <=> /\ Saving /\ Held' = Rejected
                     /\ acked' = acked /\ attempt' = attempt /\ Saving' = Saving
    /\ Kept!Acknowledge <=> /\ Saving /\ Saving' = FALSE /\ acked' = attempt
                            /\ (Held' = attempt \/ (Held = Rejected /\ Held' = Rejected))
                            /\ attempt' = attempt
    /\ Kept!BreakOff <=> /\ Saving /\ Saving' = FALSE
                         /\ \/ Held' \in {Held, Rejected}
                            \/ Held # Rejected /\ Held' \in PartWay(acked, attempt)
                         /\ acked' = acked /\ attempt' = attempt
    /\ UNCHANGED Kept!vars <=> /\ Held' = Held /\ acked' = acked /\ attempt' = attempt
                               /\ Saving' = Saving
BY DEF Kept!Restart, Kept!Ask, Kept!Advance, Kept!Lose, Kept!Acknowledge, Kept!BreakOff,
   Kept!vars, Held, Saving

\* Initially a restart finds the fresh checkpoint.
LEMMA StoreInit == Init => Kept!Init
<1> SUFFICES ASSUME Init PROVE Kept!Init
    OBVIOUS
<1>1. Held = Fresh
    <2>1. CASE store = NoAnchor
        BY <2>1 DEF Held, LogIntact, Recovered
    <2>2. CASE store = Version1(Fresh)
        <3>1. store.format = 1 /\ store.snapshot = Fresh
            BY <2>2 DEF Version1
        <3> QED BY <3>1 DEF Held, LogIntact, Recovered, Load
    <2> QED BY <2>1, <2>2 DEF Init
<1>2. ~ Saving /\ acked = NoAnchor /\ attempt = Fresh
    BY DEF Init, Saving
<1> QED BY <1>1, <1>2, JournalAssumption DEF Kept!Init, Held, Saving

\* When the disk does not change, neither does what is kept.
LEMMA HeldSame ==
    ASSUME store' = store, logs' = logs
    PROVE  Held' = Held
BY DiskSame DEF Held

\* A writer that stands for cp and whose anchor is in the store keeps cp, if its
\* log is there and whole.
LEMMA HeldIsWritten ==
    ASSUME NEW cp, Continues(cp), store = writer.anchor
    PROVE  /\ Held = IF LogIntact THEN cp ELSE Rejected
           /\ store.log = writer.log
           /\ LogIntact <=> writer.log \in DOMAIN logs /\ ~ HasJoined(logs[writer.log])
<1>1. store.log = writer.log /\ store.format = 2 /\ store # NoAnchor
    BY RecordFacts DEF Continues
<1>2. LogIntact <=> writer.log \in DOMAIN logs /\ ~ HasJoined(logs[writer.log])
    BY <1>1 DEF LogIntact
<1> QED BY <1>1, <1>2, DiskIsWritten DEF Held

\* The same after a step.
LEMMA HeldNext ==
    ASSUME NEW cp, NEW d, d = cp', Continues(cp)', store' = writer'.anchor
    PROVE  /\ Held' = IF LogIntact' THEN d ELSE Rejected
           /\ LogIntact' <=> writer'.log \in DOMAIN logs' /\ ~ HasJoined(logs'[writer'.log])
<1>1. store'.log = writer'.log /\ store'.format = 2 /\ store' # NoAnchor
    BY RecordFacts DEF Continues
<1>2. LogIntact' <=> writer'.log \in DOMAIN logs' /\ ~ HasJoined(logs'[writer'.log])
    BY <1>1 DEF LogIntact
<1>3. ASSUME LogIntact' PROVE Recovered' = d
    <2>1. Lines(writer.log)' = logs'[writer'.log]
        BY <1>2, <1>3 DEF Lines
    <2>2. /\ Lines(writer.log)' \in Seq(Event)
          /\ Replay(writer'.anchor.snapshot, Lines(writer.log)') = d
        BY <1>2, <1>3, <2>1 DEF Continues
    <2>3. Readable(Lines(writer.log)') = Lines(writer.log)'
        BY <2>2, ReadableWhole
    <2> QED BY <1>1, <2>2, <2>3 DEF Recovered, Load
<1> QED BY <1>2, <1>3 DEF Held

\* A slice that starts is a restart of the store.
LEMMA ResumeIsRestart ==
    ASSUME JournalInv, JournalInv', Resume
    PROVE  Kept!Restart
<1>1. /\ phase = "off" /\ phase' = "save" /\ Recovered # Rejected
      /\ acked' = Recovered /\ store' = store /\ logs' = logs
    BY DEF Resume, disk
<1>2. Recovered \in Checkpoint
    BY <1>1, RecoveredType DEF JournalInv
<1>3. attempt' \in Checkpoint
    BY DEF JournalInv, JournalTyped
<1>4. Held # Rejected => Recovered = Held
    BY DEF Held
<1>5. ~ Saving /\ Saving'
    BY <1>1 DEF Saving
<1> QED BY <1>1, <1>2, <1>3, <1>4, <1>5, HeldSame, StoreSteps

\* The loop asks for a save only when the one before is settled.
LEMMA LoopStepIsAsk ==
    ASSUME JournalInv, JournalInv', LoopStep
    PROVE  Kept!Ask
<1>1. /\ phase = "run" /\ phase' = "save"
      /\ acked' = acked /\ store' = store /\ logs' = logs
    BY DEF LoopStep, ModelAsksForTools, ToolAnswers, FieldsChange, TranscriptRewritten,
       NextCheckpoint, disk
<1>2. RunPlace
    BY <1>1 DEF JournalInv
<1>3. Held \in {acked, Rejected}
    BY <1>2, HeldIsWritten DEF RunPlace
<1>4. attempt' \in Checkpoint
    BY DEF JournalInv, JournalTyped
<1>5. ~ Saving /\ Saving'
    BY <1>1 DEF Saving
<1> QED BY <1>1, <1>3, <1>4, <1>5, HeldSame, StoreSteps

\* A new, empty log changes nothing for the store.
LEMMA CreateLogIsSilent ==
    ASSUME JournalInv, CreateLog
    PROVE  UNCHANGED Kept!vars
<1>1. /\ phase = "save" /\ phase' = "swap"
      /\ store' = store /\ acked' = acked /\ attempt' = attempt
      /\ logs' = [n \in DOMAIN logs \cup {created + 1} |-> Lines(n)]
    BY DEF CreateLog
<1>2. JournalTyped
    BY DEF JournalInv
<1>3. ASSUME store # NoAnchor PROVE store.log # created + 1
    <2>1. store.log \in Nat /\ store.log <= created /\ created \in Nat
        BY <1>2, <1>3, TypedFacts, RecordFacts
    <2> QED BY <2>1
<1>4. store # NoAnchor => /\ store.log \in DOMAIN logs' <=> store.log \in DOMAIN logs
                          /\ store.log \in DOMAIN logs => logs'[store.log] = logs[store.log]
    BY <1>1, <1>3 DEF Lines
<1>5. LogIntact' <=> LogIntact
    BY <1>1, <1>4 DEF LogIntact
<1>6. LogIntact' => Recovered' = Recovered
    BY <1>1, <1>2, <1>4, OtherLogs
<1>7. Saving /\ Saving'
    BY <1>1 DEF Saving
<1>8. Held' = Held
    BY <1>5, <1>6 DEF Held
<1> QED BY <1>1, <1>7, <1>8, StoreSteps

\* Removing the previous log loses what is kept, if the store still names it.
LEMMA SwapLogMayLose ==
    ASSUME JournalInv, SwapLog
    PROVE  Kept!Lose \/ UNCHANGED Kept!vars
<1>1. /\ phase = "swap" /\ phase' = "persist"
      /\ store' = store /\ acked' = acked /\ attempt' = attempt
      /\ logs' = [n \in DOMAIN logs \ {writer.log} |-> logs[n]]
    BY DEF SwapLog
<1>2. Saving /\ Saving'
    BY <1>1 DEF Saving
<1>3. CASE LogIntact'
    <2>1. LogIntact /\ Recovered' = Recovered
        BY <1>1, <1>3, OtherLogs DEF JournalInv
    <2>2. Held' = Held
        BY <1>3, <2>1 DEF Held
    <2> QED BY <1>1, <1>2, <2>2, StoreSteps
<1>4. CASE ~ LogIntact'
    <2>1. Held' = Rejected
        BY <1>4 DEF Held
    <2> QED BY <1>1, <1>2, <2>1, StoreSteps
<1> QED BY <1>3, <1>4

\* A line more of the difference; joined to the one before, it loses what is kept.
LEMMA WriteLineIsAdvance ==
    ASSUME JournalInv, JournalInv', WriteLine
    PROVE  Kept!Advance \/ Kept!Lose
<1>1. /\ phase = "append" /\ phase' = "append" /\ tail # << >> /\ Put(Head(tail), TRUE)
      /\ store' = store /\ writer' = writer /\ mem' = mem /\ created' = created
      /\ acked' = acked /\ attempt' = attempt
    BY DEF WriteLine
<1>2. /\ JournalTyped /\ AppendPlace /\ AppendPlace' /\ attempt = mem
      /\ acked \in Checkpoint /\ mem \in Checkpoint
    BY <1>1, TypedFacts DEF JournalInv, BusyPlace
<1>3. writer.log \in DOMAIN logs
    BY <1>1, <1>2 DEF AppendPlace
<1>4. Saving /\ Saving'
    BY <1>1 DEF Saving
<1> DEFINE k == Written'
           cp == Replay(acked, SubSeq(Events, 1, Written))
<1>5. Events' = Events /\ cp' = Replay(acked, SubSeq(Events, 1, k))
    BY <1>1 DEF Events
<1>6. /\ Held' = IF LogIntact' THEN Replay(acked, SubSeq(Events, 1, k)) ELSE Rejected
      /\ LogIntact' <=> writer.log \in DOMAIN logs' /\ ~ HasJoined(logs'[writer.log])
    BY <1>1, <1>2, <1>5, HeldNext DEF AppendPlace
<1>7. CASE ~ LogIntact'
    BY <1>1, <1>4, <1>6, <1>7, StoreSteps
<1>8. CASE LogIntact'
    <2>1. Head(tail) \in Event \cup {Cut}
        BY <1>1, <1>2, TypedFacts
    <2>2. ~ HasJoined(logs[writer.log])
        BY <1>1, <1>2, <1>3, <1>6, <1>8, <2>1, PutLine
    <2>3. Held = cp
        BY <1>2, <1>3, <2>2, HeldIsWritten DEF AppendPlace
    <2>4. Held # Rejected
        <3>1. Held \in Checkpoint
            BY <1>2, <2>3, PartReplays DEF AppendPlace, Events
        <3> QED BY <3>1, RejectedAssumption
    <2>5. Held' \in PartWay(acked, attempt)
        <3>1. k \in 0 .. Len(Events)
            BY <1>2, <1>5 DEF AppendPlace
        <3> QED BY <1>2, <1>6, <1>8, <3>1 DEF PartWay, Events
    <2> QED BY <1>1, <1>4, <2>4, <2>5, StoreSteps
<1> QED BY <1>7, <1>8

\* Encoding and syncing a difference leave what is kept; encoding ends the slice
\* when the log to continue is not there.
LEMMA DifferenceIsSilent ==
    ASSUME EncodeDifference \/ LinesSynced
    PROVE  Kept!BreakOff \/ UNCHANGED Kept!vars
<1>1. /\ store' = store /\ logs' = logs /\ acked' = acked /\ attempt' = attempt
      /\ phase \in {"save", "append"} /\ phase' \in {"append", "persist", "off"}
    BY DEF EncodeDifference, LinesSynced, Forget, disk
<1>2. Saving
    BY <1>1 DEF Saving
<1>3. Saving' <=> phase' # "off"
    BY <1>1 DEF Saving
<1> QED BY <1>1, <1>2, <1>3, HeldSame, StoreSteps

\* An anchor about to be handed to the store is there already, or names an empty
\* log that has just been made.
AnchorPlace ==
    phase = "persist" => \/ store = writer.anchor
                         \/ writer.log \in DOMAIN logs /\ logs[writer.log] = << >>

\* That is so in every state.
LEMMA AnchorStep ==
    ASSUME JournalInv, AnchorPlace, [Next]_vars
    PROVE  AnchorPlace'
<1>1. CASE SwapLog
    <2>1. SwapPlace
        BY <1>1 DEF JournalInv, SwapLog
    <2>2. /\ writer'.log = created /\ created \in DOMAIN logs /\ writer.log # created
          /\ logs' = [n \in DOMAIN logs \ {writer.log} |-> logs[n]]
          /\ logs[created] = << >>
        BY <1>1, <2>1 DEF SwapLog, SwapPlace
    <2>3. writer'.log \in DOMAIN logs' /\ logs'[writer'.log] = << >>
        BY <2>2
    <2> QED BY <2>3 DEF AnchorPlace
<1>2. CASE LinesSynced
    <2>1. AppendPlace /\ writer \in Writer
        BY <1>2, TypedFacts DEF JournalInv, LinesSynced
    <2>2. store' = store /\ writer'.anchor = writer.anchor
        BY <1>2, <2>1 DEF LinesSynced, disk, Writer
    <2> QED BY <2>1, <2>2 DEF AnchorPlace, AppendPlace
<1>3. CASE UNCHANGED vars
    BY <1>3 DEF AnchorPlace, vars
<1>4. CASE Resume
    BY <1>4 DEF Resume, AnchorPlace
<1>5. CASE LoopStep
    BY <1>5 DEF LoopStep, ModelAsksForTools, ToolAnswers, FieldsChange, TranscriptRewritten,
       NextCheckpoint, AnchorPlace
<1>6. CASE CreateLog \/ EncodeDifference \/ WriteLine \/ Persist
    BY <1>6 DEF CreateLog, EncodeDifference, WriteLine, Persist, Forget, AnchorPlace
<1>7. CASE PersistFails \/ WriteFails \/ Crash \/ EndSlice
    BY <1>7 DEF PersistFails, WriteFails, Crash, EndSlice, Forget, AnchorPlace
<1> QED BY <1>1, <1>2, <1>3, <1>4, <1>5, <1>6, <1>7 DEF Next, SaveStep

\* The store takes the anchor: the new checkpoint is what is kept.
LEMMA PersistIsAcknowledge ==
    ASSUME JournalInv, AnchorPlace, Persist
    PROVE  Kept!Acknowledge
<1>1. /\ phase = "persist" /\ phase' = "run" /\ store' = writer.anchor /\ acked' = mem
      /\ logs' = logs /\ writer' = writer /\ attempt' = attempt
    BY DEF Persist, memory
<1>2. Continues(mem) /\ attempt = mem
    BY <1>1 DEF JournalInv, BusyPlace, PersistPlace
<1>3. /\ Held' = IF LogIntact' THEN mem ELSE Rejected
      /\ LogIntact' <=> writer.log \in DOMAIN logs /\ ~ HasJoined(logs[writer.log])
    <2>1. Continues(mem)' /\ mem' = mem
        BY <1>1, <1>2 DEF Continues, Lines, Persist, memory
    <2> QED BY <1>1, <2>1, HeldNext
<1>4. ~ LogIntact' => Held = Rejected
    <2>1. ~ HasJoined(<< >>)
        BY DEF HasJoined
    <2>2. CASE store = writer.anchor
        BY <1>2, <1>3, <2>2, HeldIsWritten
    <2>3. CASE writer.log \in DOMAIN logs /\ logs[writer.log] = << >>
        BY <1>3, <2>1, <2>3
    <2> QED BY <1>1, <2>2, <2>3 DEF AnchorPlace
<1>5. Saving /\ ~ Saving'
    BY <1>1 DEF Saving
<1> QED BY <1>1, <1>2, <1>3, <1>4, <1>5, StoreSteps

\* A slice that ends leaves what is kept, inside a save or between two.
LEMMA ForgetIsBreakOff ==
    ASSUME Forget, Held' = Held, acked' = acked, attempt' = attempt
    PROVE  Kept!BreakOff \/ UNCHANGED Kept!vars
<1>1. Saving' = FALSE
    BY DEF Forget, Saving
<1>2. CASE Saving
    BY <1>1, <1>2, StoreSteps
<1>3. CASE Saving = FALSE
    BY <1>1, <1>3, StoreSteps
<1>4. Saving = TRUE \/ Saving = FALSE
    BY DEF Saving
<1> QED BY <1>2, <1>3, <1>4

\* One that leaves a line without its newline behind may have kept one event more,
\* or joined lines.
LEMMA CutIsBreakOff ==
    ASSUME JournalInv, phase = "append", tail # << >>, Forget,
           NEW line \in {Cut, Head(tail)}, Put(line, FALSE),
           UNCHANGED << store, created, acked, attempt >>
    PROVE  Kept!BreakOff
<1>1. /\ AppendPlace /\ attempt = mem /\ acked \in Checkpoint /\ mem \in Checkpoint
    BY TypedFacts DEF JournalInv, BusyPlace
<1>2. Saving /\ Saving' = FALSE
    BY DEF Forget, Saving
<1>3. CASE ~ LogIntact'
    <2>1. Held' = Rejected
        BY <1>3 DEF Held
    <2> QED BY <1>2, <2>1, StoreSteps
<1>4. CASE LogIntact'
    <2>1. LogIntact
        BY <1>4, BrokenLine
    <2>2. PICK j \in {Written, Written + 1} :
            j \in 0 .. Len(Events) /\ Recovered' = Replay(acked, SubSeq(Events, 1, j))
        BY <1>4, BrokenLine
    <2>3. Held' \in PartWay(acked, attempt)
        BY <1>1, <1>4, <2>2 DEF Held, PartWay, Events
    <2>4. Held # Rejected
        <3>1. Held = Replay(acked, SubSeq(Events, 1, Written))
            BY <1>1, <2>1, HeldIsWritten DEF AppendPlace
        <3>2. Held \in Checkpoint
            BY <1>1, <3>1, PartReplays DEF AppendPlace, Events
        <3> QED BY <3>2, RejectedAssumption
    <2> QED BY <1>2, <2>3, <2>4, StoreSteps
<1> QED BY <1>3, <1>4

\* Faults and the end of a slice break a save off, or nothing.
LEMMA FaultIsBreakOff ==
    ASSUME JournalInv, PersistFails \/ WriteFails \/ Crash \/ EndSlice
    PROVE  Kept!BreakOff \/ UNCHANGED Kept!vars
<1>1. Forget /\ UNCHANGED << store, created, acked, attempt >>
    BY DEF PersistFails, WriteFails, Crash, EndSlice, disk
<1>2. CASE logs' = logs
    BY <1>1, <1>2, HeldSame, ForgetIsBreakOff
<1>3. CASE /\ phase = "append" /\ tail # << >>
           /\ \E line \in {Cut, Head(tail)} : Put(line, FALSE)
    BY <1>1, <1>3, CutIsBreakOff
<1> QED BY <1>2, <1>3 DEF PersistFails, WriteFails, Crash, EndSlice, BreaksOffInLine, disk

\* Every step of the journal is a step of the store or leaves it alone.
LEMMA StoreStep ==
    ASSUME JournalInv, JournalInv', AnchorPlace, [Next]_vars
    PROVE  [Kept!Next]_(Kept!vars)
<1>1. CASE Resume
    BY <1>1, ResumeIsRestart DEF Kept!Next
<1>2. CASE LoopStep
    BY <1>2, LoopStepIsAsk DEF Kept!Next
<1>3. CASE CreateLog \/ SwapLog
    BY <1>3, CreateLogIsSilent, SwapLogMayLose DEF Kept!Next
<1>4. CASE EncodeDifference \/ LinesSynced
    BY <1>4, DifferenceIsSilent DEF Kept!Next
<1>5. CASE WriteLine
    BY <1>5, WriteLineIsAdvance DEF Kept!Next
<1>6. CASE Persist
    BY <1>6, PersistIsAcknowledge DEF Kept!Next
<1>7. CASE PersistFails \/ WriteFails \/ Crash \/ EndSlice
    BY <1>7, FaultIsBreakOff DEF Kept!Next
<1>8. CASE UNCHANGED vars
    <2>1. store' = store /\ logs' = logs /\ acked' = acked /\ attempt' = attempt
          /\ phase' = phase
        BY <1>8 DEF vars
    <2>2. Held' = Held /\ Saving' = Saving
        BY <2>1, HeldSame DEF Saving
    <2> QED BY <2>1, <2>2, StoreSteps
<1> QED BY <1>1, <1>2, <1>3, <1>4, <1>5, <1>6, <1>7, <1>8 DEF Next, SaveStep

\* Anchors, logs and lines implement a store that keeps one checkpoint, which is
\* what the durable loop takes checkpointWriter to be: a restart finds the last
\* acknowledged save or part of the way to the next, and what is kept is lost
\* only inside a save: between the removal of the log and the new anchor, or by
\* the line that is joined to one without its newline.
THEOREM ImplementsStore == Spec => StoreImplemented
<1>1. Init => Kept!Init /\ AnchorPlace
    <2>1. Init => AnchorPlace
        BY DEF Init, AnchorPlace
    <2> QED BY <2>1, StoreInit
<1>2. JournalInv /\ AnchorPlace /\ [Next]_vars => AnchorPlace'
    BY AnchorStep
<1>3. JournalInv /\ JournalInv' /\ AnchorPlace /\ [Next]_vars => [Kept!Next]_(Kept!vars)
    BY StoreStep
<1> QED BY <1>1, <1>2, <1>3, JournalInvariant, PTL DEF Spec, Kept!Spec, StoreImplemented
=============================================================================
