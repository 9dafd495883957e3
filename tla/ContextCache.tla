---------------------------- MODULE ContextCache ----------------------------
(***************************************************************************)
(* The cache of built contexts: a map with a least-recently-used order, a  *)
(* bound and a time to live, read by turns that build their context while  *)
(* the session, the memory and the retrieval index change under them.      *)
(*                                                                         *)
(* The key of a context digests some of what it is built from: the text of *)
(* the request, the number of messages and the last of them, the summary,  *)
(* the eight latest memories, the number of documents.  Older messages and *)
(* memories, a document that takes another's place, and the scope and the  *)
(* attachments of a request are left out of it.                            *)
(*                                                                         *)
(* src/agent/context_cache.go, context_planner.go (BuildInput, cacheKey)   *)
(***************************************************************************)
EXTENDS Integers, Sequences, FiniteSets, SequencesExt, Functions

CONSTANTS
    Subject,        \* sessions with the text of a request
    Aside,          \* scopes (TurnScope) with attachments
    Builder,        \* turns that build a context at once
    MaxEntries,     \* contextMessageCache.maxEntries
    MaxVersion      \* bound: changes of what a context is built from

ASSUME CacheAssumption == Subject # {} /\ Aside # {} /\ MaxVersion \in Nat

VARIABLES
    version,        \* what cacheKey digests of the session, the memory and the index
    rest,           \* what it leaves out of them
    entries, order, \* the cache
    builder,        \* where each build stands
    asides,         \* history: the asides of the requests made so far
    torn            \* history: subjects that changed under a build

cacheVars == <<version, rest, entries, order, builder, asides, torn>>

CacheKey == Subject \X (0..MaxVersion)

\* What a context was built from; old: past its time to live.
Entry == [built: 0..MaxVersion, rest: 0..MaxVersion, aside: Aside, old: BOOLEAN]
NoAside == CHOOSE a \in Aside : TRUE
NoEntry == [built |-> 0, rest |-> 0, aside |-> NoAside, old |-> TRUE]

\* copy: the entry read under the read lock.  hit: it was found.
Build == [at: {"idle", "probed", "building", "built", "served"}, key: CacheKey,
          aside: Aside, hit: BOOLEAN, copy: Entry]
NoBuild == [at |-> "idle", key |-> CHOOSE k \in CacheKey : TRUE, aside |-> NoAside,
            hit |-> FALSE, copy |-> NoEntry]

CacheTypeOK ==
    /\ version \in [Subject -> 0..MaxVersion] /\ rest \in [Subject -> 0..MaxVersion]
    /\ DOMAIN entries \subseteq CacheKey /\ \A k \in DOMAIN entries : entries[k] \in Entry
    /\ order \in Seq(CacheKey)
    /\ builder \in [Builder -> Build]
    /\ asides \in [Subject -> SUBSET Aside]
    /\ torn \subseteq Subject

CacheInit ==
    /\ version = [x \in Subject |-> 0] /\ rest = [x \in Subject |-> 0]
    /\ entries = << >> /\ order = << >>
    /\ builder = [b \in Builder |-> NoBuild]
    /\ asides = [x \in Subject |-> {}] /\ torn = {}

\* Faulty: nothing of what a context is built from is part of the key.
KeyOfSubject(x) == <<x, 0>>

KeyNow(x) == <<x, version[x]>>

\* removeKeyLocked, touchKeyLocked, cleanupExpiredLocked.
RemoveKeys(K) ==
    /\ entries' = Restrict(entries, DOMAIN entries \ K)
    /\ order' = SelectSeq(order, LAMBDA k : k \notin K)

Touched(s, key) ==
    IF Contains(s, key) THEN Append(SelectSeq(s, LAMBDA k : k # key), key) ELSE s

-----------------------------------------------------------------------------
\* The key is made and the entry is read under the read lock.
Probe(b, x, a) ==
    LET k == KeyNow(x) IN
    /\ builder[b].at = "idle"
    /\ builder' = [builder EXCEPT ![b] =
            [at |-> "probed", key |-> k, aside |-> a, hit |-> k \in DOMAIN entries,
             copy |-> IF k \in DOMAIN entries THEN entries[k] ELSE NoEntry]]
    /\ asides' = [asides EXCEPT ![x] = @ \cup {a}]
    /\ UNCHANGED <<version, rest, entries, order, torn>>

\* Under the write lock: an entry that had expired is removed, whatever is
\* under the key by now; otherwise the key becomes the latest used.
Resolve(b) ==
    LET r == builder[b] IN
    /\ r.at = "probed"
    /\ IF ~r.hit THEN UNCHANGED <<entries, order>>
       ELSE IF r.copy.old THEN RemoveKeys({r.key})
       ELSE order' = Touched(order, r.key) /\ UNCHANGED entries
    /\ builder' = [builder EXCEPT ![b].at =
            IF r.hit /\ ~r.copy.old THEN "served" ELSE "building"]
    /\ UNCHANGED <<version, rest, asides, torn>>

\* The turn takes the cached context.
Serve(b) ==
    /\ builder[b].at = "served"
    /\ builder' = [builder EXCEPT ![b] = NoBuild]
    /\ UNCHANGED <<version, rest, entries, order, asides, torn>>

\* The context is put together from what there is now, for this turn's aside.
BuildContext(b) ==
    LET x == builder[b].key[1] IN
    /\ builder[b].at = "building"
    /\ builder' = [builder EXCEPT ![b].at = "built",
            ![b].copy = [built |-> version[x], rest |-> rest[x],
                         aside |-> builder[b].aside, old |-> FALSE]]
    /\ UNCHANGED <<version, rest, entries, order, asides, torn>>

\* The key is made again for the store.  Set drops what expired, stores, and
\* evicts one key when there are too many.
StoreContext(b) ==
    LET r == builder[b]
        k == KeyNow(r.key[1])
        live == {e \in DOMAIN entries : ~entries[e].old}
        kept == SelectSeq(order, LAMBDA e : e \in live)
        used == IF k \in live THEN Touched(kept, k) ELSE Append(kept, k)
        full == Cardinality(live \cup {k}) > MaxEntries
        gone == IF full THEN {Head(used)} ELSE {}
    IN  /\ r.at = "built"
        /\ entries' = [e \in (live \cup {k}) \ gone |-> IF e = k THEN r.copy ELSE entries[e]]
        /\ order' = IF full THEN Tail(used) ELSE used
        /\ builder' = [builder EXCEPT ![b] = NoBuild]
        /\ UNCHANGED <<version, rest, asides, torn>>

\* Time passes, or something the context is built from changes.
Expire(k) ==
    /\ k \in DOMAIN entries /\ ~entries[k].old
    /\ entries' = [entries EXCEPT ![k].old = TRUE]
    /\ UNCHANGED <<version, rest, order, builder, asides, torn>>

\* A build reads its parts one after the other: one that is under way may see
\* both sides of the change.
Change(x) ==
    /\ version[x] < MaxVersion
    /\ version' = [version EXCEPT ![x] = @ + 1]
    /\ torn' = IF \E b \in Builder : /\ builder[b].at \in {"building", "built"}
                                     /\ builder[b].key[1] = x
               THEN torn \cup {x} ELSE torn
    /\ UNCHANGED <<rest, entries, order, builder, asides>>

\* An older message or memory, or a document for another.
ChangeRest(x) ==
    /\ rest[x] < MaxVersion
    /\ rest' = [rest EXCEPT ![x] = @ + 1]
    /\ UNCHANGED <<version, entries, order, builder, asides, torn>>

CacheNext ==
    \/ \E b \in Builder, x \in Subject, a \in Aside : Probe(b, x, a)
    \/ \E b \in Builder : Resolve(b) \/ Serve(b) \/ BuildContext(b) \/ StoreContext(b)
    \/ \E k \in CacheKey : Expire(k)
    \/ \E x \in Subject : Change(x) \/ ChangeRest(x)

CacheSpec == CacheInit /\ [][CacheNext]_cacheVars

-----------------------------------------------------------------------------
(* Properties.                                                             *)

\* A turn served from the cache gets a context of its own session and text, built
\* when all that cacheKey digests was what it was when the turn asked, unless the
\* subject changed under a build (BuildInput makes the key again after it: that
\* context is kept under a key it does not belong to).  And it differs from what
\* this turn would have built in nothing else, as long as nothing the key leaves
\* out has changed and all requests have the same scope and attachments: those two
\* are the wrong hits the code allows.
ServedMatchesRequest ==
    \A b \in Builder :
        LET r == builder[b]
            x == r.key[1]
        IN  r.at = "served" /\ x \notin torn =>
                /\ r.copy.built = r.key[2]
                /\ rest[x] = 0 => r.copy.rest = 0
                /\ asides[x] \subseteq {r.aside} => r.copy.aside = r.aside
=============================================================================
