---------------------------- MODULE MCContexts ----------------------------
(***************************************************************************)
(* What a turn starts from, checked by one run: the context that is cached, *)
(* cut and compacted, the model that is configured, and the checkpoint of a *)
(* task that goes on.  As in MCServices a behaviour follows one of them,    *)
(* the one that is `focus`.                                                 *)
(***************************************************************************)
EXTENDS ContextCache, ContextFit, Compaction, ModelConfig, CheckpointJournal

CONSTANTS a1, a2, b1, c1, g1, g2, m1, m2, t1, t2, t3, x1, x2, none

VARIABLE focus

Focus == {"cache", "fit", "compaction", "model", "journal"}

\* A batch number, a stall count and two messages are what the properties of
\* the journal tell apart.
MCFields == {"batch", "model_stalls"}
MCFresh == [messages |-> << m1 >>, pending |-> << >>,
            state |-> [f \in MCFields |-> 0]]

\* Schemas of three sizes.
MCToolCost == (t1 :> 1) @@ (t2 :> 2) @@ (t3 :> 4)

ContextsInit ==
    /\ focus \in Focus
    /\ CacheInit /\ FitInit /\ CompactInit /\ ModelInit /\ Init
    \* one start is enough for a component that does nothing
    /\ focus # "model" => ~saved.external
    /\ focus # "journal" => store = NoAnchor

Alone(s) ==
    /\ focus = s /\ UNCHANGED focus
    /\ IF s = "cache" THEN TRUE ELSE UNCHANGED cacheVars
    /\ IF s = "fit" THEN TRUE ELSE UNCHANGED fitVars
    /\ IF s = "compaction" THEN TRUE ELSE UNCHANGED compactVars
    /\ IF s = "model" THEN TRUE ELSE UNCHANGED modelVars
    /\ IF s = "journal" THEN TRUE ELSE UNCHANGED vars

\* Of the cache: two changes of what contexts are built from, a second scope
\* counting as one; scopes and what the key leaves out differ for one subject.
FewChanges ==
    /\ version'[x1] + version'[x2] + rest'[x1] + Cardinality(asides'[x1]) <= 3
    /\ rest'[x2] = 0 /\ asides'[x2] \subseteq {g1} /\ asides'[x1] # {g2}

ContextsNext ==
    \/ Alone("cache") /\ CacheNext /\ FewChanges
    \/ Alone("fit") /\ FitNext
    \/ Alone("compaction") /\ CompactNext
    \/ Alone("model") /\ ModelNext
    \/ Alone("journal") /\ Next

contextsVars == <<focus, cacheVars, fitVars, compactVars, modelVars, vars>>

ContextsSpec == ContextsInit /\ [][ContextsNext]_contextsVars
=============================================================================
