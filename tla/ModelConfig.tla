----------------------------- MODULE ModelConfig -----------------------------
(***************************************************************************)
(* Which model answers.  The configuration is saved by model switches and  *)
(* profiles, edited on disk and reloaded; applying it swaps the provider   *)
(* and the catalog that every turn shares; a turn takes a snapshot of them *)
(* and carries it along.                                                   *)
(*                                                                         *)
(* src/agent/models.go, agent.go (runtime configuration),                  *)
(* provider_snapshot.go, profile_provider.go, vision_policy.go,            *)
(* context_planner.go (supportsImageContentParts)                          *)
(*                                                                         *)
(* The manager of the configuration, the provider factory and the catalog  *)
(* are libraries.  A provider is the model it was built for.               *)
(***************************************************************************)
EXTENDS Integers, FiniteSets

CONSTANTS
    Model,          \* identities of chat models
    Known,          \* those that every catalog has
    Sees,           \* those whose catalog entry lists vision
    Changer,        \* concurrent calls that change the configuration
    TurnId,         \* concurrent turns
    NoModel,
    MaxChanges,     \* bound: such calls
    MaxSetbacks     \* bound: failed writes and failed applies

ASSUME ModelAssumption ==
    /\ Known \subseteq Model /\ NoModel \notin Model
    /\ MaxChanges \in Nat /\ MaxSetbacks \in Nat

Config == [model: Model, external: BOOLEAN]     \* external: vision_mode
NoConfig == [model |-> NoModel, external |-> FALSE]
MaybeConfig == Config \cup {NoConfig}

VARIABLES
    saved,          \* a.cfg: what Get returns and the file holds
    edited,         \* the file after an edit nobody has read, or NoConfig
    live,           \* a.provider and a.activeModel, swapped under one lock
    found,          \* discovered models in a.catalog
    change,         \* where each change stands
    turnOf,         \* where each turn stands
    changes, setbacks,
    apart,          \* history: saved and live may differ, by a switch that was
                    \* not to be saved, a failed apply or changes that overlap
    ever,           \* history: models that were discovered
    dropping        \* history: models discovered while a catalog was copied

modelVars == <<saved, edited, live, found, change, turnOf, changes, setbacks,
               apart, ever, dropping>>

IdleChange == [at |-> "idle", next |-> NoConfig, old |-> NoConfig,
               persist |-> FALSE, copied |-> {}]
\* provider: whose model answers; model: the one the metadata names; images:
\* primaryVision, or "unset"; tools and packed: what the two decisions were.
IdleOf == [at |-> "idle", provider |-> NoModel, model |-> NoModel, images |-> "unset",
           tools |-> "unset", packed |-> "unset"]

Vision == {"yes", "no", "unset"}

ModelTypeOK ==
    /\ saved \in Config /\ edited \in MaybeConfig
    /\ live \in [provider: Model, model: Model]
    /\ found \subseteq Model \ Known
    /\ change \in [Changer -> [at: {"idle", "save", "apply", "swap", "restore"},
                               next: MaybeConfig, old: MaybeConfig, persist: BOOLEAN,
                               copied: SUBSET (Model \ Known)]]
    /\ turnOf \in [TurnId -> [at: {"idle", "base", "routed", "ready", "gated", "packed"},
                              provider: Model \cup {NoModel}, model: Model \cup {NoModel},
                              images: Vision, tools: Vision, packed: Vision]]
    /\ changes \in 0..MaxChanges /\ setbacks \in 0..MaxSetbacks
    /\ apart \in BOOLEAN
    /\ ever \subseteq Model /\ dropping \subseteq Model

ModelInit ==
    /\ \E c \in Config : /\ c.model \in Known /\ saved = c
                         /\ live = [provider |-> c.model, model |-> c.model]
    /\ edited = NoConfig /\ found = {}
    /\ change = [c \in Changer |-> IdleChange]
    /\ turnOf = [t \in TurnId |-> IdleOf]
    /\ changes = 0 /\ setbacks = 0
    /\ apart = FALSE /\ ever = {} /\ dropping = {}

Changing == {c \in Changer : change[c].at # "idle"}

\* A change begins; changes that overlap may end in any order.
Begins(c, record) ==
    /\ change[c].at = "idle" /\ changes < MaxChanges
    /\ change' = [change EXCEPT ![c] = record]
    /\ changes' = changes + 1

Ends(c) == change' = [change EXCEPT ![c] = IdleChange]

Advances(c, to) == change' = [change EXCEPT ![c].at = to]

\* A write or an apply fails.
Setback == setbacks < MaxSetbacks /\ setbacks' = setbacks + 1

-----------------------------------------------------------------------------
(* Switching: SwitchModelKind, and ApplyModelProfile, which is always       *)
(* saved and sets the models of several kinds.                              *)

\* The catalog decides whether a model may be chosen; a copy of the current
\* configuration is changed.  A selection that is refused changes nothing.
SwitchModelKind(c, m, persist) ==
    /\ m \in Known \cup found
    /\ Begins(c, [at |-> IF persist THEN "save" ELSE "apply",
                  next |-> [saved EXCEPT !.model = m], old |-> NoConfig,
                  persist |-> persist, copied |-> {}])
    /\ apart' = (apart \/ Changing # {})
    /\ UNCHANGED <<saved, edited, live, found, turnOf, setbacks, ever, dropping>>

\* Faulty: a selection whose save failed is applied all the same.
SaveErrorIgnored(c) ==
    /\ change[c].at = "save" /\ Advances(c, "apply")
    /\ \/ saved' = change[c].next /\ edited' = NoConfig /\ UNCHANGED setbacks
       \/ Setback /\ UNCHANGED <<saved, edited>>
    /\ UNCHANGED <<live, found, turnOf, changes, apart, ever, dropping>>

\* The save comes before the apply, so that a failed one changes nothing.
SaveSelection(c) ==
    /\ change[c].at = "save"
    /\ \/ /\ saved' = change[c].next /\ edited' = NoConfig
          /\ Advances(c, "apply") /\ UNCHANGED setbacks
       \/ /\ Setback /\ Ends(c) /\ UNCHANGED <<saved, edited>>
    /\ UNCHANGED <<live, found, turnOf, changes, apart, ever, dropping>>

\* The user edits the file.
EditFile ==
    /\ edited = NoConfig /\ changes < MaxChanges
    /\ edited' \in Config \ {saved}
    /\ UNCHANGED <<saved, live, found, change, turnOf, changes, setbacks, apart,
                   ever, dropping>>

\* ReloadConfig, and the watcher: the manager takes the file when it is valid.
ReloadConfig(c) ==
    /\ edited # NoConfig
    /\ Begins(c, [at |-> "apply", next |-> edited, old |-> saved, persist |-> TRUE,
                  copied |-> {}])
    /\ saved' = edited /\ edited' = NoConfig
    /\ apart' = (apart \/ Changing # {})
    /\ UNCHANGED <<live, found, turnOf, setbacks, ever, dropping>>

-----------------------------------------------------------------------------
(* ApplyRuntimeConfig.                                                     *)

\* Faulty: the new catalog starts without the discovered models.
CopyNothing(c) ==
    /\ change[c].at = "apply"
    /\ change' = [change EXCEPT ![c].at = "swap", ![c].copied = {}]
    /\ UNCHANGED <<saved, edited, live, found, turnOf, changes, setbacks, apart, ever,
                   dropping>>

\* The provider is built and the discovered models of the catalog are copied,
\* all without the lock.  When it fails, a reload takes its change back and a
\* switch reports the error.
CopyCatalog(c) ==
    /\ change[c].at = "apply"
    /\ \/ /\ change' = [change EXCEPT ![c].at = "swap", ![c].copied = found]
          /\ UNCHANGED <<setbacks, apart>>
       \/ /\ Setback
          /\ IF change[c].old = NoConfig
             THEN Ends(c) /\ apart' = (apart \/ change[c].persist)
             ELSE Advances(c, "restore") /\ UNCHANGED apart
    /\ UNCHANGED <<saved, edited, live, found, turnOf, changes, ever, dropping>>

Swap(c) ==
    /\ change[c].at = "swap"
    /\ live' = [provider |-> change[c].next.model, model |-> change[c].next.model]
    /\ found' = change[c].copied
    /\ Ends(c)
    /\ apart' = (apart \/ ~change[c].persist)
    /\ UNCHANGED <<saved, edited, turnOf, changes, setbacks, ever, dropping>>

\* The old configuration is saved again, and applied when that succeeds.
Restore(c) ==
    /\ change[c].at = "restore"
    /\ \/ /\ saved' = change[c].old /\ edited' = NoConfig
          /\ change' = [change EXCEPT ![c].at = "apply", ![c].next = change[c].old,
                                      ![c].old = NoConfig]
          /\ UNCHANGED <<setbacks, apart>>
       \/ /\ Setback /\ Ends(c) /\ apart' = TRUE /\ UNCHANGED <<saved, edited>>
    /\ UNCHANGED <<live, found, turnOf, changes, ever, dropping>>

\* RefreshChatModels: under the lock the answer is registered in the catalog
\* of the moment.
RefreshChatModels(m) ==
    /\ m \in Model \ (Known \cup found) /\ m \notin ever
    /\ found' = found \cup {m} /\ ever' = ever \cup {m}
    /\ dropping' = IF \E c \in Changer : change[c].at = "swap" THEN dropping \cup {m}
                   ELSE dropping
    /\ UNCHANGED <<saved, edited, live, change, turnOf, changes, setbacks, apart>>

-----------------------------------------------------------------------------
(* A turn.                                                                 *)

\* baseProviderSnapshot, under the lock.
BaseSnapshot(t) ==
    /\ turnOf[t].at = "idle"
    /\ turnOf' = [turnOf EXCEPT ![t] = [IdleOf EXCEPT !.at = "base",
                                            !.provider = live.provider,
                                            !.model = live.model]]
    /\ UNCHANGED <<saved, edited, live, found, change, changes, setbacks, apart,
                   ever, dropping>>

\* supportsImageContentParts: the decision that was kept, else one from the
\* configuration and the catalog of the moment.
SupportsImages(s) ==
    IF s.images # "unset" THEN s.images
    ELSE IF ~saved.external /\ s.model \in Sees \cap (Known \cup found) THEN "yes" ELSE "no"

\* providerSnapshotForTurn: the router may choose another model, for which a
\* provider is made; then the decision about images is taken.
RouteTurn(t) ==
    /\ turnOf[t].at = "base"
    /\ \E m \in Known \cup {turnOf[t].model} :
         LET s == IF m = turnOf[t].model THEN turnOf[t]
                  ELSE [turnOf[t] EXCEPT !.provider = m, !.model = m]
         IN turnOf' = [turnOf EXCEPT ![t] = [s EXCEPT !.at = "routed",
                                                 !.images = SupportsImages(s)]]
    /\ UNCHANGED <<saved, edited, live, found, change, changes, setbacks, apart,
                   ever, dropping>>

\* providerSnapshotForProfileSource: a chat or a tool task gets a provider
\* built from the configuration of the moment, under the old metadata and
\* without the decision about images.  Other profiles keep the snapshot.
ForProfile(t, light) ==
    /\ turnOf[t].at = "routed"
    /\ turnOf' = [turnOf EXCEPT ![t] =
         IF light THEN [@ EXCEPT !.at = "ready", !.provider = saved.model,
                                 !.images = "unset"]
         ELSE [@ EXCEPT !.at = "ready"]]
    /\ UNCHANGED <<saved, edited, live, found, change, changes, setbacks, apart,
                   ever, dropping>>

\* applyVisionToolPolicy blocks one of the image tool's actions.
GateImages(t) ==
    /\ turnOf[t].at = "ready"
    /\ turnOf' = [turnOf EXCEPT ![t].at = "gated", ![t].tools = SupportsImages(turnOf[t])]
    /\ UNCHANGED <<saved, edited, live, found, change, changes, setbacks, apart,
                   ever, dropping>>

\* BuildInput packs the images of the request, or leaves them out.
PackImages(t) ==
    /\ turnOf[t].at = "gated"
    /\ turnOf' = [turnOf EXCEPT ![t].at = "packed", ![t].packed = SupportsImages(turnOf[t])]
    /\ UNCHANGED <<saved, edited, live, found, change, changes, setbacks, apart,
                   ever, dropping>>

TurnEnds(t) ==
    /\ turnOf[t].at = "packed"
    /\ turnOf' = [turnOf EXCEPT ![t] = IdleOf]
    /\ UNCHANGED <<saved, edited, live, found, change, changes, setbacks, apart,
                   ever, dropping>>

ModelNext ==
    \/ \E c \in Changer :
         \/ \E m \in Model, persist \in BOOLEAN : SwitchModelKind(c, m, persist)
         \/ SaveSelection(c) \/ ReloadConfig(c) \/ CopyCatalog(c) \/ Swap(c) \/ Restore(c)
    \/ EditFile
    \/ \E m \in Model : RefreshChatModels(m)
    \/ \E t \in TurnId :
         \/ BaseSnapshot(t) \/ RouteTurn(t) \/ GateImages(t) \/ PackImages(t) \/ TurnEnds(t)
         \/ \E light \in BOOLEAN : ForProfile(t, light)

ModelSpec == ModelInit /\ [][ModelNext]_modelVars

-----------------------------------------------------------------------------
(* Properties.                                                             *)

\* When no change is under way, the model that answers is the one that is
\* saved: a switch whose save failed, and a reload that could not be applied
\* and was taken back, leave both as they were (SwitchModelKind,
\* ReloadConfig).  Excepted are switches that are not to be saved, a saved one
\* whose apply fails, a restore that fails, and changes that overlap.
SavedIsActive ==
    Changing = {} /\ ~apart =>
        live = [provider |-> saved.model, model |-> saved.model]

\* A discovered model stays in the catalog through every later change of the
\* configuration, unless it was registered between the copy of the catalog and
\* the swap (RefreshChatModels, ApplyRuntimeConfig).
DiscoveredIsKept == ever \ dropping \subseteq found

\* "A snapshot keeps the provider and the metadata that describes it together
\* for the whole turn": the comment at src/agent/provider_snapshot.go:17.
SnapshotIsOneModel == \A t \in TurnId : turnOf[t].provider = turnOf[t].model
=============================================================================
