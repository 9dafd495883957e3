------------------------------ MODULE StoryMode ------------------------------
(***************************************************************************)
(* A session's text story.  Its state is a file that every step reads anew *)
(* and writes back without a lock: the turn's policy, its prompt, the tool *)
(* calls of the model and, at the end, the capture of the user's words.    *)
(* Of the file only whether the story is active is kept; the card's text,  *)
(* the node and the facts are left out.                                    *)
(*                                                                         *)
(* src/agent/story_mode.go, agent.go (saveConversationMemoryFromSession)   *)
(***************************************************************************)
EXTENDS Integers

CONSTANTS
    StoryTurn,      \* turns of the session; they may overlap
    MaxStoryCalls,  \* bound: calls of the story tool in a turn
    MaxStoryFaults  \* bound: writes of the file that fail

ASSUME StoryAssumption == MaxStoryCalls \in Nat /\ MaxStoryFaults \in Nat

VARIABLES
    story,          \* story-mode.json: none, active, left, or broken
    hasCard,        \* the character card can be read
    turn,           \* where each turn stands
    want,           \* what the user's words ask for: play, work or save
    reach,          \* the tools the policy left the turn: all, story, or memory and story
    inCharacter,    \* the turn's prompt is the character's
    writing,        \* what a tool call, or the policy's leave, is about to write
    storyCalls,
    captured,       \* turns whose words went to durable memory
    began,          \* history: the policy found the story active
    leaves,         \* history: the turn itself has left the story
    unwritten,      \* history: turns that failed to write the file themselves
    disturbed,      \* history: turns beside which another turn wrote the file, or damaged it
    storyFaults

storyVars == <<story, hasCard, turn, want, reach, inCharacter, writing, storyCalls,
               captured, began, leaves, unwritten, disturbed, storyFaults>>

File == {"none", "active", "left", "broken"}

StoryTypeOK ==
    /\ story \in File /\ hasCard \in BOOLEAN
    /\ turn \in [StoryTurn -> {"idle", "policy", "prompt", "tools", "capture", "done"}]
    /\ want \in [StoryTurn -> {"play", "work", "save"}]
    /\ reach \in [StoryTurn -> {"all", "story", "memory"}] /\ inCharacter \in [StoryTurn -> BOOLEAN]
    /\ writing \in [StoryTurn -> {"", "active", "left"}]
    /\ storyCalls \in [StoryTurn -> 0..MaxStoryCalls]
    /\ captured \subseteq StoryTurn /\ began \subseteq StoryTurn /\ leaves \subseteq StoryTurn
    /\ unwritten \subseteq StoryTurn /\ disturbed \subseteq StoryTurn
    /\ storyFaults \in 0..MaxStoryFaults

StoryInit ==
    /\ story \in {"none", "active"} /\ hasCard \in BOOLEAN
    /\ turn = [t \in StoryTurn |-> "idle"] /\ want \in [StoryTurn -> {"play", "work", "save"}]
    /\ reach = [t \in StoryTurn |-> "all"] /\ inCharacter = [t \in StoryTurn |-> FALSE]
    /\ writing = [t \in StoryTurn |-> ""] /\ storyCalls = [t \in StoryTurn |-> 0]
    /\ captured = {} /\ began = {} /\ leaves = {} /\ unwritten = {} /\ disturbed = {}
    /\ storyFaults = 0

UnderWay == {t \in StoryTurn : turn[t] \notin {"idle", "done"}}

\* storyActive: a file that cannot be parsed counts as no story.
StoryActive == story = "active"

-----------------------------------------------------------------------------
(* The turn.                                                               *)

\* applyStoryModePolicy: real work leaves the story first, and goes on if that
\* fails; any other turn of a story has only the story tool, and the memory tools
\* beside it when its words ask to be saved.
ApplyPolicy(t) ==
    /\ turn[t] = "idle"
    /\ began' = IF StoryActive THEN began \cup {t} ELSE began
    /\ IF StoryActive /\ want[t] = "work"
       THEN /\ writing' = [writing EXCEPT ![t] = "left"]
            /\ turn' = [turn EXCEPT ![t] = "policy"] /\ UNCHANGED reach
       ELSE /\ reach' = [reach EXCEPT ![t] = IF ~StoryActive THEN "all"
                                             ELSE IF want[t] = "save" THEN "memory"
                                             ELSE "story"]
            /\ turn' = [turn EXCEPT ![t] = "prompt"] /\ UNCHANGED writing
    /\ UNCHANGED <<story, hasCard, want, inCharacter, storyCalls, captured, leaves,
                   unwritten, disturbed, storyFaults>>

\* storyContextMessage replaces the agent's own prompt.
BuildPrompt(t) ==
    /\ turn[t] = "prompt" /\ turn' = [turn EXCEPT ![t] = "tools"]
    /\ inCharacter' = [inCharacter EXCEPT ![t] = StoryActive]
    /\ UNCHANGED <<story, hasCard, want, reach, writing, storyCalls, captured, began,
                   leaves, unwritten, disturbed, storyFaults>>

\* A call of the story tool reads the file.  A file that is damaged refuses every
\* call, also the one to enter.
Reads(t, kind) ==
    \/ kind = "enter" /\ hasCard /\ story # "broken"
    \/ kind = "leave" /\ story \in {"active", "left"}
    \/ kind = "record" /\ StoryActive       \* advance, restart

BeginCall(t, kind) ==
    /\ turn[t] = "tools" /\ writing[t] = ""
    /\ storyCalls[t] < MaxStoryCalls /\ storyCalls' = [storyCalls EXCEPT ![t] = @ + 1]
    /\ Reads(t, kind)
    /\ writing' = [writing EXCEPT ![t] = IF kind = "leave" THEN "left" ELSE "active"]
    /\ UNCHANGED <<story, hasCard, turn, want, reach, inCharacter, captured, began,
                   leaves, unwritten, disturbed, storyFaults>>

\* saveStorySession writes in place: a failure leaves the old state, or a file
\* that was cut off.
SaveStory(t) ==
    /\ writing[t] # ""
    /\ writing' = [writing EXCEPT ![t] = ""]
    /\ disturbed' = disturbed \cup (UnderWay \ {t})
    /\ \/ /\ story' = writing[t]
          /\ leaves' = IF writing[t] = "left" THEN leaves \cup {t} ELSE leaves
          /\ UNCHANGED <<unwritten, storyFaults>>
       \/ /\ storyFaults < MaxStoryFaults /\ storyFaults' = storyFaults + 1
          /\ story' \in {story, "broken"} /\ unwritten' = unwritten \cup {t}
          /\ UNCHANGED leaves
    /\ turn' = IF turn[t] = "policy" THEN [turn EXCEPT ![t] = "prompt"] ELSE turn
    /\ UNCHANGED <<hasCard, want, reach, inCharacter, storyCalls, captured, began>>

\* The model calls a memory tool, where the turn has one.
CallMemory(t) ==
    /\ turn[t] = "tools" /\ writing[t] = "" /\ reach[t] # "story"
    /\ captured' = captured \cup {t}
    /\ UNCHANGED <<story, hasCard, turn, want, reach, inCharacter, writing, storyCalls, began,
                   leaves, unwritten, disturbed, storyFaults>>

Answers(t) ==
    /\ turn[t] = "tools" /\ writing[t] = "" /\ turn' = [turn EXCEPT ![t] = "capture"]
    /\ UNCHANGED <<story, hasCard, want, reach, inCharacter, writing, storyCalls, captured,
                   began, leaves, unwritten, disturbed, storyFaults>>

\* Faulty: the capture does not ask for the story.
CaptureAll(t) ==
    /\ turn[t] = "capture" /\ turn' = [turn EXCEPT ![t] = "done"]
    /\ captured' = captured \cup {t}
    /\ UNCHANGED <<story, hasCard, want, reach, inCharacter, writing, storyCalls, began,
                   leaves, unwritten, disturbed, storyFaults>>

\* The user's words become durable memory unless the file says, now, that they
\* belong to a story; words that ask to be saved are saved from a story too.
CaptureWords(t) ==
    /\ turn[t] = "capture" /\ turn' = [turn EXCEPT ![t] = "done"]
    /\ captured' = IF StoryActive /\ want[t] # "save" THEN captured ELSE captured \cup {t}
    /\ UNCHANGED <<story, hasCard, want, reach, inCharacter, writing, storyCalls, began,
                   leaves, unwritten, disturbed, storyFaults>>

\* Somebody writes a card (SaveCard), or takes it away.
EditCard ==
    /\ hasCard' = ~hasCard
    /\ UNCHANGED <<story, turn, want, reach, inCharacter, writing, storyCalls, captured,
                   began, leaves, unwritten, disturbed, storyFaults>>

StoryNext ==
    \/ EditCard
    \/ \E t \in StoryTurn :
        \/ ApplyPolicy(t) \/ BuildPrompt(t) \/ SaveStory(t) \/ CallMemory(t)
        \/ Answers(t) \/ CaptureWords(t)
        \/ \E k \in {"enter", "leave", "record"} : BeginCall(t, k)

StorySpec == StoryInit /\ [][StoryNext]_storyVars

-----------------------------------------------------------------------------
(* Properties.                                                             *)

\* A turn's three looks at the file agree as long as no other turn writes it.  A
\* turn whose tools were cut down speaks as the character, and one that speaks as
\* the character has its tools cut down, unless it is the work request whose own
\* leave of the story failed.  Words said in a story reach durable memory, through
\* the turn's end or through a tool, only when the user asked to save them, or the
\* turn has left the story or failed to write it.
StoryIsSealed ==
    \A t \in StoryTurn \ disturbed :
        /\ turn[t] \in {"tools", "capture", "done"} =>
              /\ reach[t] # "all" => inCharacter[t]
              /\ inCharacter[t] => reach[t] # "all" \/ (want[t] = "work" /\ t \in unwritten)
        /\ t \in captured \cap began => want[t] = "save" \/ t \in leaves \cup unwritten
=============================================================================
