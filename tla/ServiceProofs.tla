---------------------------- MODULE ServiceProofs ----------------------------
(***************************************************************************)
(* Proofs about the services beside a turn, for every value of the         *)
(* constants: the resumption of foreground tasks, a session's text story,  *)
(* a delegated task and its checkout, the messages its parent sends it,    *)
(* the heartbeat with its Close.  Each has an inductive invariant of its   *)
(* own; they share no state.                                               *)
(***************************************************************************)
EXTENDS ForegroundRecovery, StoryMode, Delegation, ParentMessages, Heartbeat,
        FiniteSetTheorems, SequenceTheorems, TLAPS

-----------------------------------------------------------------------------
(* ForegroundRecovery.                                                     *)

\* Whoever works on the session holds it, and knows the task.
HolderWorks ==
    /\ active = "user" <=> user.at # "idle"
    /\ active = "recovery" <=> recovery.at \in {"claimed", "running"}
    /\ user.at = "running" => user.task \in Record
    /\ recovery.at = "running" => recovery.task \in Record

\* The user's copy of the queue is the file, and its task is marked there.
UserIsCurrent ==
    /\ user.at # "idle" => user.queue = file
    /\ user.at = "running" => file[user.task] = "running"

\* The recovery's copy too, from its reading on; no turn holds the session then.
RecoveryIsCurrent ==
    /\ recovery.at \in {"loaded", "claimed", "running"} =>
          recovery.queue = file /\ active # "user"
    /\ recovery.at = "running" => file[recovery.task] = "running"

\* The file keeps what was accepted and what was done.
FileIsWhole ==
    /\ again = {}
    /\ \A r \in admitted : file[r] # "absent"
    /\ \A r \in finished : file[r] = "done"

ForegroundInv ==
    /\ ForegroundTypeOK
    /\ HolderWorks
    /\ ~readEarly => UserIsCurrent /\ RecoveryIsCurrent /\ FileIsWhole

\* What is reloaded is a queue in which nothing runs and nothing else changed.
LEMMA LoadedQueue ==
    ASSUME NEW q \in Queue
    PROVE  /\ Loaded(q) \in Queue
           /\ \A r \in Record : /\ q[r] = "done" => Loaded(q)[r] = "done"
                                /\ q[r] # "absent" => Loaded(q)[r] # "absent"
BY DEF Loaded, Queue, State

\* The first state satisfies the invariant.
LEMMA ForegroundStarts == ASSUME ForegroundAssumption, ForegroundInit PROVE ForegroundInv
<1>1. file \in Queue /\ Nothing \in Queue
    BY DEF ForegroundInit, Queue, State, Nothing
<1>2. ForegroundTypeOK
    <2>1. user \in [at: {"idle", "opened", "running"}, queue: Queue, task: Record \cup {None}]
        BY <1>1 DEF ForegroundInit, IdleUser
    <2>2. recovery \in [at: {"off", "loaded", "claimed", "running", "over"}, queue: Queue,
                        left: SUBSET Record, task: Record \cup {None}]
        BY <1>1 DEF ForegroundInit
    <2>3. userTurns \in 0..MaxUserTurns
        BY DEF ForegroundInit, ForegroundAssumption
    <2> QED BY <1>1, <2>1, <2>2, <2>3 DEF ForegroundInit, ForegroundTypeOK
<1>3. HolderWorks
    BY DEF ForegroundInit, HolderWorks, IdleUser
<1>4. UserIsCurrent /\ RecoveryIsCurrent /\ FileIsWhole
    BY DEF ForegroundInit, UserIsCurrent, RecoveryIsCurrent, FileIsWhole, IdleUser
<1> QED BY <1>2, <1>3, <1>4 DEF ForegroundInv

\* Opening the session makes the user's copy the file.
LEMMA OpeningKeepsInv == ASSUME ForegroundInv, OpenForeground PROVE ForegroundInv'
<1> USE DEF ForegroundInv
<1>1. PICK unsure \in SUBSET {r \in Record : file[r] = "running"} :
        user' = [at |-> "opened", task |-> None, queue |->
            [r \in Record |-> IF r \in unsure THEN "blocked" ELSE Loaded(file)[r]]]
    BY DEF OpenForeground
<1>2. file \in Queue
    BY DEF ForegroundTypeOK
<1> DEFINE q == [r \in Record |-> IF r \in unsure THEN "blocked" ELSE Loaded(file)[r]]
<1>3. /\ q \in Queue
      /\ \A r \in Record : /\ file[r] = "done" => q[r] = "done"
                           /\ file[r] # "absent" => q[r] # "absent"
    BY <1>2, LoadedQueue DEF Queue, State
<1>4. user' = [at |-> "opened", task |-> None, queue |-> q]
    BY <1>1
<1> HIDE DEF q
<1>5. file' = q /\ user'.at = "opened" /\ user'.queue = q
    BY <1>4 DEF OpenForeground
<1>6. ForegroundTypeOK'
    <2>1. user' \in [at: {"idle", "opened", "running"}, queue: Queue, task: Record \cup {None}]
        BY <1>3, <1>4
    <2>2. userTurns' \in 0..MaxUserTurns
        BY ForegroundAssumption DEF OpenForeground, ForegroundTypeOK, ForegroundAssumption
    <2>3. readEarly' \in BOOLEAN
        BY DEF OpenForeground, ForegroundTypeOK
    <2> QED BY <1>3, <1>5, <2>1, <2>2, <2>3 DEF OpenForeground, ForegroundTypeOK
<1>7. HolderWorks'
    BY <1>5 DEF OpenForeground, HolderWorks
<1>8. ASSUME ~readEarly' PROVE UserIsCurrent' /\ RecoveryIsCurrent' /\ FileIsWhole'
    <2>1. ~readEarly /\ recovery.at # "loaded"
        BY <1>8 DEF OpenForeground, ForegroundTypeOK
    <2>2. UserIsCurrent' /\ RecoveryIsCurrent'
        BY <1>5, <2>1 DEF OpenForeground, HolderWorks, UserIsCurrent, RecoveryIsCurrent
    <2>3. FileIsWhole'
        BY <1>3, <1>5, <2>1 DEF OpenForeground, FileIsWhole, ForegroundTypeOK
    <2> QED BY <2>2, <2>3
<1> QED BY <1>6, <1>7, <1>8

\* A task the user's turn takes was not done, in the file as in its copy.
LEMMA TakingKeepsInv == ASSUME ForegroundInv, TakeTask PROVE ForegroundInv'
<1> USE DEF ForegroundInv
<1>1. ASSUME user' = IdleUser, active' = "none", UNCHANGED << admitted, again >>
      PROVE  ForegroundInv'
    <2>1. Nothing \in Queue /\ user'.at = "idle" /\ file' = file
        BY <1>1 DEF TakeTask, IdleUser, Nothing, Queue, State
    <2>2. ForegroundTypeOK'
        BY <1>1, <2>1 DEF TakeTask, ForegroundTypeOK, IdleUser
    <2>3. HolderWorks'
        BY <1>1, <2>1 DEF TakeTask, HolderWorks
    <2>4. ~readEarly => UserIsCurrent' /\ RecoveryIsCurrent' /\ FileIsWhole'
        BY <1>1, <2>1 DEF TakeTask, UserIsCurrent, RecoveryIsCurrent, FileIsWhole
    <2> QED BY <2>2, <2>3, <2>4 DEF TakeTask
<1>2. ASSUME NEW r \in Record, user.queue[r] # "done",
             user' = [user EXCEPT !.at = "running", !.task = r, !.queue[r] = "running"],
             admitted' = admitted \cup {r}, Runs(r), UNCHANGED active
      PROVE  ForegroundInv'
    <2>1. user \in [at: {"idle", "opened", "running"}, queue: Queue, task: Record \cup {None}]
        BY DEF ForegroundTypeOK
    <2>2. /\ user'.at = "running" /\ user'.task = r
          /\ user'.queue = [user.queue EXCEPT ![r] = "running"]
          /\ user'.queue \in Queue

          /\ user' \in [at: {"idle", "opened", "running"}, queue: Queue, task: Record \cup {None}]
        BY <1>2, <2>1 DEF Queue, State
    <2>3. file' = user'.queue
        BY <2>2 DEF TakeTask
    <2>4. ForegroundTypeOK'
        BY <1>2, <2>2, <2>3 DEF TakeTask, ForegroundTypeOK, Runs
    <2>5. HolderWorks'
        BY <1>2, <2>2 DEF TakeTask, HolderWorks
    <2>6. ASSUME ~readEarly PROVE UserIsCurrent' /\ RecoveryIsCurrent' /\ FileIsWhole'
        <3>1. user.queue = file /\ file \in Queue /\ r \notin finished
            BY <1>2, <2>6 DEF TakeTask, UserIsCurrent, FileIsWhole, ForegroundTypeOK
        <3>2. file' = [file EXCEPT ![r] = "running"]
            BY <2>2, <2>3, <3>1
        <3>3. UserIsCurrent'
            BY <2>2, <2>3, <3>1, <3>2 DEF UserIsCurrent, Queue
        <3>4. RecoveryIsCurrent'
            BY <1>2, <2>6 DEF TakeTask, RecoveryIsCurrent, HolderWorks
        <3>5. file'[r] = "running" /\ \A x \in Record : x # r => file'[x] = file[x]
            BY <3>1, <3>2 DEF Queue
        <3>6. again' = {} /\ finished' = finished /\ finished \subseteq Record
            BY <1>2, <2>6, <3>1 DEF TakeTask, FileIsWhole, Runs, ForegroundTypeOK
        <3>7. \A x \in admitted : x \in Record /\ file[x] # "absent"
            BY <2>6 DEF FileIsWhole, ForegroundTypeOK
        <3>8. FileIsWhole'
            BY <1>2, <2>6, <3>1, <3>5, <3>6, <3>7 DEF FileIsWhole
        <3> QED BY <3>3, <3>4, <3>8
    <2> QED BY <2>4, <2>5, <2>6 DEF TakeTask
<1> QED BY <1>1, <1>2 DEF TakeTask

\* The end of the user's turn writes what it ran and nothing else.
LEMMA EndingKeepsInv == ASSUME ForegroundInv, EndTurn PROVE ForegroundInv'
<1> USE DEF ForegroundInv
<1>1. PICK s \in {"done", "ready", "blocked"} :
        /\ file' = [user.queue EXCEPT ![user.task] = s]
        /\ finished' = IF s = "done" THEN finished \cup {user.task} ELSE finished
    BY DEF EndTurn
<1>2. user.queue \in Queue /\ user.task \in Record
    BY DEF EndTurn, ForegroundTypeOK, HolderWorks
<1>3. Nothing \in Queue /\ user'.at = "idle" /\ user'.task = None /\ user'.queue = Nothing
    BY DEF EndTurn, IdleUser, Nothing, Queue, State
<1>4. file' \in Queue
    BY <1>1, <1>2 DEF Queue, State
<1>5. ForegroundTypeOK'
    BY <1>1, <1>2, <1>3, <1>4 DEF EndTurn, ForegroundTypeOK, IdleUser
<1>6. HolderWorks'
    BY <1>3 DEF EndTurn, HolderWorks
<1>7. ASSUME ~readEarly PROVE UserIsCurrent' /\ RecoveryIsCurrent' /\ FileIsWhole'
    <2>1. user.queue = file /\ active = "user" /\ file[user.task] = "running"
        BY <1>7 DEF EndTurn, UserIsCurrent, HolderWorks
    <2>2. user.task \notin finished
        BY <1>7, <2>1 DEF FileIsWhole
    <2>3. UserIsCurrent'
        BY <1>3 DEF UserIsCurrent
    <2>4. RecoveryIsCurrent'
        BY <1>7, <2>1 DEF EndTurn, RecoveryIsCurrent
    <2>5. FileIsWhole'
        BY <1>1, <1>2, <1>7, <2>1, <2>2 DEF EndTurn, FileIsWhole, Queue
    <2> QED BY <2>3, <2>4, <2>5
<1> QED BY <1>5, <1>6, <1>7 DEF EndTurn

\* The recovery reads the file; beside a turn, what it read may be stale.
LEMMA ReadingKeepsInv == ASSUME ForegroundInv, ReadQueue PROVE ForegroundInv'
<1> USE DEF ForegroundInv
<1>1. PICK allowed \in SUBSET Record :
        recovery' = [at |-> "loaded", queue |-> Loaded(file), task |-> None,
                     left |-> {r \in allowed : Loaded(file)[r] = "ready"}]
    BY DEF ReadQueue
<1>2. file \in Queue
    BY DEF ForegroundTypeOK
<1>3. /\ Loaded(file) \in Queue /\ file' = Loaded(file)
      /\ \A r \in Record : /\ file[r] = "done" => file'[r] = "done"
                           /\ file[r] # "absent" => file'[r] # "absent"
    BY <1>2, LoadedQueue DEF ReadQueue
<1>4. recovery'.at = "loaded" /\ recovery'.queue = file'
    BY <1>1, <1>3
<1>5. ForegroundTypeOK'
    <2>1. recovery' \in [at: {"off", "loaded", "claimed", "running", "over"}, queue: Queue,
                         left: SUBSET Record, task: Record \cup {None}]
        BY <1>1, <1>3
    <2>2. readEarly' \in BOOLEAN
        BY DEF ReadQueue, ForegroundTypeOK
    <2> QED BY <1>3, <2>1, <2>2 DEF ReadQueue, ForegroundTypeOK
<1>6. HolderWorks'
    BY <1>4 DEF ReadQueue, HolderWorks
<1>7. ASSUME ~readEarly' PROVE UserIsCurrent' /\ RecoveryIsCurrent' /\ FileIsWhole'
    <2>1. ~readEarly /\ active # "user"
        BY <1>7 DEF ReadQueue, ForegroundTypeOK
    <2>2. UserIsCurrent' /\ RecoveryIsCurrent'
        BY <1>4, <2>1 DEF ReadQueue, HolderWorks, UserIsCurrent, RecoveryIsCurrent
    <2>3. FileIsWhole'
        BY <1>3, <2>1 DEF ReadQueue, FileIsWhole, ForegroundTypeOK
    <2> QED BY <2>2, <2>3
<1> QED BY <1>5, <1>6, <1>7

\* The type of the recovery, by name.
RecoveryRecord ==
    [at: {"off", "loaded", "claimed", "running", "over"}, queue: Queue,
     left: SUBSET Record, task: Record \cup {None}]

\* Taking the session, and giving it back, write no file.
LEMMA HoldingKeepsInv ==
    ASSUME ForegroundInv, ClaimSession \/ ReleaseSession PROVE ForegroundInv'
<1> USE DEF ForegroundInv
<1>1. recovery \in RecoveryRecord
    BY DEF ForegroundTypeOK, RecoveryRecord
<1>2. PICK a \in {"claimed", "over"} : recovery' = [recovery EXCEPT !.at = a]
    BY DEF ClaimSession, ReleaseSession
<1>3. /\ recovery'.at = a /\ recovery'.queue = recovery.queue
      /\ recovery'.task = recovery.task /\ recovery' \in RecoveryRecord
    BY <1>1, <1>2 DEF RecoveryRecord
<1>4. UNCHANGED << file, user, userTurns, finished, again, admitted, readEarly >>
    BY DEF ClaimSession, ReleaseSession
<1>5. active' \in {"none", "user", "recovery"}
    BY DEF ClaimSession, ReleaseSession, ForegroundTypeOK
<1>6. ForegroundTypeOK'
    BY <1>3, <1>4, <1>5 DEF ForegroundTypeOK, RecoveryRecord
<1>7. HolderWorks'
    BY <1>1, <1>4, <1>2 DEF ClaimSession, ReleaseSession, HolderWorks, RecoveryRecord
<1>8. ~readEarly => UserIsCurrent' /\ RecoveryIsCurrent' /\ FileIsWhole'
    BY <1>3, <1>4
       DEF ClaimSession, ReleaseSession, HolderWorks, UserIsCurrent, RecoveryIsCurrent,
          FileIsWhole
<1> QED BY <1>4, <1>6, <1>7, <1>8

\* A task the recovery resumes is ready in the file, and so not done.
LEMMA ResumingKeepsInv == ASSUME ForegroundInv, ResumeTask PROVE ForegroundInv'
<1> USE DEF ForegroundInv
<1>1. PICK r \in recovery.left :
        /\ recovery.queue[r] = "ready"
        /\ recovery' = [recovery EXCEPT !.at = "running", !.task = r, !.left = @ \ {r},
                                        !.queue[r] = "running"]
        /\ Runs(r)
    BY DEF ResumeTask
<1>2. recovery \in RecoveryRecord
    BY DEF ForegroundTypeOK, RecoveryRecord
<1>3. r \in Record
    BY <1>1, <1>2 DEF RecoveryRecord
<1>4. /\ recovery'.at = "running" /\ recovery'.task = r
      /\ recovery'.queue = [recovery.queue EXCEPT ![r] = "running"]
      /\ recovery'.queue \in Queue /\ recovery' \in RecoveryRecord
    BY <1>1, <1>2, <1>3 DEF RecoveryRecord, Queue, State
<1>5. file' = recovery'.queue
    BY DEF ResumeTask
<1>6. ForegroundTypeOK'
    BY <1>1, <1>3, <1>4, <1>5 DEF ResumeTask, ForegroundTypeOK, RecoveryRecord, Runs
<1>7. HolderWorks'
    BY <1>3, <1>4 DEF ResumeTask, HolderWorks
<1>8. ASSUME ~readEarly PROVE UserIsCurrent' /\ RecoveryIsCurrent' /\ FileIsWhole'
    <2>1. recovery.queue = file /\ active = "recovery" /\ user.at = "idle" /\ file \in Queue
        BY <1>8 DEF ResumeTask, RecoveryIsCurrent, HolderWorks, ForegroundTypeOK
    <2>2. file' = [file EXCEPT ![r] = "running"] /\ file'[r] = "running" /\ r \notin finished
        BY <1>1, <1>3, <1>4, <1>5, <1>8, <2>1 DEF FileIsWhole, Queue
    <2>3. UserIsCurrent' /\ RecoveryIsCurrent'
        BY <1>4, <1>5, <2>1, <2>2 DEF ResumeTask, UserIsCurrent, RecoveryIsCurrent
    <2>4. FileIsWhole'
        BY <1>1, <1>3, <1>8, <2>1, <2>2 DEF ResumeTask, FileIsWhole, Runs, Queue
    <2> QED BY <2>3, <2>4
<1> QED BY <1>6, <1>7, <1>8 DEF ResumeTask

\* The end of a resumed task writes what it ran and nothing else.
LEMMA ResumedKeepsInv == ASSUME ForegroundInv, TaskEnds PROVE ForegroundInv'
<1> USE DEF ForegroundInv
<1>1. PICK s \in {"done", "ready", "blocked"} :
        /\ recovery' = [recovery EXCEPT !.at = "claimed", !.task = None,
                                        !.queue[recovery.task] = s]
        /\ finished' = IF s = "done" THEN finished \cup {recovery.task} ELSE finished
    BY DEF TaskEnds
<1>2. recovery \in RecoveryRecord /\ recovery.task \in Record
    BY DEF TaskEnds, ForegroundTypeOK, RecoveryRecord, HolderWorks
<1>3. /\ recovery'.at = "claimed"
      /\ recovery'.queue = [recovery.queue EXCEPT ![recovery.task] = s]
      /\ recovery'.queue \in Queue /\ recovery' \in RecoveryRecord
    BY <1>1, <1>2 DEF RecoveryRecord, Queue, State
<1>4. file' = recovery'.queue
    BY DEF TaskEnds
<1>5. ForegroundTypeOK'
    BY <1>1, <1>2, <1>3, <1>4 DEF TaskEnds, ForegroundTypeOK, RecoveryRecord
<1>6. HolderWorks'
    BY <1>3 DEF TaskEnds, HolderWorks
<1>7. ASSUME ~readEarly PROVE UserIsCurrent' /\ RecoveryIsCurrent' /\ FileIsWhole'
    <2>1. /\ recovery.queue = file /\ active = "recovery" /\ user.at = "idle" /\ file \in Queue
          /\ file[recovery.task] = "running"
        BY <1>7 DEF TaskEnds, RecoveryIsCurrent, HolderWorks, ForegroundTypeOK
    <2>2. file' = [file EXCEPT ![recovery.task] = s] /\ recovery.task \notin finished
        BY <1>3, <1>4, <1>7, <2>1 DEF FileIsWhole
    <2>3. UserIsCurrent' /\ RecoveryIsCurrent'
        BY <1>3, <1>4, <2>1 DEF TaskEnds, UserIsCurrent, RecoveryIsCurrent
    <2>4. FileIsWhole'
        BY <1>1, <1>2, <1>7, <2>1, <2>2 DEF TaskEnds, FileIsWhole, Queue
    <2> QED BY <2>3, <2>4
<1> QED BY <1>5, <1>6, <1>7 DEF TaskEnds

\* Every step keeps the invariant.
LEMMA ForegroundStep ==
    ASSUME ForegroundAssumption, ForegroundInv, [ForegroundNext]_foregroundVars
    PROVE  ForegroundInv'
<1>1. CASE UNCHANGED foregroundVars
    BY <1>1 DEF foregroundVars, ForegroundInv, ForegroundTypeOK, HolderWorks, UserIsCurrent,
                RecoveryIsCurrent, FileIsWhole
<1>2. CASE ForegroundNext
    BY <1>2, OpeningKeepsInv, TakingKeepsInv, EndingKeepsInv, ReadingKeepsInv, HoldingKeepsInv,
       ResumingKeepsInv, ResumedKeepsInv DEF ForegroundNext
<1> QED BY <1>1, <1>2

\* Type correctness of the foreground queue, its turn and its recovery.
THEOREM ForegroundTypeCorrect ==
    ASSUME ForegroundAssumption PROVE ForegroundSpec => []ForegroundTypeOK
<1>1. ForegroundInv => ForegroundTypeOK
    BY DEF ForegroundInv
<1> QED BY <1>1, ForegroundStarts, ForegroundStep, PTL DEF ForegroundSpec

\* Unless a turn held the session between the reading of the queue and its
\* claim, a recovery starts nothing again and loses nothing (ResumeForeground).
THEOREM RecoveryDoesNotRepeat ==
    ASSUME ForegroundAssumption PROVE ForegroundSpec => []RecoveryIsExact
<1>1. ForegroundInv => RecoveryIsExact
    BY DEF ForegroundInv, RecoveryIsExact, HolderWorks, FileIsWhole
<1> QED BY <1>1, ForegroundStarts, ForegroundStep, PTL DEF ForegroundSpec

-----------------------------------------------------------------------------
(* StoryMode.                                                              *)

\* Who has something to write, and who has tools.
WritersWork ==
    \A t \in StoryTurn :
        /\ turn[t] \in {"idle", "policy"} => reach[t] = "all"
        /\ turn[t] = "policy" => writing[t] = "left" /\ want[t] = "work"
        /\ reach[t] = "memory" => want[t] = "save"
        /\ writing[t] # "" => turn[t] \in {"policy", "tools"}

\* A turn that found the story still finds it, or has left it, or failed to write it.
StoryGoesOn(t) == t \in began => story = "active" \/ t \in leaves \cup unwritten

\* A work request whose leave failed has all tools in the story's company.
LeaveFailed(t) == want[t] = "work" /\ t \in unwritten

\* What a turn no other turn wrote beside knows of the story, by where it stands.
LooksAgree ==
    \A t \in StoryTurn \ disturbed :
        /\ turn[t] = "idle" => t \notin began
        /\ turn[t] \in {"idle", "policy", "prompt"} => t \notin captured
        /\ turn[t] = "prompt" => /\ reach[t] # "all" => story = "active"
                                 /\ story = "active" => reach[t] # "all" \/ LeaveFailed(t)
        /\ turn[t] \in {"prompt", "tools", "capture"} => StoryGoesOn(t)
        /\ turn[t] \in {"tools", "capture"} /\ t \in began /\ reach[t] = "all" =>
              t \in leaves \cup unwritten
        /\ turn[t] \in {"tools", "capture", "done"} =>
              /\ reach[t] # "all" => inCharacter[t]
              /\ inCharacter[t] => reach[t] # "all" \/ LeaveFailed(t)
        /\ t \in captured \cap began => want[t] = "save" \/ t \in leaves \cup unwritten

StoryInv == StoryTypeOK /\ WritersWork /\ LooksAgree

\* The first state satisfies the invariant.
LEMMA StoryStarts == ASSUME StoryAssumption, StoryInit PROVE StoryInv
<1>1. StoryTypeOK
    <2>1. storyCalls \in [StoryTurn -> 0..MaxStoryCalls] /\ storyFaults \in 0..MaxStoryFaults
        <3>1. 0 \in 0..MaxStoryCalls /\ 0 \in 0..MaxStoryFaults
            BY DEF StoryAssumption
        <3> QED BY <3>1 DEF StoryInit
    <2>2. reach \in [StoryTurn -> {"all", "story", "memory"}] /\ inCharacter \in [StoryTurn -> BOOLEAN]
        BY DEF StoryInit
    <2>3. /\ turn \in [StoryTurn -> {"idle", "policy", "prompt", "tools", "capture", "done"}]
          /\ writing \in [StoryTurn -> {"", "active", "left"}]
        BY DEF StoryInit
    <2> QED BY <2>1, <2>2, <2>3 DEF StoryInit, StoryTypeOK, File
<1>2. WritersWork /\ LooksAgree
    BY DEF StoryInit, WritersWork, LooksAgree
<1> QED BY <1>1, <1>2 DEF StoryInv

\* The policy looks first, the prompt second.
LEMMA PolicyKeepsInv ==
    ASSUME StoryInv, NEW t \in StoryTurn, ApplyPolicy(t) PROVE StoryInv'
<1> USE DEF StoryInv
<1>1. StoryTypeOK'
    <2>1. turn' \in [StoryTurn -> {"idle", "policy", "prompt", "tools", "capture", "done"}]
        <3>1. turn' = [turn EXCEPT ![t] = "policy"] \/ turn' = [turn EXCEPT ![t] = "prompt"]
            BY DEF ApplyPolicy
        <3> QED BY <3>1 DEF StoryTypeOK
    <2>2. reach' \in [StoryTurn -> {"all", "story", "memory"}]
        BY DEF ApplyPolicy, StoryTypeOK
    <2>3. writing' \in [StoryTurn -> {"", "active", "left"}] /\ began' \subseteq StoryTurn
        <3>1. writing' = writing \/ writing' = [writing EXCEPT ![t] = "left"]
            BY DEF ApplyPolicy
        <3>2. began' \subseteq StoryTurn
            BY DEF ApplyPolicy, StoryTypeOK
        <3> QED BY <3>1, <3>2 DEF StoryTypeOK
    <2> QED BY <2>1, <2>2, <2>3 DEF ApplyPolicy, StoryTypeOK
<1>2. CASE StoryActive /\ want[t] = "work"
    <2>1. /\ turn'[t] = "policy" /\ writing'[t] = "left" /\ UNCHANGED reach
          /\ \A u \in StoryTurn : u # t => turn'[u] = turn[u] /\ writing'[u] = writing[u]
          /\ \A u \in StoryTurn : u # t => (u \in began' <=> u \in began)
        BY <1>2 DEF ApplyPolicy, StoryTypeOK
    <2>2. WritersWork'
        BY <1>1, <1>2, <2>1 DEF ApplyPolicy, WritersWork
    <2>3. LooksAgree'
        BY <1>1, <2>1 DEF ApplyPolicy, LooksAgree, StoryGoesOn, LeaveFailed
    <2> QED BY <1>1, <2>2, <2>3
<1>3. CASE ~(StoryActive /\ want[t] = "work")
    <2>1. /\ turn'[t] = "prompt" /\ (reach'[t] # "all" <=> story = "active")
          /\ (reach'[t] = "memory" => want[t] = "save") /\ UNCHANGED writing
          /\ \A u \in StoryTurn : u # t => turn'[u] = turn[u] /\ reach'[u] = reach[u]
          /\ \A u \in StoryTurn : u # t => (u \in began' <=> u \in began)
          /\ t \in began' => t \in began \/ story = "active"
        BY <1>3 DEF ApplyPolicy, StoryTypeOK, StoryActive
    <2>2. WritersWork'
        BY <1>1, <2>1 DEF ApplyPolicy, WritersWork
    <2>3. LooksAgree'
        BY <1>1, <2>1 DEF ApplyPolicy, LooksAgree, StoryGoesOn, LeaveFailed
    <2> QED BY <1>1, <2>2, <2>3
<1> QED BY <1>2, <1>3

\* The prompt looks at the story the policy saw.
LEMMA PromptKeepsInv ==
    ASSUME StoryInv, NEW t \in StoryTurn, BuildPrompt(t) PROVE StoryInv'
<1> USE DEF StoryInv
<1>1. /\ turn'[t] = "tools" /\ (inCharacter'[t] <=> story = "active")
      /\ \A u \in StoryTurn : u # t =>
            turn'[u] = turn[u] /\ inCharacter'[u] = inCharacter[u]
    BY DEF BuildPrompt, StoryTypeOK, StoryActive
<1>2. turn[t] = "prompt"
    BY DEF BuildPrompt
<1>3. inCharacter' \in [StoryTurn -> BOOLEAN]
    <2>1. StoryActive \in BOOLEAN
        BY DEF StoryActive
    <2> QED BY <2>1 DEF BuildPrompt, StoryTypeOK
<1>4. StoryTypeOK'
    BY <1>3 DEF BuildPrompt, StoryTypeOK
<1>5. WritersWork'
    <2>1. UNCHANGED <<reach, want, writing>>
        BY DEF BuildPrompt
    <2>2. ASSUME NEW u \in StoryTurn
          PROVE  /\ turn'[u] \in {"idle", "policy"} => reach[u] = "all"
                 /\ turn'[u] = "policy" => writing[u] = "left" /\ want[u] = "work"
                 /\ reach[u] = "memory" => want[u] = "save"
                 /\ writing[u] # "" => turn'[u] \in {"policy", "tools"}
        <3>1. u # t => turn'[u] = turn[u]
            BY <1>1
        <3> QED BY <1>1, <3>1, <1>2 DEF WritersWork
    <2> QED BY <2>1, <2>2 DEF WritersWork
<1>6. LooksAgree'
    BY <1>1, <1>2 DEF BuildPrompt, LooksAgree, StoryGoesOn, LeaveFailed
<1> QED BY <1>4, <1>5, <1>6

\* A tool call writes the file later.
LEMMA CallKeepsInv ==
    ASSUME StoryAssumption, StoryInv, NEW t \in StoryTurn, NEW k \in {"enter", "leave", "record"},
           BeginCall(t, k)
    PROVE  StoryInv'
<1> USE DEF StoryInv
<1>1. /\ turn[t] = "tools" /\ writing'[t] \in {"active", "left"}
      /\ \A u \in StoryTurn : u # t => writing'[u] = writing[u]
    BY DEF BeginCall, StoryTypeOK
<1>2. StoryTypeOK'
    <2>1. storyCalls[t] + 1 \in 0..MaxStoryCalls
        <3>1. storyCalls[t] \in 0..MaxStoryCalls /\ MaxStoryCalls \in Nat
            BY DEF StoryTypeOK, StoryAssumption
        <3>2. storyCalls[t] < MaxStoryCalls
            BY DEF BeginCall
        <3> QED BY <3>1, <3>2
    <2>2. /\ storyCalls' \in [StoryTurn -> 0..MaxStoryCalls]
          /\ writing' \in [StoryTurn -> {"", "active", "left"}]
        BY <2>1 DEF BeginCall, StoryTypeOK
    <2> QED BY <2>2 DEF BeginCall, StoryTypeOK
<1>3. WritersWork'
    BY <1>1 DEF BeginCall, WritersWork
<1>4. LooksAgree'
    BY DEF BeginCall, LooksAgree, StoryGoesOn, LeaveFailed
<1> QED BY <1>2, <1>3, <1>4

\* A write disturbs every other turn under way.
LEMMA SaveKeepsInv ==
    ASSUME StoryAssumption, StoryInv, NEW t \in StoryTurn, SaveStory(t) PROVE StoryInv'
<1> USE DEF StoryInv
<1>1. turn[t] \in {"policy", "tools"} /\ t \in UnderWay
    BY DEF SaveStory, WritersWork, UnderWay
<1>2. /\ turn'[t] = IF turn[t] = "policy" THEN "prompt" ELSE "tools"
      /\ writing'[t] = ""
      /\ \A u \in StoryTurn : u # t => turn'[u] = turn[u] /\ writing'[u] = writing[u]
    BY <1>1 DEF SaveStory, StoryTypeOK
<1>3. StoryTypeOK'
    <2>1. story' \in File
        <3>1. writing[t] \in {"active", "left"}
            BY DEF SaveStory, StoryTypeOK
        <3> QED BY <3>1 DEF SaveStory, StoryTypeOK, File
    <2>4. storyFaults' \in 0..MaxStoryFaults
        <3>1. storyFaults \in 0..MaxStoryFaults /\ MaxStoryFaults \in Nat
            BY DEF StoryTypeOK, StoryAssumption
        <3>2. \/ storyFaults' = storyFaults
              \/ storyFaults < MaxStoryFaults /\ storyFaults' = storyFaults + 1
            BY DEF SaveStory
        <3> QED BY <3>1, <3>2
    <2>2. /\ disturbed' \subseteq StoryTurn /\ leaves' \subseteq StoryTurn
          /\ unwritten' \subseteq StoryTurn
        BY DEF SaveStory, StoryTypeOK, UnderWay
    <2>3. /\ turn' \in [StoryTurn -> {"idle", "policy", "prompt", "tools", "capture", "done"}]
          /\ writing' \in [StoryTurn -> {"", "active", "left"}]
        BY DEF SaveStory, StoryTypeOK
    <2> QED BY <2>1, <2>2, <2>3, <2>4 DEF SaveStory, StoryTypeOK
<1>4. WritersWork'
    <2>1. UNCHANGED <<reach, want>>
        BY DEF SaveStory
    <2> QED BY <1>1, <1>2, <2>1 DEF WritersWork
<1>5. /\ \A u \in StoryTurn : u \notin disturbed' => u \notin disturbed
      /\ \A u \in StoryTurn : u \notin disturbed' /\ u # t => turn[u] \in {"idle", "done"}
      /\ \A u \in StoryTurn : u # t => (u \in leaves' <=> u \in leaves)
      /\ \A u \in StoryTurn : u # t => (u \in unwritten' <=> u \in unwritten)
      /\ leaves \cup unwritten \subseteq leaves' \cup unwritten' /\ unwritten \subseteq unwritten'
      /\ UNCHANGED <<captured, began, reach, want, inCharacter>>
    BY DEF SaveStory, UnderWay
<1>6. ASSUME NEW u \in StoryTurn \ disturbed', u # t
      PROVE  /\ turn'[u] = "idle" => u \notin began'
             /\ turn'[u] \in {"idle", "done"}
             /\ turn'[u] = "idle" => u \notin captured'
             /\ turn'[u] = "done" => /\ reach'[u] # "all" => inCharacter'[u]
                                     /\ inCharacter'[u] => reach'[u] # "all" \/ LeaveFailed(u)'
             /\ u \in captured' \cap began' => want'[u] = "save" \/ u \in leaves' \cup unwritten'
    BY <1>2, <1>5, <1>6 DEF LooksAgree, LeaveFailed
<1>7. ASSUME t \notin disturbed'
      PROVE  /\ turn'[t] = "prompt" => t \notin captured'
             /\ turn'[t] = "prompt" => /\ reach'[t] # "all" => story' = "active"
                                       /\ story' = "active" => LeaveFailed(t)'
             /\ StoryGoesOn(t)'
             /\ t \in began' /\ reach'[t] = "all" /\ turn'[t] = "tools" => t \in leaves' \cup unwritten'
             /\ turn'[t] = "tools" => /\ reach'[t] # "all" => inCharacter'[t]
                                      /\ inCharacter'[t] => reach'[t] # "all" \/ LeaveFailed(t)'
             /\ t \in captured' \cap began' => want'[t] = "save" \/ t \in leaves' \cup unwritten'
    <2>1. /\ t \notin disturbed
          /\ \/ story' = writing[t] /\ leaves' = IF writing[t] = "left" THEN leaves \cup {t} ELSE leaves
             \/ t \in unwritten'
        BY <1>1, <1>5, <1>7 DEF SaveStory
    <2>2. writing[t] \in {"active", "left"}
        BY DEF SaveStory, StoryTypeOK
    <2>3. turn[t] = "policy" => writing[t] = "left" /\ reach[t] = "all" /\ want[t] = "work"
        BY DEF WritersWork
    <2>4. /\ turn[t] = "policy" => t \notin captured
          /\ turn[t] = "tools" =>
                /\ StoryGoesOn(t)
                /\ reach[t] # "all" => inCharacter[t]
                /\ inCharacter[t] => reach[t] # "all" \/ LeaveFailed(t)
                /\ t \in began /\ reach[t] = "all" => t \in leaves \cup unwritten
          /\ t \in captured \cap began => want[t] = "save" \/ t \in leaves \cup unwritten
        BY <1>1, <2>1 DEF LooksAgree
    <2>5. StoryGoesOn(t)'
        BY <1>5, <2>1, <2>2 DEF StoryGoesOn
    <2>6. CASE turn[t] = "policy"
        BY <1>2, <1>5, <2>1, <2>3, <2>4, <2>5, <2>6 DEF LeaveFailed
    <2>7. CASE turn[t] = "tools"
        BY <1>2, <1>5, <2>4, <2>5, <2>7 DEF LeaveFailed
    <2> QED BY <1>1, <2>6, <2>7
<1>8. LooksAgree'
    BY <1>1, <1>2, <1>6, <1>7 DEF LooksAgree
<1> QED BY <1>3, <1>4, <1>8

\* A memory tool is there for who asked, or for who is out of the story.
LEMMA MemoryKeepsInv ==
    ASSUME StoryInv, NEW t \in StoryTurn, CallMemory(t) PROVE StoryInv'
<1> USE DEF StoryInv
<1>1. /\ turn[t] = "tools" /\ reach[t] \in {"all", "memory"}
      /\ \A u \in StoryTurn : u # t => (u \in captured' <=> u \in captured)
    BY DEF CallMemory, StoryTypeOK
<1>2. StoryTypeOK'
    BY DEF CallMemory, StoryTypeOK
<1>3. WritersWork'
    BY DEF CallMemory, WritersWork
<1>4. reach[t] = "memory" => want[t] = "save"
    BY DEF WritersWork
<1>5. LooksAgree'
    BY <1>1, <1>4 DEF CallMemory, LooksAgree, StoryGoesOn, LeaveFailed
<1> QED BY <1>2, <1>3, <1>5

\* The answer looks at nothing.
LEMMA AnswerKeepsInv ==
    ASSUME StoryInv, NEW t \in StoryTurn, Answers(t) PROVE StoryInv'
<1> USE DEF StoryInv
<1>1. /\ turn[t] = "tools" /\ turn'[t] = "capture" /\ writing[t] = ""
      /\ \A u \in StoryTurn : u # t => turn'[u] = turn[u]
    BY DEF Answers, StoryTypeOK
<1>2. StoryTypeOK'
    BY DEF Answers, StoryTypeOK
<1>3. WritersWork'
    <2>1. UNCHANGED <<reach, want, writing>>
        BY DEF Answers
    <2>2. ASSUME NEW u \in StoryTurn
          PROVE  /\ turn'[u] \in {"idle", "policy"} => reach[u] = "all"
                 /\ turn'[u] = "policy" => writing[u] = "left" /\ want[u] = "work"
                 /\ reach[u] = "memory" => want[u] = "save"
                 /\ writing[u] # "" => turn'[u] \in {"policy", "tools"}
        <3>1. u # t => turn'[u] = turn[u]
            BY <1>1
        <3> QED BY <1>1, <3>1 DEF WritersWork
    <2> QED BY <2>1, <2>2 DEF WritersWork
<1>4. LooksAgree'
    BY <1>1 DEF Answers, LooksAgree, StoryGoesOn, LeaveFailed
<1> QED BY <1>2, <1>3, <1>4

\* The capture looks third.
LEMMA CaptureKeepsInv ==
    ASSUME StoryInv, NEW t \in StoryTurn, CaptureWords(t) PROVE StoryInv'
<1> USE DEF StoryInv
<1>1. /\ turn[t] = "capture" /\ turn'[t] = "done"
      /\ \A u \in StoryTurn : u # t => turn'[u] = turn[u]
      /\ \A u \in StoryTurn : u # t => (u \in captured' <=> u \in captured)
      /\ t \in captured' => t \in captured \/ story # "active" \/ want[t] = "save"
    BY DEF CaptureWords, StoryTypeOK, StoryActive
<1>2. StoryTypeOK'
    BY DEF CaptureWords, StoryTypeOK
<1>3. WritersWork'
    BY <1>1 DEF CaptureWords, WritersWork
<1>4. LooksAgree'
    BY <1>1 DEF CaptureWords, LooksAgree, StoryGoesOn, LeaveFailed
<1> QED BY <1>2, <1>3, <1>4

\* Every step keeps the invariant.
LEMMA StoryStep ==
    ASSUME StoryAssumption, StoryInv, [StoryNext]_storyVars PROVE StoryInv'
<1>1. CASE UNCHANGED storyVars
    BY <1>1 DEF storyVars, StoryInv, StoryTypeOK, WritersWork, LooksAgree, StoryGoesOn, LeaveFailed
<1>2. CASE EditCard
    BY <1>2 DEF EditCard, StoryInv, StoryTypeOK, WritersWork, LooksAgree, StoryGoesOn, LeaveFailed
<1>3. CASE \E t \in StoryTurn :
              \/ ApplyPolicy(t) \/ BuildPrompt(t) \/ SaveStory(t) \/ CallMemory(t)
              \/ Answers(t) \/ CaptureWords(t)
              \/ \E k \in {"enter", "leave", "record"} : BeginCall(t, k)
    BY <1>3, PolicyKeepsInv, PromptKeepsInv, SaveKeepsInv, MemoryKeepsInv, AnswerKeepsInv,
       CaptureKeepsInv, CallKeepsInv
<1> QED BY <1>1, <1>2, <1>3 DEF StoryNext

\* Type correctness of a story and the turns of its session.
THEOREM StoryTypeCorrect == ASSUME StoryAssumption PROVE StorySpec => []StoryTypeOK
<1>1. StoryInv => StoryTypeOK
    BY DEF StoryInv
<1> QED BY <1>1, StoryStarts, StoryStep, PTL DEF StorySpec

\* The policy, the prompt, the memory tools and the capture of a turn agree about
\* its story as long as no other turn writes the file and its own writes succeed
\* (applyStoryModePolicy, storyContextMessage, saveConversationMemoryFromSession).
THEOREM StoryStaysSealed == ASSUME StoryAssumption PROVE StorySpec => []StoryIsSealed
<1>1. StoryInv => StoryIsSealed
    BY SMTT(40) DEF StoryInv, LooksAgree, StoryIsSealed, LeaveFailed
<1> QED BY <1>1, StoryStarts, StoryStep, PTL DEF StorySpec

-----------------------------------------------------------------------------
(* Delegation.                                                             *)

\* What holds of a task by where its child stands: a task not yet made has no
\* child; a checkout is clean until the child leaves work that git sees in it, and
\* is removed only as long as it is; who was cancelled in time has failed.
Stage(t) ==
    /\ handler[t] \in {"new", "refused"} => child[t] = "none" /\ outcome[t] = "none"
    /\ child[t] \in {"none", "prepare", "poll"} => tree[t] = "none"
    /\ child[t] \in {"sandbox", "remove"} => tree[t] = "clean"
    /\ child[t] \notin {"report", "ended"} => told[t] = "nothing"
    /\ child[t] = "ended" => outcome[t] # "running"
    /\ child[t] # "ended" => outcome[t] \notin {"completed", "failed"}
    /\ t \in worked => tree[t] \in {"dirty", "committed"} \/ t \in unseen
    /\ t \in asked => outcome[t] = "cancelled"
    /\ child[t] = "finish" /\ t \in asked /\ tree[t] # "none" => childErr[t]
    /\ child[t] = "remove" => ~childErr[t] /\ t \notin asked

\* What is told of a checkout when the child's work is over.
Told(t) ==
    child[t] \in {"report", "ended"} =>
        /\ told[t] = "removed" => ~childErr[t] /\ t \notin asked /\ (t \in worked => t \in unseen)
        /\ told[t] = "removed" /\ child[t] = "ended" => outcome[t] # "failed"
        /\ tree[t] # "none" => told[t] = "path" \/ t \in stuck

DelegationInv ==
    /\ DelegationTypeOK
    /\ \A t \in Task : Stage(t) /\ Told(t)

\* A task's call and its child touch no other task.
Apart(t) ==
    \A u \in Task \ {t} :
        /\ handler'[u] = handler[u] /\ child'[u] = child[u] /\ outcome'[u] = outcome[u]
        /\ tree'[u] = tree[u] /\ (childErr'[u] <=> childErr[u]) /\ told'[u] = told[u]
        /\ (u \in worked' <=> u \in worked) /\ (u \in unseen' <=> u \in unseen)
        /\ (u \in asked' <=> u \in asked)
        /\ (u \in stuck' <=> u \in stuck)

\* What does not touch the other tasks keeps the invariant for them.
LEMMA OtherTasksStay ==
    ASSUME DelegationInv, NEW t \in Task, Apart(t), DelegationTypeOK', Stage(t)', Told(t)'
    PROVE  DelegationInv'
<1>1. ASSUME NEW u \in Task, u # t PROVE Stage(u)' /\ Told(u)'
    <2>1. Stage(u) /\ Told(u)
        BY DEF DelegationInv
    <2>2. /\ handler'[u] = handler[u] /\ child'[u] = child[u] /\ outcome'[u] = outcome[u]
          /\ tree'[u] = tree[u] /\ (childErr'[u] <=> childErr[u]) /\ told'[u] = told[u]
          /\ (u \in worked' <=> u \in worked) /\ (u \in unseen' <=> u \in unseen)
          /\ (u \in asked' <=> u \in asked)
          /\ (u \in stuck' <=> u \in stuck)
        BY <1>1 DEF Apart
    <2> QED BY <2>1, <2>2 DEF Stage, Told
<1> QED BY <1>1 DEF DelegationInv

\* The first state satisfies the invariant.
LEMMA DelegationStarts == ASSUME DelegationInit PROVE DelegationInv
<1>1. DelegationTypeOK
    BY DEF DelegationInit, DelegationTypeOK
<1>2. \A t \in Task : Stage(t) /\ Told(t)
    BY DEF DelegationInit, Stage, Told
<1> QED BY <1>1, <1>2 DEF DelegationInv

\* The tool call: a task is refused, made, remembered or cancelled.
LEMMA CallKeepsStage ==
    ASSUME DelegationInv, NEW t \in Task,
           Refuse(t) \/ Delegate(t) \/ Remember(t) \/ CancelTask(t)
    PROVE  DelegationInv'
<1>1. DelegationTypeOK /\ Stage(t) /\ Told(t)
    BY DEF DelegationInv
<1>2. CASE Refuse(t)
    <2>1. DelegationTypeOK'
        BY <1>1, <1>2 DEF Refuse, Moves, DelegationTypeOK
    <2>2. Apart(t)
        BY <1>1, <1>2 DEF Refuse, Moves, DelegationTypeOK, Apart
    <2>3. Stage(t)' /\ Told(t)'
        BY <1>1, <1>2 DEF Refuse, Moves, DelegationTypeOK, Stage, Told
    <2> QED BY <2>1, <2>2, <2>3, OtherTasksStay
<1>3. CASE Delegate(t)
    <2>1. DelegationTypeOK'
        BY <1>1, <1>3 DEF Delegate, Moves, DelegationTypeOK
    <2>2. Apart(t)
        BY <1>1, <1>3 DEF Delegate, Moves, DelegationTypeOK, Apart
    <2>3. Stage(t)' /\ Told(t)'
        BY <1>1, <1>3 DEF Delegate, Moves, DelegationTypeOK, Stage, Told
    <2> QED BY <2>1, <2>2, <2>3, OtherTasksStay
<1>4. CASE Remember(t)
    <2>1. DelegationTypeOK'
        BY <1>1, <1>4 DEF Remember, Moves, DelegationTypeOK
    <2>2. Apart(t)
        BY <1>1, <1>4 DEF Remember, Moves, DelegationTypeOK, Apart
    <2>3. Stage(t)' /\ Told(t)'
        BY <1>1, <1>4 DEF Remember, Moves, DelegationTypeOK, Stage, Told
    <2> QED BY <2>1, <2>2, <2>3, OtherTasksStay
<1>5. CASE CancelTask(t)
    <2>1. DelegationTypeOK'
        BY <1>1, <1>5 DEF CancelTask, Moves, DelegationTypeOK
    <2>2. Apart(t)
        BY <1>1, <1>5 DEF CancelTask, Moves, DelegationTypeOK, Apart
    <2>3. Stage(t)' /\ Told(t)'
        BY <1>1, <1>5 DEF CancelTask, Moves, DelegationTypeOK, Stage, Told
    <2> QED BY <2>1, <2>2, <2>3, OtherTasksStay
<1> QED BY <1>2, <1>3, <1>4, <1>5

\* The child is set up, in its parent's workspace or a checkout of its own.
LEMMA SetUpKeepsStage ==
    ASSUME DelegationInv, NEW t \in Task,
           ShareWorkspace(t) \/ CreateTree(t) \/ PrepareSandbox(t) \/ ConfigureChild(t)
    PROVE  DelegationInv'
<1>1. DelegationTypeOK /\ Stage(t) /\ Told(t)
    BY DEF DelegationInv
<1>2. CASE ShareWorkspace(t)
    <2>1. DelegationTypeOK'
        BY <1>1, <1>2 DEF ShareWorkspace, Moves, DelegationTypeOK
    <2>2. Apart(t)
        BY <1>1, <1>2 DEF ShareWorkspace, Moves, DelegationTypeOK, Apart
    <2>3. Stage(t)' /\ Told(t)'
        BY <1>1, <1>2 DEF ShareWorkspace, Moves, DelegationTypeOK, Stage, Told
    <2> QED BY <2>1, <2>2, <2>3, OtherTasksStay
<1>3. CASE CreateTree(t)
    <2>1. DelegationTypeOK'
        <3>1. childErr' \in [Task -> BOOLEAN]
            BY <1>1, <1>3 DEF CreateTree, DelegationTypeOK
        <3>2. child' = [child EXCEPT ![t] = "report"] \/ child' = [child EXCEPT ![t] = "sandbox"]
            BY <1>3 DEF CreateTree, Moves
        <3>3. child' \in [Task -> {"none", "prepare", "sandbox", "config", "run", "check",
                                   "finish", "remove", "report", "poll", "ended"}]
            BY <1>1, <3>2 DEF DelegationTypeOK
        <3>4. /\ tree' \in [Task -> {"none", "clean", "dirty", "committed"}]
              /\ book' \subseteq Task /\ cwd' \in [Task -> {"engine", "request", "parent", "tree"}]
            BY <1>1, <1>3 DEF CreateTree, DelegationTypeOK
        <3> QED BY <1>1, <1>3, <3>1, <3>3, <3>4 DEF CreateTree, DelegationTypeOK
    <2>2. Apart(t)
        BY <1>1, <1>3 DEF CreateTree, Moves, DelegationTypeOK, Apart
    <2>3. Stage(t)' /\ Told(t)'
        BY <1>1, <1>3 DEF CreateTree, Moves, DelegationTypeOK, Stage, Told
    <2> QED BY <2>1, <2>2, <2>3, OtherTasksStay
<1>4. CASE PrepareSandbox(t)
    <2>1. DelegationTypeOK'
        <3>1. childErr' \in [Task -> BOOLEAN]
            BY <1>1, <1>4, ZenonT(40) DEF PrepareSandbox, DelegationTypeOK
        <3>2. child' \in [Task -> {"none", "prepare", "sandbox", "config", "run", "check",
                                   "finish", "remove", "report", "poll", "ended"}]
            BY <1>1, <1>4 DEF PrepareSandbox, Moves, DelegationTypeOK
        <3> QED BY <1>1, <1>4, <3>1, <3>2 DEF PrepareSandbox, DelegationTypeOK
    <2>2. Apart(t)
        BY <1>1, <1>4 DEF PrepareSandbox, Moves, DelegationTypeOK, Apart
    <2>3. Stage(t)' /\ Told(t)'
        BY <1>1, <1>4 DEF PrepareSandbox, Moves, DelegationTypeOK, Stage, Told
    <2> QED BY <2>1, <2>2, <2>3, OtherTasksStay
<1>5. CASE ConfigureChild(t)
    <2>1. DelegationTypeOK'
        <3>1. childErr' \in [Task -> BOOLEAN]
            BY <1>1, <1>5, ZenonT(40) DEF ConfigureChild, DelegationTypeOK
        <3>2. child' = [child EXCEPT ![t] = "run"] \/ child' = [child EXCEPT ![t] = "finish"]
            BY <1>5 DEF ConfigureChild, Moves
        <3>3. child' \in [Task -> {"none", "prepare", "sandbox", "config", "run", "check",
                                   "finish", "remove", "report", "poll", "ended"}]
            BY <1>1, <3>2 DEF DelegationTypeOK
        <3> QED BY <1>1, <1>5, <3>1, <3>3 DEF ConfigureChild, DelegationTypeOK
    <2>2. Apart(t)
        BY <1>1, <1>5 DEF ConfigureChild, Moves, DelegationTypeOK, Apart
    <2>3. Stage(t)' /\ Told(t)'
        BY <1>1, <1>5 DEF ConfigureChild, Moves, DelegationTypeOK, Stage, Told
    <2> QED BY <2>1, <2>2, <2>3, OtherTasksStay
<1> QED BY <1>2, <1>3, <1>4, <1>5

\* The child works, ends and is looked at.
LEMMA WorkKeepsStage ==
    ASSUME DelegationInv, NEW t \in Task,
           ChildWorks(t) \/ ChildEnds(t) \/ CheckCancelled(t)
    PROVE  DelegationInv'
<1>1. DelegationTypeOK /\ Stage(t) /\ Told(t)
    BY DEF DelegationInv
<1>2. CASE ChildWorks(t)
    <2>1. DelegationTypeOK'
        BY <1>1, <1>2 DEF ChildWorks, Moves, DelegationTypeOK
    <2>2. Apart(t)
        BY <1>1, <1>2 DEF ChildWorks, Moves, DelegationTypeOK, Apart
    <2>3. Stage(t)' /\ Told(t)'
        BY <1>1, <1>2 DEF ChildWorks, Moves, DelegationTypeOK, Stage, Told
    <2> QED BY <2>1, <2>2, <2>3, OtherTasksStay
<1>3. CASE ChildEnds(t)
    <2>1. DelegationTypeOK'
        BY <1>1, <1>3 DEF ChildEnds, Moves, DelegationTypeOK
    <2>2. Apart(t)
        BY <1>1, <1>3 DEF ChildEnds, Moves, DelegationTypeOK, Apart
    <2>3. Stage(t)' /\ Told(t)'
        BY <1>1, <1>3 DEF ChildEnds, Moves, DelegationTypeOK, Stage, Told
    <2> QED BY <2>1, <2>2, <2>3, OtherTasksStay
<1>4. CASE CheckCancelled(t)
    <2>1. DelegationTypeOK'
        BY <1>1, <1>4 DEF CheckCancelled, Moves, DelegationTypeOK
    <2>2. Apart(t)
        BY <1>1, <1>4 DEF CheckCancelled, Moves, DelegationTypeOK, Apart
    <2>3. Stage(t)' /\ Told(t)'
        BY <1>1, <1>4 DEF CheckCancelled, Moves, DelegationTypeOK, Stage, Told
    <2> QED BY <2>1, <2>2, <2>3, OtherTasksStay
<1> QED BY <1>2, <1>3, <1>4

\* The checkout is kept or removed, and the result is taken.
LEMMA EndKeepsStage ==
    ASSUME DelegationInv, NEW t \in Task,
           FinishTree(t) \/ RemoveTree(t) \/ ReportChild(t)
    PROVE  DelegationInv'
<1>1. DelegationTypeOK /\ Stage(t) /\ Told(t)
    BY DEF DelegationInv
<1>2. CASE FinishTree(t)
    <2>1. DelegationTypeOK'
        BY <1>1, <1>2 DEF FinishTree, Moves, DelegationTypeOK
    <2>2. Apart(t)
        BY <1>1, <1>2 DEF FinishTree, Moves, DelegationTypeOK, Apart
    <2>3. Stage(t)' /\ Told(t)'
        <3>1. /\ child[t] = "finish" /\ tree[t] \in {"none", "clean", "dirty", "committed"}
              /\ child'[t] \in {"report", "remove"} /\ told[t] = "nothing"
              /\ UNCHANGED << handler, outcome, tree, childErr, worked, unseen, asked, stuck >>
            BY <1>1, <1>2 DEF FinishTree, Moves, DelegationTypeOK, Stage
        <3>2. CASE tree[t] = "none"
            BY <1>1, <1>2, <3>1, <3>2 DEF FinishTree, Moves, DelegationTypeOK, Stage, Told
        <3>3. CASE told'[t] = "path" /\ child'[t] = "report"
            BY <1>1, <3>1, <3>3 DEF Stage, Told
        <3>4. CASE tree[t] # "none" /\ ~childErr[t] /\ ~HasChanges(t) /\ told' = told
                   /\ child'[t] = "remove"
            <4>1. told'[t] = "nothing" /\ tree[t] = "clean"
                BY <1>1, <1>2, <3>1, <3>4
                   DEF FinishTree, Moves, DelegationTypeOK, HasChanges
            <4> QED BY <1>1, <3>1, <3>4, <4>1 DEF Stage, Told
        <3>5. \/ tree[t] = "none"
              \/ told'[t] = "path" /\ child'[t] = "report"
              \/ /\ tree[t] # "none" /\ ~childErr[t] /\ ~HasChanges(t) /\ told' = told
                 /\ child'[t] = "remove"
            BY <1>1, <1>2 DEF FinishTree, Moves, DelegationTypeOK
        <3> QED BY <3>2, <3>3, <3>4, <3>5
    <2> QED BY <2>1, <2>2, <2>3, OtherTasksStay
<1>3. CASE RemoveTree(t)
    <2>1. DelegationTypeOK'
        BY <1>1, <1>3 DEF RemoveTree, Moves, DelegationTypeOK
    <2>2. Apart(t)
        BY <1>1, <1>3 DEF RemoveTree, Moves, DelegationTypeOK, Apart
    <2>3. Stage(t)' /\ Told(t)'
        BY <1>1, <1>3 DEF RemoveTree, Moves, DelegationTypeOK, Stage, Told
    <2> QED BY <2>1, <2>2, <2>3, OtherTasksStay
<1>4. CASE ReportChild(t)
    <2>1. DelegationTypeOK'
        BY <1>1, <1>4 DEF ReportChild, Moves, DelegationTypeOK
    <2>2. Apart(t)
        BY <1>1, <1>4 DEF ReportChild, Moves, DelegationTypeOK, Apart
    <2>3. Stage(t)' /\ Told(t)'
        <3>1. /\ child[t] = "report" /\ child'[t] = "ended"
              /\ UNCHANGED << handler, tree, childErr, told, worked, unseen, asked, stuck >>
            BY <1>1, <1>4 DEF ReportChild, Moves, DelegationTypeOK
        <3>2. CASE outcome[t] # "running"
            <4>1. outcome'[t] = outcome[t]
                BY <1>1, <1>4, <3>2 DEF ReportChild, DelegationTypeOK
            <4> QED BY <1>1, <3>1, <3>2, <4>1 DEF Stage, Told
        <3>3. CASE outcome[t] = "running"
            <4>1. outcome'[t] = IF childErr[t] THEN "failed" ELSE "completed"
                BY <1>1, <1>4, <3>3 DEF ReportChild, DelegationTypeOK
            <4> QED BY <1>1, <3>1, <3>3, <4>1 DEF Stage, Told
        <3> QED BY <3>2, <3>3
    <2> QED BY <2>1, <2>2, <2>3, OtherTasksStay
<1> QED BY <1>2, <1>3, <1>4

\* A task in the workers' queue has no checkout.
LEMMA QueueKeepsStage ==
    ASSUME DelegationInv, NEW t \in Task,
           Enlist(t) \/ Worker(t) \/ Poll(t) \/ StopWaiting(t)
    PROVE  DelegationInv'
<1>1. DelegationTypeOK /\ Stage(t) /\ Told(t)
    BY DEF DelegationInv
<1>2. CASE Enlist(t)
    <2>1. DelegationTypeOK'
        <3>1. childErr' \in [Task -> BOOLEAN]
            BY <1>1, <1>2 DEF Enlist, DelegationTypeOK
        <3>2. child' \in [Task -> {"none", "prepare", "sandbox", "config", "run", "check",
                                   "finish", "remove", "report", "poll", "ended"}]
            BY <1>1, <1>2 DEF Enlist, Moves, DelegationTypeOK
        <3> QED BY <1>1, <1>2, <3>1, <3>2 DEF Enlist, DelegationTypeOK
    <2>2. Apart(t)
        BY <1>1, <1>2 DEF Enlist, Moves, DelegationTypeOK, Apart
    <2>3. Stage(t)' /\ Told(t)'
        BY <1>1, <1>2 DEF Enlist, Moves, DelegationTypeOK, Stage, Told
    <2> QED BY <2>1, <2>2, <2>3, OtherTasksStay
<1>3. CASE Worker(t)
    <2>1. DelegationTypeOK'
        BY <1>1, <1>3 DEF Worker, Moves, DelegationTypeOK
    <2>2. Apart(t)
        BY <1>1, <1>3 DEF Worker, Moves, DelegationTypeOK, Apart
    <2>3. Stage(t)' /\ Told(t)'
        BY <1>1, <1>3 DEF Worker, Moves, DelegationTypeOK, Stage, Told
    <2> QED BY <2>1, <2>2, <2>3, OtherTasksStay
<1>4. CASE Poll(t)
    <2>1. DelegationTypeOK'
        BY <1>1, <1>4 DEF Poll, Moves, DelegationTypeOK
    <2>2. Apart(t)
        BY <1>1, <1>4 DEF Poll, Moves, DelegationTypeOK, Apart
    <2>3. Stage(t)' /\ Told(t)'
        BY <1>1, <1>4 DEF Poll, Moves, DelegationTypeOK, Stage, Told
    <2> QED BY <2>1, <2>2, <2>3, OtherTasksStay
<1>5. CASE StopWaiting(t)
    <2>1. DelegationTypeOK'
        BY <1>1, <1>5 DEF StopWaiting, Moves, DelegationTypeOK
    <2>2. Apart(t)
        BY <1>1, <1>5 DEF StopWaiting, Moves, DelegationTypeOK, Apart
    <2>3. Stage(t)' /\ Told(t)'
        BY <1>1, <1>5 DEF StopWaiting, Moves, DelegationTypeOK, Stage, Told
    <2> QED BY <2>1, <2>2, <2>3, OtherTasksStay
<1> QED BY <1>2, <1>3, <1>4, <1>5

\* Every step keeps the invariant.
LEMMA DelegationStep ==
    ASSUME DelegationInv, [DelegationNext]_delegationVars PROVE DelegationInv'
<1>1. CASE UNCHANGED delegationVars
    BY <1>1 DEF delegationVars, DelegationInv, DelegationTypeOK, Stage, Told
<1>2. CASE DelegationNext
    <2>1. PICK t \in Task :
            \/ Refuse(t) \/ Delegate(t) \/ Remember(t) \/ CancelTask(t)
            \/ ShareWorkspace(t) \/ CreateTree(t) \/ PrepareSandbox(t) \/ ConfigureChild(t)
            \/ ChildWorks(t) \/ ChildEnds(t) \/ CheckCancelled(t) \/ FinishTree(t)
            \/ RemoveTree(t) \/ ReportChild(t) \/ Enlist(t) \/ Worker(t) \/ Poll(t)
            \/ StopWaiting(t)
        BY <1>2 DEF DelegationNext
    <2> QED BY <2>1, CallKeepsStage, SetUpKeepsStage, WorkKeepsStage, EndKeepsStage,
               QueueKeepsStage
<1> QED BY <1>1, <1>2

\* Type correctness of delegated tasks, their children and their checkouts.
THEOREM DelegationTypeCorrect == DelegationSpec => []DelegationTypeOK
<1>1. DelegationInv => DelegationTypeOK
    BY DEF DelegationInv
<1> QED BY <1>1, DelegationStarts, DelegationStep, PTL DEF DelegationSpec

\* A checkout with work that git sees, or whose child failed or was cancelled, is
\* never said to be removed, and one that exists is named in the result unless its
\* clean-up failed unnoticed (delegate_worktree.go).
THEOREM CheckoutsAreKeptAndNamed == DelegationSpec => []CheckoutIsKeptAndNamed
<1>1. DelegationInv => CheckoutIsKeptAndNamed
    BY DEF DelegationInv, Told, CheckoutIsKeptAndNamed
<1> QED BY <1>1, DelegationStarts, DelegationStep, PTL DEF DelegationSpec

-----------------------------------------------------------------------------
(* Heartbeat.                                                              *)

\* A loop lives between the start of its pair and the close of its done channel;
\* the channels the service holds are those of the last start.
LoopsAreTheirs ==
    /\ running => chan = starts /\ starts # 0
    /\ stopped \subseteq 1..starts /\ ended \subseteq 1..starts
    /\ \A p \in Pair :
        /\ p > starts \/ p \in ended => beat[p] = "none"
        /\ beat[p] = "tick" <=> tick[p] # "none"

\* What a Close in progress has read is the pair of some start.
ClosersKnow ==
    \A c \in Closer :
        /\ Stopping(c) => closer[c].pair \in 1..starts
        /\ closer[c].at = "clear" => closer[c].pair \in ended

\* A Close that is past closeOnce, and not over.
Working(c) == closer[c].at \in {"reporter", "stop", "close", "wait", "clear"}

\* Behind closeOnce one call works at a time, so none overlaps another.
OnceIsOne ==
    /\ once # "free" => Closing
    /\ shared => /\ \A c \in Closer : Working(c) => once = "held"
                 /\ \A c, d \in Closer : Working(c) /\ Working(d) => c = d
                 /\ ~overlapped

\* Calls that never overlapped stop the pair the service holds, each once.
OneStops ==
    ~overlapped =>
        /\ \A c, d \in Closer : Stopping(c) /\ Stopping(d) => c = d
        /\ \A c \in Closer : Stopping(c) => running /\ closer[c].pair = chan
        /\ running /\ chan \in stopped =>
              \E c \in Closer : closer[c].at \in {"wait", "clear"}

PanicNeedsOverlap == panicked => overlapped /\ ~shared

\* Before any Close the service was started at most once, and nothing stopped it;
\* unless it was started while closing, it stays down when it is down.
ServiceStaysDown ==
    /\ ~Closing => running \/ starts = 0
    /\ ~reopened =>
        /\ starts <= 1
        /\ ~running => \A p \in Pair : beat[p] = "none"
        /\ \A c \in Closer : closer[c].at = "returned" => ~running
        /\ once = "done" => ~running

\* A reporter is cancelled, or its cancel is kept for the Close that comes.
ReporterIsKept == \A r \in Reporter : reporter[r] # "none" => r \in cancelled \/ r = cancel

\* Unless something was started while closing, a Close past its stop of the
\* reporter leaves none behind.
ReporterStaysDown ==
    ~reopened =>
        /\ Closing \/ ~autonomy => \A s \in Starter : starter[s] # "report"
        /\ ~autonomy => cancel = 0
        /\ \A c \in Closer : closer[c].at = "returned" \/ closer[c].at = "stop" \/ Stopping(c)
                            => cancel = 0
        /\ once = "done" => cancel = 0

HeartInv ==
    /\ HeartTypeOK /\ LoopsAreTheirs /\ ClosersKnow /\ OnceIsOne /\ OneStops
    /\ PanicNeedsOverlap /\ ServiceStaysDown /\ ReporterIsKept /\ ReporterStaysDown

\* The numbers of starts and of pairs are numbers.
LEMMA PairNumbers ==
    ASSUME HeartAssumption, HeartTypeOK
    PROVE  /\ MaxStarts \in Nat /\ starts \in 0..MaxStarts /\ chan \in 0..MaxStarts
           /\ Pair = 1..MaxStarts /\ Pair \subseteq Ticker /\ Trigger \cap Pair = {}
           /\ \A c \in Closer : closer[c].pair \in 0..MaxStarts
BY DEF HeartAssumption, HeartTypeOK, Pair, Ticker

\* The first state satisfies the invariant.
LEMMA HeartStarts == ASSUME HeartAssumption, HeartInit PROVE HeartInv
<1>1. HeartTypeOK
    <2>1. 0 \in 0..MaxStarts /\ 0 \in 0..MaxTicks /\ 0 \in 0..MaxResults
        BY DEF HeartAssumption
    <2>2. closer \in [Closer -> [at: {"idle", "enter", "reporter", "stop", "close",
                                  "wait", "clear", "returned"}, pair: 0..MaxStarts]]
        BY <2>1 DEF HeartInit
    <2>3. /\ tick \in [Ticker -> {"none", "decide", "execute", "notify"}]
          /\ beat \in [Pair -> {"none", "wait", "tick"}]
        BY DEF HeartInit
    <2>4. /\ starter \in [Starter -> {"idle", "report", "done"}]
          /\ reporter \in [Reporter -> {"none", "wait", "notify"}]
        BY DEF HeartInit
    <2> QED BY <2>1, <2>2, <2>3, <2>4 DEF HeartInit, HeartTypeOK
<1>2. LoopsAreTheirs /\ ClosersKnow /\ OnceIsOne /\ OneStops
    BY DEF HeartInit, LoopsAreTheirs, ClosersKnow, OnceIsOne, OneStops, Working, Stopping,
       Pair, Ticker
<1>3. PanicNeedsOverlap /\ ServiceStaysDown /\ ReporterIsKept /\ ReporterStaysDown
    BY DEF HeartInit, PanicNeedsOverlap, ServiceStaysDown, ReporterIsKept, ReporterStaysDown,
       Closing
<1> QED BY <1>1, <1>2, <1>3 DEF HeartInv

\* A start opens a new pair.
LEMMA StartKeepsInv ==
    ASSUME HeartAssumption, HeartInv, Start PROVE HeartInv'
<1> USE DEF HeartInv
<1>a. /\ starts' = starts + 1 /\ starts + 1 \in 1..MaxStarts /\ starts \in Nat
      /\ Pair = 1..MaxStarts /\ chan' = starts' /\ running' = TRUE /\ ~running
    BY PairNumbers DEF Start
<1>b. /\ beat' \in [Pair -> {"none", "wait", "tick"}] /\ beat'[starts'] = "wait"
      /\ \A p \in Pair : p # starts' => beat'[p] = beat[p]
    BY <1>a DEF Start, HeartTypeOK
<1>c. reopened' \in BOOLEAN /\ (~reopened' => ~reopened /\ ~Closing)
    BY DEF Start, HeartTypeOK
<1>d. /\ UNCHANGED << shared, stopped, ended, tick, ticks, closer, once, panicked, overlapped >>
      /\ UNCHANGED << autonomy, starter, reporter, cancel, cancelled, results >>
    BY DEF Start, reporterVars
<1>1. HeartTypeOK'
    <2>1. starts' \in 0..MaxStarts /\ chan' \in 0..MaxStarts
        BY <1>a
    <2> QED BY <1>a, <1>b, <1>c, <1>d, <2>1 DEF HeartTypeOK
<1>2. OnceIsOne' /\ PanicNeedsOverlap' /\ ReporterIsKept'
    BY DEF Start, reporterVars, OnceIsOne, PanicNeedsOverlap, ReporterIsKept, Closing, Working
<1>3. LoopsAreTheirs'
    <2>1. /\ running' => chan' = starts' /\ starts' # 0
          /\ stopped' \subseteq 1..starts' /\ ended' \subseteq 1..starts'
        BY <1>a, <1>d DEF LoopsAreTheirs
    <2>2. starts' \notin ended /\ beat[starts'] = "none" /\ ~(starts' > starts')
        BY <1>a DEF LoopsAreTheirs
    <2>3. ASSUME NEW p \in Pair
          PROVE  /\ p > starts' \/ p \in ended' => beat'[p] = "none"
                 /\ beat'[p] = "tick" <=> tick'[p] # "none"
        BY <1>a, <1>b, <1>d, <2>2 DEF LoopsAreTheirs
    <2> QED BY <2>1, <2>3 DEF LoopsAreTheirs
<1>4. ClosersKnow'
    BY <1>a, <1>d DEF ClosersKnow, Stopping
<1>5. OneStops'
    <2>1. \A c \in Closer : ~overlapped => ~Stopping(c)
        BY <1>a DEF OneStops
    <2>2. chan' \notin stopped'
        BY <1>a, <1>d DEF LoopsAreTheirs
    <2> QED BY <1>d, <2>1, <2>2 DEF OneStops, Stopping
<1>6. ServiceStaysDown'
    <2>1. ~Closing' => running'
        BY <1>a
    <2>2. ~reopened' => starts' <= 1 /\ running'
        BY <1>a, <1>c DEF ServiceStaysDown
    <2>3. ~reopened' => (\A c \in Closer : closer'[c].at # "returned") /\ once' # "done"
        BY <1>c, <1>d DEF OnceIsOne, Closing
    <2> QED BY <2>1, <2>2, <2>3 DEF ServiceStaysDown
<1>7. ReporterStaysDown'
    BY DEF Start, reporterVars, ReporterStaysDown, Closing, Stopping
<1> QED BY <1>1, <1>2, <1>3, <1>4, <1>5, <1>6, <1>7

\* A tick of the loop.
LEMMA TickKeepsInv ==
    ASSUME HeartAssumption, HeartInv, NEW p \in Pair, Tick(p) PROVE HeartInv'
<1> USE DEF HeartInv
<1>a. beat[p] = "wait" /\ Pair \subseteq Ticker /\ Pair = 1..MaxStarts
      /\ starts \in 0..MaxStarts
    BY PairNumbers DEF Tick
<1>b. /\ beat' \in [Pair -> {"none", "wait", "tick"}] /\ beat'[p] = "tick"
      /\ tick' \in [Ticker -> {"none", "decide", "execute", "notify"}] /\ tick'[p] = "decide"
      /\ \A q \in Pair : q # p => beat'[q] = beat[q] /\ tick'[q] = tick[q]
    BY <1>a DEF Tick, HeartTypeOK
<1>c. /\ UNCHANGED << shared, running, chan, stopped, ended, starts, closer, once, panicked >>
      /\ UNCHANGED << overlapped, reopened >> /\ UNCHANGED reporterVars
    BY DEF Tick
<1>d. ticks' \in 0..MaxTicks
    <2>1. ticks < MaxTicks /\ ticks' = ticks + 1 /\ ticks \in 0..MaxTicks /\ MaxTicks \in Nat
        BY DEF Tick, HeartTypeOK, HeartAssumption
    <2> QED BY <2>1
<1>1. HeartTypeOK'
    BY <1>b, <1>c, <1>d DEF reporterVars, HeartTypeOK
<1>2. ClosersKnow' /\ OnceIsOne' /\ OneStops' /\ PanicNeedsOverlap' /\ ReporterIsKept'
      /\ ReporterStaysDown'
    BY DEF Tick, reporterVars, ClosersKnow, OnceIsOne, OneStops, PanicNeedsOverlap,
       ReporterIsKept, ReporterStaysDown, Closing, Stopping, Working
<1>3. LoopsAreTheirs'
    BY <1>a, <1>b, <1>c DEF LoopsAreTheirs
<1>4. ServiceStaysDown'
    BY <1>a, <1>b, <1>c DEF ServiceStaysDown, Closing
<1> QED BY <1>1, <1>2, <1>3, <1>4

\* A tick of the tool is no tick of a loop.
LEMMA TriggerNowKeepsInv ==
    ASSUME HeartAssumption, HeartInv, NEW t \in Trigger, TriggerNow(t) PROVE HeartInv'
<1> USE DEF HeartInv
<1>a. /\ tick' \in [Ticker -> {"none", "decide", "execute", "notify"}]
      /\ \A q \in Pair : tick'[q] = tick[q]
    BY PairNumbers DEF TriggerNow, HeartTypeOK, Ticker
<1>b. ticks' \in 0..MaxTicks
    <2>1. ticks < MaxTicks /\ ticks' = ticks + 1 /\ ticks \in 0..MaxTicks /\ MaxTicks \in Nat
        BY DEF TriggerNow, HeartTypeOK, HeartAssumption
    <2> QED BY <2>1
<1>1. HeartTypeOK'
    BY <1>a, <1>b DEF TriggerNow, serviceVars, reporterVars, HeartTypeOK
<1>2. ClosersKnow' /\ OnceIsOne' /\ OneStops' /\ PanicNeedsOverlap' /\ ServiceStaysDown'
      /\ ReporterIsKept' /\ ReporterStaysDown'
    BY DEF TriggerNow, serviceVars, reporterVars, ClosersKnow, OnceIsOne, OneStops,
       PanicNeedsOverlap, ServiceStaysDown, ReporterIsKept, ReporterStaysDown, Closing,
       Stopping, Working
<1>3. LoopsAreTheirs'
    BY <1>a DEF TriggerNow, serviceVars, LoopsAreTheirs
<1> QED BY <1>1, <1>2, <1>3

\* A tick goes on or ends.
LEMMA TickStepKeepsInv ==
    ASSUME HeartAssumption, HeartInv, NEW x \in Ticker, TickStep(x) PROVE HeartInv'
<1> USE DEF HeartInv
<1>a. /\ tick[x] # "none" /\ tick' \in [Ticker -> {"none", "decide", "execute", "notify"}]
      /\ \A q \in Pair : q # x => tick'[q] = tick[q]
    <2>1. PICK s \in {"none", "execute", "notify"} : tick' = [tick EXCEPT ![x] = s]
        BY DEF TickStep
    <2>2. tick \in [Ticker -> {"none", "decide", "execute", "notify"}] /\ tick[x] # "none"
        BY DEF TickStep, HeartTypeOK
    <2>3. Pair \subseteq Ticker
        BY DEF Ticker
    <2> QED BY <2>1, <2>2, <2>3
<1>b. \A q \in Pair : q # x => beat'[q] = beat[q]
    BY DEF TickStep, HeartTypeOK
<1>c. x \in Pair => beat[x] = "tick" /\ beat'[x] = IF tick'[x] = "none" THEN "wait" ELSE "tick"
    BY <1>a DEF TickStep, HeartTypeOK, LoopsAreTheirs
<1>d. UNCHANGED << running, chan, stopped, ended, starts, closer, once, reopened >>
    BY DEF TickStep
<1>1. HeartTypeOK'
    BY DEF TickStep, reporterVars, HeartTypeOK
<1>2. ClosersKnow' /\ OnceIsOne' /\ OneStops' /\ PanicNeedsOverlap' /\ ReporterIsKept'
      /\ ReporterStaysDown'
    BY DEF TickStep, reporterVars, ClosersKnow, OnceIsOne, OneStops, PanicNeedsOverlap,
       ReporterIsKept, ReporterStaysDown, Closing, Stopping, Working
<1>3. LoopsAreTheirs'
    <2>1. x \in Pair => ~(x > starts \/ x \in ended)
        BY <1>c DEF LoopsAreTheirs
    <2> QED BY <1>a, <1>b, <1>c, <1>d, <2>1 DEF LoopsAreTheirs
<1>4. ServiceStaysDown'
    <2>1. x \in Pair => running \/ reopened
        BY <1>c DEF ServiceStaysDown
    <2> QED BY <1>b, <1>d, <2>1 DEF ServiceStaysDown, Closing
<1> QED BY <1>1, <1>2, <1>3, <1>4

\* A loop ends when its pair is stopped.
LEMMA LoopEndsKeepsInv ==
    ASSUME HeartAssumption, HeartInv, NEW p \in Pair, LoopEnds(p) PROVE HeartInv'
<1> USE DEF HeartInv
<1>a. /\ beat[p] = "wait" /\ beat'[p] = "none" /\ p \in stopped
      /\ \A q \in Pair : q # p => beat'[q] = beat[q]
    BY DEF LoopEnds, HeartTypeOK
<1>b. ended' = ended \cup {p} /\ UNCHANGED << running, chan, stopped, starts, tick >>
    BY DEF LoopEnds
<1>1. HeartTypeOK'
    BY DEF LoopEnds, reporterVars, HeartTypeOK
<1>2. OnceIsOne' /\ OneStops' /\ PanicNeedsOverlap' /\ ReporterIsKept' /\ ReporterStaysDown'
    BY DEF LoopEnds, reporterVars, OnceIsOne, OneStops, PanicNeedsOverlap, ReporterIsKept,
       ReporterStaysDown, Closing, Stopping, Working
<1>3. LoopsAreTheirs'
    <2>1. p \in 1..starts /\ tick[p] = "none"
        BY <1>a DEF LoopsAreTheirs
    <2> QED BY <1>a, <1>b, <2>1 DEF LoopsAreTheirs
<1>4. ClosersKnow'
    BY DEF LoopEnds, reporterVars, ClosersKnow, Stopping
<1>5. ServiceStaysDown'
    BY DEF LoopEnds, reporterVars, ServiceStaysDown, Closing
<1> QED BY <1>1, <1>2, <1>3, <1>4, <1>5

\* The kit is started.
LEMMA StartAutonomyKeepsInv ==
    ASSUME HeartAssumption, HeartInv, NEW s \in Starter, StartAutonomy(s) PROVE HeartInv'
<1> USE DEF HeartInv
<1>1. HeartTypeOK'
    BY DEF StartAutonomy, serviceVars, HeartTypeOK
<1>2. LoopsAreTheirs' /\ ClosersKnow' /\ OnceIsOne' /\ OneStops' /\ PanicNeedsOverlap'
      /\ ReporterIsKept'
    BY DEF StartAutonomy, serviceVars, LoopsAreTheirs, ClosersKnow, OnceIsOne, OneStops,
       PanicNeedsOverlap, ReporterIsKept, Closing, Stopping, Working
<1>3. ServiceStaysDown'
    BY DEF StartAutonomy, serviceVars, ServiceStaysDown, Closing
<1>4. ReporterStaysDown'
    BY DEF StartAutonomy, serviceVars, ReporterStaysDown, Closing, Stopping
<1> QED BY <1>1, <1>2, <1>3, <1>4

\* A reporter is started with a cancel that is kept.
LEMMA StartReporterKeepsInv ==
    ASSUME HeartAssumption, HeartInv, NEW s \in Starter, StartReporter(s) PROVE HeartInv'
<1> USE DEF HeartInv
<1>a. /\ starter[s] = "report" /\ starter'[s] = "done"
      /\ \A z \in Starter : z # s => starter'[z] = starter[z]
    BY DEF StartReporter, HeartTypeOK
<1>b. UNCHANGED << autonomy, closer, once, cancelled >>
    BY DEF StartReporter
<1>c. ~reopened' => ~reopened /\ ~Closing
    BY DEF StartReporter, HeartTypeOK
<1>1. HeartTypeOK'
    BY DEF StartReporter, serviceVars, HeartTypeOK
<1>2. LoopsAreTheirs' /\ ClosersKnow' /\ OnceIsOne' /\ OneStops' /\ PanicNeedsOverlap'
    BY DEF StartReporter, serviceVars, LoopsAreTheirs, ClosersKnow, OnceIsOne, OneStops,
       PanicNeedsOverlap, Closing, Stopping, Working
<1>3. ServiceStaysDown'
    BY DEF StartReporter, serviceVars, ServiceStaysDown, Closing
<1>4. ReporterIsKept'
    <2>1. CASE cancel # 0
        BY <1>b, <2>1 DEF StartReporter, ReporterIsKept
    <2>2. CASE cancel = 0
        <3>1. PICK r \in Reporter : reporter' = [reporter EXCEPT ![r] = "wait"] /\ cancel' = r
            BY <2>2 DEF StartReporter
        <3>2. \A q \in Reporter : q # r => reporter'[q] = reporter[q]
            BY <3>1 DEF HeartTypeOK
        <3>3. \A q \in Reporter : q # 0
            BY DEF Reporter
        <3> QED BY <1>b, <2>2, <3>1, <3>2, <3>3 DEF ReporterIsKept
    <2> QED BY <2>1, <2>2
<1>5. ReporterStaysDown'
    <2>1. ASSUME ~reopened'
          PROVE  /\ autonomy' /\ ~Closing'
                 /\ \A c \in Closer : closer'[c].at = "idle"
                 /\ once' = "free"
        BY <1>a, <1>b, <1>c, <2>1 DEF ReporterStaysDown, OnceIsOne, Closing
    <2> QED BY <2>1 DEF ReporterStaysDown, Stopping
<1> QED BY <1>1, <1>2, <1>3, <1>4, <1>5

\* A result arrives.
LEMMA WorkerResultKeepsInv ==
    ASSUME HeartAssumption, HeartInv, WorkerResult PROVE HeartInv'
<1> USE DEF HeartInv
<1>1. HeartTypeOK'
    BY DEF WorkerResult, serviceVars, HeartTypeOK
<1>2. LoopsAreTheirs' /\ ClosersKnow' /\ OnceIsOne' /\ OneStops' /\ PanicNeedsOverlap'
      /\ ServiceStaysDown' /\ ReporterIsKept' /\ ReporterStaysDown'
    BY DEF WorkerResult, serviceVars, LoopsAreTheirs, ClosersKnow, OnceIsOne, OneStops,
       PanicNeedsOverlap, ServiceStaysDown, ReporterIsKept, ReporterStaysDown, Closing,
       Stopping, Working
<1> QED BY <1>1, <1>2

\* A reporter works or ends.
LEMMA ConsumeKeepsInv ==
    ASSUME HeartAssumption, HeartInv, NEW r \in Reporter, Consume(r) PROVE HeartInv'
<1> USE DEF HeartInv
<1>1. HeartTypeOK'
    BY DEF Consume, serviceVars, HeartTypeOK
<1>2. LoopsAreTheirs' /\ ClosersKnow' /\ OnceIsOne' /\ OneStops' /\ PanicNeedsOverlap'
      /\ ServiceStaysDown' /\ ReporterStaysDown'
    BY DEF Consume, serviceVars, LoopsAreTheirs, ClosersKnow, OnceIsOne, OneStops,
       PanicNeedsOverlap, ServiceStaysDown, ReporterStaysDown, Closing, Stopping, Working
<1>3. ReporterIsKept'
    <2>1. \A q \in Reporter : q # r => reporter'[q] = reporter[q]
        BY DEF Consume, HeartTypeOK
    <2>2. reporter[r] # "none" /\ UNCHANGED << cancel, cancelled >>
        BY DEF Consume
    <2> QED BY <2>1, <2>2 DEF ReporterIsKept
<1> QED BY <1>1, <1>2, <1>3

\* A Close is called.
LEMMA EnterKeepsInv ==
    ASSUME HeartAssumption, HeartInv, NEW c \in Closer, Enter(c) PROVE HeartInv'
<1> USE DEF HeartInv
<1>a. closer'[c].at = "enter" /\ \A d \in Closer : d # c => closer'[d] = closer[d]
    BY DEF Enter, HeartTypeOK
<1>b. /\ UNCHANGED << running, starts, beat, once, autonomy, starter, cancel >>
      /\ closer[c].at = "idle" /\ Closing'
      /\ reopened' = (reopened \/ \E s \in Starter : starter[s] = "report")
    BY <1>a DEF Enter, serviceVars, reporterVars, Closing
<1>c. ~reopened' => ~reopened /\ \A s \in Starter : starter[s] # "report"
    BY <1>b DEF HeartTypeOK
<1>1. HeartTypeOK'
    BY DEF Enter, serviceVars, reporterVars, HeartTypeOK
<1>2. LoopsAreTheirs' /\ PanicNeedsOverlap' /\ ReporterIsKept'
    BY DEF Enter, serviceVars, reporterVars, LoopsAreTheirs, PanicNeedsOverlap, ReporterIsKept
<1>3. ClosersKnow'
    BY DEF Enter, serviceVars, reporterVars, ClosersKnow, Stopping
<1>4. OnceIsOne'
    BY DEF Enter, serviceVars, reporterVars, OnceIsOne, Working, Closing
<1>5. OneStops'
    BY DEF Enter, serviceVars, reporterVars, OneStops, Stopping
<1>6. ServiceStaysDown'
    BY <1>a, <1>b, <1>c DEF ServiceStaysDown
<1>7. ReporterStaysDown'
    BY <1>a, <1>b, <1>c DEF ReporterStaysDown, Stopping
<1> QED BY <1>1, <1>2, <1>3, <1>4, <1>5, <1>6, <1>7

\* closeOnce lets one call work.
LEMMA TakeOnceKeepsInv ==
    ASSUME HeartAssumption, HeartInv, NEW c \in Closer, TakeOnce(c) PROVE HeartInv'
<1> USE DEF HeartInv
<1>a. closer'[c].at = (IF once = "free" THEN "reporter" ELSE "returned")
      /\ \A d \in Closer : d # c => closer'[d] = closer[d]
    BY DEF TakeOnce, HeartTypeOK
<1>b. /\ UNCHANGED << running, starts, beat, autonomy, starter, cancel, reopened >>
      /\ closer[c].at = "enter" /\ Closing' /\ Closing
      /\ once \in {"free", "done"} /\ once' = IF once = "free" THEN "held" ELSE once
    BY <1>a DEF TakeOnce, serviceVars, reporterVars, Closing, HeartTypeOK
<1>1. HeartTypeOK'
    BY DEF TakeOnce, serviceVars, reporterVars, HeartTypeOK
<1>2. LoopsAreTheirs' /\ PanicNeedsOverlap' /\ ReporterIsKept'
    BY DEF TakeOnce, serviceVars, reporterVars, LoopsAreTheirs, PanicNeedsOverlap,
       ReporterIsKept
<1>3. ClosersKnow'
    BY DEF TakeOnce, serviceVars, reporterVars, ClosersKnow, Stopping
<1>4. OnceIsOne'
    BY DEF TakeOnce, serviceVars, reporterVars, OnceIsOne, Working, Closing
<1>5. OneStops'
    BY DEF TakeOnce, serviceVars, reporterVars, OneStops, Stopping
<1>6. ServiceStaysDown'
    BY <1>a, <1>b DEF ServiceStaysDown
<1>7. ReporterStaysDown'
    BY <1>a, <1>b DEF ReporterStaysDown, Stopping
<1> QED BY <1>1, <1>2, <1>3, <1>4, <1>5, <1>6, <1>7

\* Without components every call works.
LEMMA SkipOnceKeepsInv ==
    ASSUME HeartAssumption, HeartInv, NEW c \in Closer, SkipOnce(c) PROVE HeartInv'
<1> USE DEF HeartInv
<1>1. HeartTypeOK'
    BY DEF SkipOnce, serviceVars, reporterVars, HeartTypeOK
<1>2. LoopsAreTheirs' /\ PanicNeedsOverlap' /\ ReporterIsKept'
    BY DEF SkipOnce, serviceVars, reporterVars, LoopsAreTheirs, PanicNeedsOverlap,
       ReporterIsKept
<1>3. ClosersKnow'
    BY DEF SkipOnce, serviceVars, reporterVars, ClosersKnow, Stopping
<1>4. OnceIsOne'
    BY DEF SkipOnce, serviceVars, reporterVars, OnceIsOne, Working, Closing
<1>5. OneStops'
    BY DEF SkipOnce, serviceVars, reporterVars, OneStops, Stopping
<1>6. ServiceStaysDown'
    BY DEF SkipOnce, serviceVars, reporterVars, ServiceStaysDown, Closing
<1>7. ReporterStaysDown'
    BY DEF SkipOnce, serviceVars, reporterVars, ReporterStaysDown, Closing, Stopping
<1> QED BY <1>1, <1>2, <1>3, <1>4, <1>5, <1>6, <1>7

\* The reporter is cancelled.
LEMMA StopReporterKeepsInv ==
    ASSUME HeartAssumption, HeartInv, NEW c \in Closer, StopReporter(c) PROVE HeartInv'
<1> USE DEF HeartInv
<1>1. HeartTypeOK'
    BY DEF StopReporter, serviceVars, HeartTypeOK
<1>2. LoopsAreTheirs' /\ PanicNeedsOverlap'
    BY DEF StopReporter, serviceVars, LoopsAreTheirs, PanicNeedsOverlap
<1>3. ClosersKnow'
    BY DEF StopReporter, serviceVars, ClosersKnow, Stopping
<1>4. OnceIsOne'
    BY DEF StopReporter, serviceVars, OnceIsOne, Working, Closing
<1>5. OneStops'
    BY DEF StopReporter, serviceVars, OneStops, Stopping
<1>6. ServiceStaysDown'
    BY DEF StopReporter, serviceVars, ServiceStaysDown, Closing
<1>7. ReporterIsKept'
    BY DEF StopReporter, serviceVars, ReporterIsKept
<1>8. ReporterStaysDown'
    BY DEF StopReporter, serviceVars, ReporterStaysDown, Closing, Stopping
<1> QED BY <1>1, <1>2, <1>3, <1>4, <1>5, <1>6, <1>7, <1>8

\* Stop reads the pair.
LEMMA ReadChannelsKeepsInv ==
    ASSUME HeartAssumption, HeartInv, NEW c \in Closer, ReadChannels(c) PROVE HeartInv'
<1> USE DEF HeartInv
<1>a. /\ closer[c].at = "stop" /\ \A d \in Closer : d # c => closer'[d] = closer[d]
      /\ UNCHANGED << shared, running, chan, stopped, ended, starts, beat, panicked, reopened >>
      /\ UNCHANGED << autonomy, starter, cancel >>
    BY DEF ReadChannels, CloseFinished, serviceVars, reporterVars, HeartTypeOK
<1>b. \/ running /\ closer'[c] = [at |-> "close", pair |-> chan] /\ once' = once
      \/ ~running /\ closer'[c].at = "returned" /\ once' = IF shared THEN "done" ELSE once
    BY DEF ReadChannels, CloseFinished, HeartTypeOK
<1>c. overlapped' = (overlapped \/ \E d \in Closer \ {c} : Stopping(d))
    BY DEF ReadChannels
<1>d. ~overlapped' => ~overlapped /\ \A d \in Closer \ {c} : ~Stopping(d)
    BY <1>c DEF HeartTypeOK
<1>e. Closing /\ Closing' /\ (Stopping(c)' => running /\ closer'[c].pair = chan)
    BY <1>a, <1>b DEF Closing, Stopping
<1>f. \A d \in Closer : d # c => (Stopping(d)' <=> Stopping(d)) /\ (Working(d)' <=> Working(d))
    BY <1>a DEF Stopping, Working
<1>1. HeartTypeOK'
    BY DEF ReadChannels, CloseFinished, serviceVars, reporterVars, HeartTypeOK
<1>2. LoopsAreTheirs' /\ ReporterIsKept'
    BY DEF ReadChannels, CloseFinished, serviceVars, reporterVars, LoopsAreTheirs,
       ReporterIsKept
<1>3. ClosersKnow'
    <2>1. running => chan \in 1..starts
        BY PairNumbers DEF LoopsAreTheirs
    <2> QED BY <1>a, <1>b, <1>e, <1>f, <2>1 DEF ClosersKnow
<1>4. OnceIsOne'
    <2>1. ASSUME shared PROVE \A d \in Closer : d # c => ~Working(d) /\ ~Stopping(d)
        BY <1>a, <2>1 DEF OnceIsOne, Working, Stopping
    <2>2. ASSUME shared PROVE once = "held" /\ ~overlapped'
        BY <1>a, <1>c, <2>1, <2>2 DEF OnceIsOne, Working
    <2>3. ASSUME shared, Working(c)' PROVE once' = "held"
        BY <1>b, <2>2, <2>3 DEF Working
    <2> QED BY <1>a, <1>e, <1>f, <2>1, <2>2, <2>3 DEF OnceIsOne
<1>5. OneStops'
    <2>1. ASSUME ~overlapped' PROVE \A d \in Closer : Stopping(d)' => d = c
        BY <1>d, <1>f, <2>1
    <2>2. ASSUME ~overlapped', running', chan' \in stopped' PROVE FALSE
        <3>1. PICK d \in Closer : closer[d].at \in {"wait", "clear"}
            BY <1>a, <1>d, <2>2 DEF OneStops
        <3> QED BY <1>a, <1>d, <2>2, <3>1 DEF Stopping
    <2> QED BY <1>a, <1>e, <2>1, <2>2 DEF OneStops
<1>6. PanicNeedsOverlap'
    BY <1>a, <1>c DEF PanicNeedsOverlap
<1>7. ServiceStaysDown'
    BY <1>a, <1>b, <1>e DEF ServiceStaysDown
<1>8. ReporterStaysDown'
    <2>1. ~reopened => cancel = 0
        BY <1>a DEF ReporterStaysDown
    <2> QED BY <1>a, <1>b, <1>e, <1>f, <2>1 DEF ReporterStaysDown
<1> QED BY <1>1, <1>2, <1>3, <1>4, <1>5, <1>6, <1>7, <1>8

\* Stop closes the stop channel.
LEMMA CloseChannelKeepsInv ==
    ASSUME HeartAssumption, HeartInv, NEW c \in Closer, CloseChannel(c) PROVE HeartInv'
<1> USE DEF HeartInv
<1>a. /\ closer[c].at = "close" /\ \A d \in Closer : d # c => closer'[d] = closer[d]
      /\ closer'[c].pair = closer[c].pair /\ closer'[c].at \in {"close", "wait"}
      /\ closer' \in [Closer -> [at: {"idle", "enter", "reporter", "stop", "close",
                                  "wait", "clear", "returned"}, pair: 0..MaxStarts]]
    BY DEF CloseChannel, HeartTypeOK
<1>b. /\ UNCHANGED << shared, running, chan, ended, starts, beat, tick, once, overlapped >>
      /\ UNCHANGED << reopened, autonomy, starter, cancel >>
    BY DEF CloseChannel, reporterVars
<1>c. \/ /\ closer[c].pair \in stopped /\ panicked' = TRUE
         /\ UNCHANGED << closer, stopped >>
      \/ /\ closer[c].pair \notin stopped /\ panicked' = panicked
         /\ closer'[c].at = "wait" /\ stopped' = stopped \cup {closer[c].pair}
    BY DEF CloseChannel, HeartTypeOK
<1>d. closer[c].pair \in 1..starts /\ starts \in 0..MaxStarts
    BY <1>a, PairNumbers DEF ClosersKnow, Stopping
<1>e. /\ \A d \in Closer : (Stopping(d)' <=> Stopping(d)) /\ (Working(d)' <=> Working(d))
      /\ \A d \in Closer : closer'[d].pair = closer[d].pair
      /\ \A d \in Closer : closer'[d].at \in {"clear", "returned", "stop"} =>
                             closer'[d].at = closer[d].at
      /\ Stopping(c) /\ Working(c) /\ Closing /\ Closing'
    BY <1>a DEF Stopping, Working, Closing
<1>1. HeartTypeOK'
    <2>1. stopped' \subseteq Pair
        <3>1. closer[c].pair \in Pair
            BY <1>d, PairNumbers
        <3> QED BY <1>c, <3>1 DEF HeartTypeOK
    <2>2. panicked' \in BOOLEAN
        BY <1>c DEF HeartTypeOK
    <2> QED BY <1>a, <2>1, <2>2 DEF CloseChannel, reporterVars, HeartTypeOK
<1>2. ReporterIsKept'
    BY DEF CloseChannel, reporterVars, ReporterIsKept
<1>3. LoopsAreTheirs'
    BY <1>b, <1>c, <1>d DEF LoopsAreTheirs
<1>4. ClosersKnow'
    BY <1>b, <1>e DEF ClosersKnow
<1>5. OnceIsOne'
    BY <1>b, <1>e DEF OnceIsOne
<1>6. OneStops'
    <2>1. ASSUME ~overlapped PROVE closer'[c].at = "wait"
        <3>1. CASE closer[c].pair \in stopped
            <4>1. running /\ closer[c].pair = chan
                BY <1>e, <2>1 DEF OneStops
            <4>2. PICK d \in Closer : closer[d].at \in {"wait", "clear"}
                BY <2>1, <3>1, <4>1 DEF OneStops
            <4> QED BY <1>a, <1>e, <2>1, <4>2 DEF OneStops, Stopping
        <3> QED BY <1>c, <3>1
    <2> QED BY <1>b, <1>e, <2>1 DEF OneStops
<1>7. PanicNeedsOverlap'
    <2>1. ASSUME closer[c].pair \in stopped PROVE overlapped
        <3>1. CASE ~overlapped
            <4>1. running /\ closer[c].pair = chan
                BY <1>e, <3>1 DEF OneStops
            <4>2. PICK d \in Closer : closer[d].at \in {"wait", "clear"}
                BY <2>1, <3>1, <4>1 DEF OneStops
            <4> QED BY <1>a, <1>e, <3>1, <4>2 DEF OneStops, Stopping
        <3> QED BY <3>1 DEF HeartTypeOK
    <2>2. overlapped => ~shared
        BY DEF OnceIsOne
    <2> QED BY <1>b, <1>c, <2>1, <2>2 DEF PanicNeedsOverlap
<1>8. ServiceStaysDown'
    BY <1>b, <1>e DEF ServiceStaysDown
<1>9. ReporterStaysDown'
    BY <1>b, <1>e DEF ReporterStaysDown
<1> QED BY <1>1, <1>2, <1>3, <1>4, <1>5, <1>6, <1>7, <1>8, <1>9

\* Stop waits for the loop.
LEMMA AwaitLoopKeepsInv ==
    ASSUME HeartAssumption, HeartInv, NEW c \in Closer, AwaitLoop(c) PROVE HeartInv'
<1> USE DEF HeartInv
<1>1. HeartTypeOK'
    BY DEF AwaitLoop, serviceVars, reporterVars, HeartTypeOK
<1>2. LoopsAreTheirs' /\ PanicNeedsOverlap' /\ ReporterIsKept'
    BY DEF AwaitLoop, serviceVars, reporterVars, LoopsAreTheirs, PanicNeedsOverlap,
       ReporterIsKept
<1>3. ClosersKnow'
    BY DEF AwaitLoop, serviceVars, reporterVars, ClosersKnow, Stopping
<1>4. OnceIsOne'
    BY DEF AwaitLoop, serviceVars, reporterVars, OnceIsOne, Working, Closing
<1>5. OneStops'
    BY DEF AwaitLoop, serviceVars, reporterVars, OneStops, Stopping
<1>6. ServiceStaysDown'
    BY DEF AwaitLoop, serviceVars, reporterVars, ServiceStaysDown, Closing
<1>7. ReporterStaysDown'
    BY DEF AwaitLoop, serviceVars, reporterVars, ReporterStaysDown, Closing, Stopping
<1> QED BY <1>1, <1>2, <1>3, <1>4, <1>5, <1>6, <1>7

\* Stop forgets the pair.
LEMMA ClearChannelsKeepsInv ==
    ASSUME HeartAssumption, HeartInv, NEW c \in Closer, ClearChannels(c) PROVE HeartInv'
<1> USE DEF HeartInv
<1>a. /\ closer[c].at = "clear" /\ closer'[c].at = "returned"
      /\ \A d \in Closer : d # c => closer'[d] = closer[d]
      /\ closer' \in [Closer -> [at: {"idle", "enter", "reporter", "stop", "close",
                                  "wait", "clear", "returned"}, pair: 0..MaxStarts]]
    BY DEF ClearChannels, CloseFinished, HeartTypeOK
<1>b. /\ running' = FALSE /\ chan' = 0 /\ once' = IF shared THEN "done" ELSE once
      /\ UNCHANGED << shared, stopped, ended, starts, beat, overlapped, reopened >>
      /\ UNCHANGED << autonomy, starter, cancel >>
    BY DEF ClearChannels, CloseFinished, reporterVars
<1>c. /\ Stopping(c) /\ Working(c) /\ Closing /\ Closing'
      /\ ~Stopping(c)' /\ ~Working(c)'
    BY <1>a DEF Stopping, Working, Closing
<1>d. \A d \in Closer : d # c => (Stopping(d)' <=> Stopping(d)) /\ (Working(d)' <=> Working(d))
    BY <1>a DEF Stopping, Working
<1>1. HeartTypeOK'
    <2>1. 0 \in 0..MaxStarts
        BY DEF HeartAssumption
    <2>2. once' \in {"free", "held", "done"}
        BY <1>b DEF HeartTypeOK
    <2> QED BY <1>a, <1>b, <2>1, <2>2 DEF ClearChannels, reporterVars, HeartTypeOK
<1>2. PanicNeedsOverlap' /\ ReporterIsKept'
    BY DEF ClearChannels, CloseFinished, reporterVars, PanicNeedsOverlap, ReporterIsKept
<1>3. LoopsAreTheirs'
    BY DEF ClearChannels, CloseFinished, reporterVars, LoopsAreTheirs
<1>4. ClosersKnow'
    BY DEF ClearChannels, CloseFinished, reporterVars, ClosersKnow, Stopping
<1>5. OnceIsOne'
    <2>1. shared => \A d \in Closer : ~Working(d)'
        BY <1>c, <1>d DEF OnceIsOne
    <2> QED BY <1>b, <1>c, <2>1 DEF OnceIsOne
<1>6. OneStops'
    <2>1. ~overlapped => \A d \in Closer : ~Stopping(d)'
        BY <1>c, <1>d DEF OneStops
    <2> QED BY <1>b, <2>1 DEF OneStops
<1>7. ServiceStaysDown'
    <2>1. ASSUME ~reopened PROVE \A p \in Pair : beat[p] = "none"
        <3>1. /\ starts <= 1 /\ closer[c].pair \in 1..starts /\ closer[c].pair \in ended
              /\ starts \in 0..MaxStarts /\ Pair = 1..MaxStarts
            BY <1>a, <1>c, <2>1, PairNumbers DEF ServiceStaysDown, ClosersKnow
        <3>2. closer[c].pair = 1 /\ starts = 1
            BY <3>1
        <3>3. ASSUME NEW p \in Pair PROVE p > starts \/ p \in ended
            BY <3>1, <3>2
        <3> QED BY <3>3 DEF LoopsAreTheirs
    <2> QED BY <1>b, <1>c, <2>1 DEF ServiceStaysDown
<1>8. ReporterStaysDown'
    <2>1. ~reopened => cancel = 0
        BY <1>c DEF ReporterStaysDown
    <2> QED BY <1>a, <1>b, <1>c, <1>d, <2>1 DEF ReporterStaysDown
<1> QED BY <1>1, <1>2, <1>3, <1>4, <1>5, <1>6, <1>7, <1>8

\* Every step keeps the invariant.
LEMMA HeartStep ==
    ASSUME HeartAssumption, HeartInv, [HeartNext]_heartVars PROVE HeartInv'
<1>1. CASE UNCHANGED heartVars
    <2> USE DEF HeartInv
    <2>1. HeartTypeOK' /\ LoopsAreTheirs'
        BY <1>1 DEF heartVars, HeartTypeOK, LoopsAreTheirs
    <2>2. ClosersKnow' /\ OnceIsOne' /\ OneStops' /\ PanicNeedsOverlap'
        BY <1>1
           DEF heartVars, ClosersKnow, OnceIsOne, OneStops, PanicNeedsOverlap, Working,
               Stopping, Closing
    <2>3. ServiceStaysDown' /\ ReporterIsKept' /\ ReporterStaysDown'
        BY <1>1
           DEF heartVars, ServiceStaysDown, ReporterIsKept, ReporterStaysDown, Closing, Stopping
    <2> QED BY <2>1, <2>2, <2>3
<1>2. CASE HeartNext
    BY <1>2, StartKeepsInv, TickKeepsInv, TriggerNowKeepsInv, TickStepKeepsInv,
       LoopEndsKeepsInv, StartAutonomyKeepsInv, StartReporterKeepsInv, WorkerResultKeepsInv,
       ConsumeKeepsInv, EnterKeepsInv, TakeOnceKeepsInv, SkipOnceKeepsInv,
       StopReporterKeepsInv, ReadChannelsKeepsInv, CloseChannelKeepsInv, AwaitLoopKeepsInv,
       ClearChannelsKeepsInv
       DEF HeartNext, CloseStep
<1> QED BY <1>1, <1>2

\* Type correctness of the heartbeat, the reporter and their Close.
THEOREM HeartTypeCorrect == ASSUME HeartAssumption PROVE HeartSpec => []HeartTypeOK
<1>1. HeartInv => HeartTypeOK
    BY DEF HeartInv
<1> QED BY <1>1, HeartStarts, HeartStep, PTL DEF HeartSpec

\* A Close that has returned leaves no loop alive and every reporter cancelled,
\* and a second close of the stop channel needs two calls of Close that overlap
\* on an agent without components (agent.go, service.go).
THEOREM ClosedStaysQuiet == ASSUME HeartAssumption PROVE HeartSpec => []ClosedIsQuiet
<1>1. HeartInv => ClosedIsQuiet
    <2> SUFFICES ASSUME HeartInv PROVE ClosedIsQuiet
        OBVIOUS
    <2> USE DEF HeartInv
    <2>1. ASSUME ~reopened, NEW c \in Closer, closer[c].at = "returned"
          PROVE  /\ \A p \in Pair : beat[p] = "none" /\ tick[p] = "none"
                 /\ \A r \in Reporter : reporter[r] # "none" => r \in cancelled
        <3>1. ~running /\ cancel = 0
            BY <2>1 DEF ServiceStaysDown, ReporterStaysDown
        <3>2. \A p \in Pair : beat[p] = "none" /\ tick[p] = "none"
            BY <2>1, <3>1 DEF ServiceStaysDown, LoopsAreTheirs
        <3>3. \A r \in Reporter : r # 0
            BY DEF Reporter
        <3> QED BY <3>1, <3>2, <3>3 DEF ReporterIsKept
    <2> QED BY <2>1 DEF ClosedIsQuiet, PanicNeedsOverlap
<1> QED BY <1>1, HeartStarts, HeartStep, PTL DEF HeartSpec

-----------------------------------------------------------------------------
(* ParentMessages, for any number of calls, any limit and any number of    *)
(* failed writes.  The inductive invariant adds to the two properties what *)
(* each step of the drain holds in hand and which queue a call has found;  *)
(* a call that made a queue is the reason no earlier queue is found again. *)

\* The steps of a call that has found its queue.
Holding == {"found", "queued", "full"}

\* A drain holds messages of the queue it emptied.
DrainShape ==
  /\ loop = "storing" => taken # <<>>
  /\ loop \notin {"draining", "storing"} => taken = <<>>
  /\ loop \in {"draining", "storing"} => box # NoBox

\* Where calls find queues: a queue is named after the call that made it.
BoxShape ==
  /\ \A c \in Calls : call[c].at \in Holding <=> call[c].box # NoBox
  /\ box = NoBox => \A c \in Calls : call[c].box = NoBox
  /\ box = FirstBox => \A c \in Calls : call[c].at # "making"
  /\ box \in Calls => call[box].box = box
  /\ \A c \in Calls : call[c].box \in Calls => call[call[c].box].box = call[c].box
  /\ box = NoBox => accepted = <<>> /\ session = <<>>
  /\ \A b \in Calls : call[b].box # b => byTask[b] = <<>>
  /\ box = NoBox => byTask[FirstBox] = <<>>

\* While messages are out, the queue has only what came meanwhile.
MessagesBounded ==
  /\ \A b \in Boxes : Len(byTask[b]) <= Limit * (1 + failed)
  /\ Len(taken) <= Limit * (1 + failed)
  /\ loop \in {"draining", "storing"} => Len(byTask[box]) <= Limit

MessagesInv == TypeOK /\ DrainShape /\ BoxShape /\ AcceptedIsKept /\ MessagesBounded

-----------------------------------------------------------------------------
\* Facts about sequences the steps share.
LEMMA MoveHead ==
    ASSUME NEW S, NEW p \in Seq(S), NEW t \in Seq(S), NEW q \in Seq(S), t # <<>>
    PROVE  Append(p, Head(t)) \o Tail(t) \o q = p \o t \o q
<1>1. /\ Head(t) \in S /\ Tail(t) \in Seq(S)
      /\ Append(p, Head(t)) = p \o <<Head(t)>>
      /\ <<Head(t)>> \in Seq(S)
      /\ <<Head(t)>> \o Tail(t) = t
    OBVIOUS
<1>2. (p \o <<Head(t)>>) \o Tail(t) = p \o (<<Head(t)>> \o Tail(t))
    BY <1>1, ConcatAssociative
<1> QED BY <1>1, <1>2

\* A message appended to the last part is appended to the whole.
LEMMA AddLast ==
    ASSUME NEW S, NEW p \in Seq(S), NEW t \in Seq(S), NEW q \in Seq(S), NEW e \in S
    PROVE  p \o t \o Append(q, e) = Append(p \o t \o q, e)
<1>1. /\ Append(q, e) = q \o <<e>> /\ <<e>> \in Seq(S)
      /\ p \o t \in Seq(S) /\ (p \o t) \o q \in Seq(S)
      /\ Append((p \o t) \o q, e) = ((p \o t) \o q) \o <<e>>
    OBVIOUS
<1> QED BY <1>1, ConcatAssociative

\* The arithmetic of the bound: one more failed write makes room for one limit more.
LEMMA Room ==
    ASSUME NEW f \in Nat
    PROVE  /\ Limit * (1 + f) \in Nat
           /\ Limit <= Limit * (1 + f)
           /\ Limit * (1 + (f + 1)) = Limit * (1 + f) + Limit
<1>1. \A l \in Nat : l * f \in Nat
    OBVIOUS
<1>2. \A l \in Nat : /\ l * (1 + f) = l + l * f
                     /\ l * (1 + (f + 1)) = l * (1 + f) + l
    BY <1>1
<1> QED BY <1>1, <1>2, LimitAssumption

-----------------------------------------------------------------------------
\* Steps of a message call keep the types.
LEMMA TypeSend ==
    ASSUME TypeOK, NEW c \in Calls, Send(c)
    PROVE  TypeOK'
<1> USE DEF TypeOK
<1>1. CASE ReadStatus(c)
    BY <1>1 DEF ReadStatus, Goes, childVars
<1>2. CASE FindBox(c)
    BY <1>2 DEF FindBox, childVars
<1>3. CASE FindNoBox(c)
    BY <1>3 DEF FindNoBox, Goes, childVars
<1>4. CASE MakeBox(c)
    BY <1>4 DEF MakeBox, Boxes, childVars
<1>5. CASE Enqueue(c)
    <2> DEFINE b == call[c].box
    <2>1. accepted' \in Seq(Calls)
        BY <1>5 DEF Enqueue
    <2>2. byTask' \in [Boxes -> Seq(Calls)]
        <3>1. byTask' = [byTask EXCEPT ![b] = Append(byTask[b], c)]
            BY <1>5 DEF Enqueue
        <3>2. CASE b \in Boxes
            <4>1. Append(byTask[b], c) \in Seq(Calls)
                BY <3>2
            <4> QED BY <3>1, <3>2, <4>1
        <3>3. CASE b \notin Boxes
            BY <3>1, <3>3
        <3> QED BY <3>2, <3>3
    <2> QED BY <1>5, <2>1, <2>2 DEF Enqueue, Goes, childVars
<1>6. CASE QueueFull(c)
    BY <1>6 DEF QueueFull, Goes, childVars
<1> QED BY <1>1, <1>2, <1>3, <1>4, <1>5, <1>6 DEF Send

\* Steps of the child keep the types.
LEMMA TypeChild ==
    ASSUME TypeOK, DrainShape, Child
    PROVE  TypeOK'
<1> USE DEF TypeOK
<1>1. CASE StartChild
    BY <1>1 DEF StartChild, callVars, Live
<1>2. CASE RunTools
    BY <1>2, BoundAssumption DEF RunTools, callVars
<1>3. CASE Take
    <2>1. box \in Boxes
        BY <1>3 DEF Take, Queued
    <2> QED BY <1>3, <2>1 DEF Take, callVars
<1>4. CASE NothingQueued
    BY <1>4 DEF NothingQueued, callVars
<1>5. CASE Show
    BY <1>5 DEF Show, callVars
<1>6. CASE Store
    BY <1>6 DEF Store, DrainShape, callVars
<1>7. CASE StoreFails
    <2>1. box \in Boxes
        BY <1>7 DEF StoreFails, DrainShape
    <2>2. taken \o byTask[box] \in Seq(Calls)
        BY <2>1, ConcatProperties
    <2>3. byTask' \in [Boxes -> Seq(Calls)]
        BY <1>7, <2>1, <2>2 DEF StoreFails, Restored
    <2>4. failed' \in 0 .. MaxFailed
        BY <1>7, BoundAssumption DEF StoreFails
    <2> QED BY <1>7, <2>3, <2>4 DEF StoreFails, callVars
<1>8. CASE Drained
    BY <1>8 DEF Drained, callVars
<1>9. CASE EndLoop
    BY <1>9 DEF EndLoop, callVars
<1>10. CASE Report
    BY <1>10 DEF Report, callVars, Finished
<1> QED BY <1>1, <1>2, <1>3, <1>4, <1>5, <1>6, <1>7, <1>8, <1>9, <1>10 DEF Child

-----------------------------------------------------------------------------
\* A message call disturbs the queue it holds and no other.
LEMMA SendKeeps ==
    ASSUME MessagesInv, NEW c \in Calls, Send(c)
    PROVE  MessagesInv'
<1> USE DEF MessagesInv
<1>1. TypeOK'
    BY TypeSend
<1>2. DrainShape'
    <2>1. loop' = loop /\ taken' = taken
        BY DEF Send, ReadStatus, FindBox, FindNoBox, MakeBox, Enqueue, QueueFull, childVars
    <2>2. box' = box \/ box' = c
        BY DEF Send, ReadStatus, FindBox, FindNoBox, MakeBox, Enqueue, QueueFull
    <2> QED BY <2>1, <2>2, NamesAssumption DEF DrainShape, Boxes
<1>3. ASSUME Goes(c, "new", "live") \/ Goes(c, "new", "resumed") \/ Goes(c, "found", "full"),
             UNCHANGED <<childVars, box, byTask, accepted>>
      PROVE  MessagesInv'
    <2>1. \A d \in Calls : call'[d].box = call[d].box /\ (call'[d].at \in Holding <=> call[d].at \in Holding)
                          /\ (call'[d].at = "making" => call[d].at = "making")
        <3>1. /\ \A d \in Calls : d # c => call'[d] = call[d]
              /\ call'[c].box = call[c].box
            BY <1>3 DEF Goes, TypeOK
        <3>2. \/ call[c].at = "new" /\ call'[c].at \in {"live", "resumed"}
              \/ call[c].at = "found" /\ call'[c].at = "full"
            BY <1>3 DEF Goes, TypeOK
        <3> QED BY <3>1, <3>2 DEF Holding
    <2>2. BoxShape'
        BY <1>3, <2>1 DEF BoxShape, childVars
    <2>3. AcceptedIsKept' /\ MessagesBounded'
        BY <1>3, <2>1 DEF AcceptedIsKept, OneQueue, Queued, MessagesBounded, childVars
    <2> QED BY <1>1, <1>2, <2>2, <2>3
<1>4. CASE ReadStatus(c)
    BY <1>3, <1>4 DEF ReadStatus
<1>5. CASE QueueFull(c)
    BY <1>3, <1>5 DEF QueueFull
<1>6. CASE FindBox(c)
    <2>1. /\ call[c].at = "live" /\ call[c].box = NoBox /\ box \in Boxes /\ box # NoBox
          /\ call'[c].at = "found" /\ call'[c].box = box
          /\ \A d \in Calls : d # c => call'[d] = call[d]
        BY <1>6 DEF FindBox, BoxShape, Holding, TypeOK
    <2>2. \A b \in Calls : call'[b].box # b => call[b].box # b
        BY <2>1, NamesAssumption DEF Boxes
    <2>3. box \in Calls => call'[box].box = box
        BY <2>1 DEF BoxShape
    <2>4. BoxShape'
        BY <1>6, <2>1, <2>2, <2>3 DEF BoxShape, FindBox, childVars, Holding
    <2>5. OneQueue' => OneQueue
        BY <1>6, <2>1 DEF OneQueue, FindBox
    <2>6. AcceptedIsKept' /\ MessagesBounded'
        BY <1>6, <2>5 DEF AcceptedIsKept, Queued, MessagesBounded, FindBox, childVars
    <2> QED BY <1>1, <1>2, <2>4, <2>6
<1>7. CASE FindNoBox(c)
    <2>1. \A d \in Calls : call'[d].box = call[d].box /\ (call'[d].at \in Holding <=> call[d].at \in Holding)
        BY <1>7 DEF FindNoBox, Goes, Holding, TypeOK
    <2>2. BoxShape'
        BY <1>7, <2>1 DEF BoxShape, FindNoBox, childVars, NoBox, FirstBox
    <2>3. AcceptedIsKept' /\ MessagesBounded'
        BY <1>7, <2>1 DEF AcceptedIsKept, OneQueue, Queued, MessagesBounded, FindNoBox, childVars
    <2> QED BY <1>1, <1>2, <2>2, <2>3
<1>8. CASE MakeBox(c)
    <2>1. /\ call[c].at = "making" /\ call[c].box = NoBox /\ box # FirstBox /\ c \in Boxes
          /\ c # NoBox /\ c # FirstBox /\ box' = c
          /\ call'[c].at = "found" /\ call'[c].box = c
          /\ \A d \in Calls : d # c => call'[d] = call[d]
        BY <1>8, NamesAssumption DEF MakeBox, BoxShape, Holding, TypeOK, Boxes
    <2>2. byTask[c] = <<>>
        BY <2>1 DEF BoxShape
    <2>3. BoxShape'
        BY <1>8, <2>1 DEF BoxShape, MakeBox, childVars, Holding
    <2>4. MessagesBounded'
        BY <1>8, <2>1, <2>2, LimitAssumption DEF MessagesBounded, MakeBox, childVars
    <2>5. AcceptedIsKept'
        <3>1. CASE box = NoBox
            <4>1. accepted = <<>> /\ session = <<>> /\ taken = <<>>
                BY <3>1 DEF BoxShape, DrainShape
            <4>2. Queued' = <<>>
                BY <1>8, <2>1, <2>2 DEF Queued, MakeBox
            <4> QED BY <1>8, <4>1, <4>2 DEF AcceptedIsKept, MakeBox, childVars
        <3>2. CASE box # NoBox
            <4>1. box \in Calls /\ box # c /\ call[box].box = box
                BY <2>1, <3>2 DEF BoxShape, TypeOK, Boxes
            <4>2. ~ OneQueue'
                BY <2>1, <3>2, <4>1 DEF OneQueue
            <4> QED BY <4>2 DEF AcceptedIsKept
        <3> QED BY <3>1, <3>2
    <2> QED BY <1>1, <1>2, <2>3, <2>4, <2>5
<1>9. CASE Enqueue(c)
    <2> DEFINE b == call[c].box
    <2>1. /\ call[c].at = "found" /\ b \in Boxes /\ b # NoBox /\ box # NoBox
          /\ call'[c].at = "queued"
          /\ \A d \in Calls : call'[d].box = call[d].box /\ (call'[d].at \in Holding <=> call[d].at \in Holding)
                              /\ (call'[d].at = "making" => call[d].at = "making")
        BY <1>9 DEF Enqueue, Goes, BoxShape, Holding, TypeOK
    <2>2. /\ byTask[b] \in Seq(Calls) /\ byTask'[b] = Append(byTask[b], c)
          /\ Len(byTask'[b]) = Len(byTask[b]) + 1
          /\ Len(byTask'[b]) <= Limit
          /\ \A d \in Boxes : d # b => byTask'[d] = byTask[d]
        BY <1>9, <2>1, LimitAssumption DEF Enqueue, TypeOK
    <2>3. BoxShape'
        <3>1. \A d \in Calls : call'[d].box # d => byTask'[d] = <<>>
            BY <2>1, <2>2 DEF BoxShape, Boxes
        <3> QED BY <1>9, <2>1, <3>1 DEF BoxShape, Enqueue, childVars
    <2>4. MessagesBounded'
        <3>1. Limit <= Limit * (1 + failed)
            BY Room DEF TypeOK
        <3>2. \A d \in Boxes : Len(byTask'[d]) <= Limit * (1 + failed)
            <4>1. Len(byTask'[b]) <= Limit * (1 + failed)
                <5>1. Len(byTask'[b]) \in Nat /\ Limit * (1 + failed) \in Nat
                    BY <2>2, Room DEF TypeOK
                <5> QED BY <2>2, <3>1, <5>1, LimitAssumption
            <4> QED BY <2>2, <4>1 DEF MessagesBounded
        <3>3. loop \in {"draining", "storing"} => Len(byTask'[box]) <= Limit
            BY <2>1, <2>2 DEF MessagesBounded, TypeOK
        <3> QED BY <1>9, <3>2, <3>3 DEF MessagesBounded, Enqueue, childVars
    <2>5. AcceptedIsKept'
        <3> SUFFICES ASSUME OneQueue' PROVE accepted' = session' \o taken' \o Queued'
            BY DEF AcceptedIsKept
        <3>1. OneQueue /\ b = box
            BY <1>9, <2>1 DEF OneQueue, Enqueue
        <3>2. accepted = session \o taken \o Queued /\ Queued = byTask[b] /\ Queued' = Append(byTask[b], c)
            BY <1>9, <2>1, <2>2, <3>1 DEF AcceptedIsKept, Queued, Enqueue
        <3>3. session \o taken \o Append(byTask[b], c) = Append(session \o taken \o byTask[b], c)
            <4> DEFINE q == byTask[b]
            <4>1. session \in Seq(Calls) /\ taken \in Seq(Calls) /\ q \in Seq(Calls)
                BY <2>2 DEF TypeOK
            <4> HIDE DEF q
            <4>2. session \o taken \o Append(q, c) = Append(session \o taken \o q, c)
                BY <4>1, AddLast, SMT
            <4> QED BY <4>2 DEF q
        <3> QED BY <1>9, <3>2, <3>3 DEF Enqueue, childVars
    <2> QED BY <1>1, <1>2, <2>3, <2>4, <2>5
<1> QED BY <1>4, <1>5, <1>6, <1>7, <1>8, <1>9 DEF Send

\* The child moves messages from the queue to the drain and the session, and
\* back to the front of the queue.
LEMMA ChildKeeps ==
    ASSUME MessagesInv, Child
    PROVE  MessagesInv'
<1> USE DEF MessagesInv
<1>1. TypeOK'
    BY TypeChild
<1>2. /\ call' = call /\ box' = box /\ accepted' = accepted
      /\ OneQueue' <=> OneQueue
    BY DEF Child, StartChild, RunTools, Take, NothingQueued, Show, Store, StoreFails, Drained,
           EndLoop, Report, callVars, OneQueue
<1>3. ASSUME UNCHANGED <<byTask, taken, session, failed>>,
             loop' \in {"draining", "storing"} => loop \in {"draining", "storing"},
             DrainShape'
      PROVE  MessagesInv'
    <2>1. BoxShape'
        BY <1>2, <1>3 DEF BoxShape
    <2>2. AcceptedIsKept' /\ MessagesBounded'
        BY <1>2, <1>3 DEF AcceptedIsKept, Queued, MessagesBounded
    <2> QED BY <1>1, <1>3, <2>1, <2>2
<1>4. CASE StartChild
    BY <1>3, <1>4 DEF StartChild, callVars, DrainShape
<1>5. CASE RunTools
    BY <1>3, <1>5 DEF RunTools, callVars, DrainShape
<1>6. CASE NothingQueued
    BY <1>3, <1>6 DEF NothingQueued, callVars, DrainShape
<1>7. CASE Show
    BY <1>3, <1>7 DEF Show, callVars, DrainShape
<1>8. CASE Drained
    BY <1>3, <1>8 DEF Drained, callVars, DrainShape
<1>9. CASE EndLoop
    BY <1>3, <1>9 DEF EndLoop, callVars, DrainShape
<1>10. CASE Report
    BY <1>3, <1>10 DEF Report, callVars, DrainShape
<1>11. CASE Take
    <2>1. /\ box \in Boxes /\ box # NoBox /\ taken = <<>> /\ taken' = byTask[box]
          /\ byTask'[box] = <<>> /\ \A b \in Boxes : b # box => byTask'[b] = byTask[b]
          /\ loop' = "draining" /\ session' = session /\ failed' = failed
        BY <1>11 DEF Take, Queued, TypeOK, DrainShape
    <2>2. DrainShape'
        BY <1>2, <2>1 DEF DrainShape
    <2>3. BoxShape'
        BY <1>2, <2>1 DEF BoxShape, Boxes
    <2>4. MessagesBounded'
        <3>1. Limit * (1 + failed) \in Nat /\ Len(<<>>) = 0
            BY Room DEF TypeOK
        <3>2. \A b \in Boxes : Len(byTask'[b]) <= Limit * (1 + failed)
            BY <2>1, <3>1 DEF MessagesBounded
        <3> QED BY <1>2, <2>1, <3>1, <3>2, LimitAssumption DEF MessagesBounded
    <2>5. AcceptedIsKept'
        <3>1. Queued = byTask[box] /\ Queued' = <<>> /\ byTask[box] \in Seq(Calls)
            BY <1>2, <2>1 DEF Queued, TypeOK
        <3>2. /\ session \o <<>> = session
              /\ (session \o byTask[box]) \o <<>> = session \o byTask[box]
            <4>1. session \in Seq(Calls) /\ session \o byTask[box] \in Seq(Calls)
                BY <3>1, ConcatProperties DEF TypeOK
            <4> QED BY <4>1, ConcatEmptySeq
        <3> QED BY <1>2, <2>1, <3>1, <3>2 DEF AcceptedIsKept
    <2> QED BY <1>1, <2>2, <2>3, <2>4, <2>5
<1>12. CASE Store
    <2>1. /\ taken # <<>> /\ taken' = Tail(taken) /\ session' = Append(session, Head(taken))
          /\ byTask' = byTask /\ failed' = failed /\ loop' = "draining" /\ loop = "storing" /\ box # NoBox
        BY <1>12 DEF Store, DrainShape
    <2>2. DrainShape' /\ BoxShape'
        BY <1>2, <2>1 DEF DrainShape, BoxShape
    <2>3. MessagesBounded'
        <3>1. Len(taken') <= Len(taken) /\ Len(taken') \in Nat /\ Len(taken) \in Nat
            BY <2>1 DEF TypeOK
        <3>2. Limit * (1 + failed) \in Nat
            BY Room DEF TypeOK
        <3> QED BY <1>2, <2>1, <3>1, <3>2 DEF MessagesBounded
    <2>4. AcceptedIsKept'
        <3>1. Queued' = Queued /\ Queued \in Seq(Calls)
            BY <1>2, <2>1 DEF Queued, TypeOK
        <3>2. Append(session, Head(taken)) \o Tail(taken) \o Queued = session \o taken \o Queued
            <4>1. session \in Seq(Calls) /\ taken \in Seq(Calls)
                BY DEF TypeOK
            <4> QED BY <2>1, <3>1, <4>1, MoveHead, SMT
        <3> QED BY <1>2, <2>1, <3>1, <3>2 DEF AcceptedIsKept
    <2> QED BY <1>1, <2>2, <2>3, <2>4
<1>13. CASE StoreFails
    <2>1. /\ box \in Boxes /\ box # NoBox /\ taken \in Seq(Calls) /\ byTask[box] \in Seq(Calls)
          /\ byTask'[box] = taken \o byTask[box] /\ \A b \in Boxes : b # box => byTask'[b] = byTask[b]
          /\ taken' = <<>> /\ loop = "storing" /\ loop' = "model" /\ session' = session
          /\ failed \in Nat /\ failed' = failed + 1
        BY <1>13, BoundAssumption DEF StoreFails, Restored, DrainShape, TypeOK
    <2>2. DrainShape'
        BY <1>2, <2>1 DEF DrainShape
    <2>3. BoxShape'
        BY <1>2, <2>1 DEF BoxShape, Boxes
    <2>4. MessagesBounded'
        <3> DEFINE k == Limit * (1 + failed)
        <3>1. k \in Nat /\ Limit * (1 + failed') = k + Limit /\ Limit \in Nat
            BY <2>1, Room, LimitAssumption
        <3>2. Len(byTask'[box]) = Len(taken) + Len(byTask[box])
              /\ Len(taken) \in Nat /\ Len(byTask[box]) \in Nat
            BY <2>1, ConcatProperties
        <3>3. Len(taken) <= k /\ Len(byTask[box]) <= Limit
            BY <2>1 DEF MessagesBounded
        <3>4. \A b \in Boxes : Len(byTask[b]) \in Nat /\ Len(byTask[b]) <= k
            BY DEF MessagesBounded, TypeOK
        <3> HIDE DEF k
        <3>5. \A b \in Boxes : Len(byTask'[b]) <= k + Limit
            <4>1. Len(byTask'[box]) <= k + Limit
                BY <2>1, <3>1, <3>2, <3>3
            <4>2. ASSUME NEW b \in Boxes, b # box PROVE Len(byTask'[b]) <= k + Limit
                BY <2>1, <3>1, <3>4, <4>2
            <4> QED BY <4>1, <4>2
        <3>6. Len(taken') <= k + Limit
            BY <2>1, <3>1
        <3> QED BY <2>1, <3>1, <3>5, <3>6 DEF MessagesBounded
    <2>5. AcceptedIsKept'
        <3>1. Queued = byTask[box] /\ Queued' = taken \o byTask[box]
            BY <1>2, <2>1 DEF Queued
        <3>2. /\ session \o <<>> = session /\ session \in Seq(Calls)
              /\ (session \o taken) \o byTask[box] = session \o (taken \o byTask[box])
            <4> DEFINE q == byTask[box]
            <4>1. session \in Seq(Calls) /\ taken \in Seq(Calls) /\ q \in Seq(Calls)
                BY <2>1 DEF TypeOK
            <4> HIDE DEF q
            <4>2. session \o <<>> = session /\ (session \o taken) \o q = session \o (taken \o q)
                BY <4>1, ConcatAssociative, SMT
            <4> QED BY <4>1, <4>2 DEF q
        <3> QED BY <1>2, <2>1, <3>1, <3>2 DEF AcceptedIsKept
    <2> QED BY <1>1, <2>2, <2>3, <2>4, <2>5
<1> QED BY <1>4, <1>5, <1>6, <1>7, <1>8, <1>9, <1>10, <1>11, <1>12, <1>13 DEF Child

-----------------------------------------------------------------------------
\* The inductive invariant holds in every reachable state, whatever the
\* number of calls, the limit and the number of failed writes.
THEOREM MessagesInvariant == Spec => []MessagesInv
<1>1. Init => MessagesInv
    <2> SUFFICES ASSUME Init PROVE MessagesInv
        OBVIOUS
    <2> USE NamesAssumption, LimitAssumption, BoundAssumption DEF Init
    <2>1. TypeOK
        BY DEF TypeOK, Live, Finished, Boxes
    <2>2. DrainShape /\ BoxShape
        BY DEF DrainShape, BoxShape, Holding, Boxes
    <2>3. AcceptedIsKept
        <3>1. Queued = <<>> /\ session \o taken \o <<>> = <<>>
            BY DEF Queued, Boxes
        <3> QED BY <3>1 DEF AcceptedIsKept
    <2>4. MessagesBounded
        BY Room DEF MessagesBounded
    <2> QED BY <2>1, <2>2, <2>3, <2>4 DEF MessagesInv
<1>2. MessagesInv /\ [Next]_vars => MessagesInv'
    <2> SUFFICES ASSUME MessagesInv, [Next]_vars PROVE MessagesInv'
        OBVIOUS
    <2>1. CASE Child
        BY <2>1, ChildKeeps
    <2>2. CASE \E c \in Calls : Send(c)
        BY <2>2, SendKeeps
    <2>3. CASE Cancel
        <3>1. TypeOK'
            BY <2>3 DEF MessagesInv, Cancel, TypeOK, callVars, Finished
        <3> QED BY <2>3, <3>1 DEF MessagesInv, Cancel, callVars, DrainShape, BoxShape, AcceptedIsKept, OneQueue, Queued, MessagesBounded
    <2>4. CASE UNCHANGED vars
        BY <2>4 DEF MessagesInv, vars, TypeOK, DrainShape, BoxShape, AcceptedIsKept, OneQueue, Queued, MessagesBounded
    <2> QED BY <2>1, <2>2, <2>3, <2>4 DEF Next
<1> QED BY <1>1, <1>2, PTL DEF Spec

\* Every variable keeps its type.
THEOREM MessagesTypeCorrect == Spec => []TypeOK
BY MessagesInvariant, PTL DEF MessagesInv

\* handleSubagentMessage against drainParentMessagesAfterToolRound: an
\* accepted message is neither lost nor doubled nor overtaken.
THEOREM MessagesAreKept == Spec => []AcceptedIsKept
BY MessagesInvariant, PTL DEF MessagesInv

\* The queue exceeds its limit by one full queue per failed write at most.
THEOREM QueueStaysBounded == Spec => []QueueBounded
<1>1. MessagesInv => QueueBounded
    <2> SUFFICES ASSUME MessagesInv PROVE QueueBounded
        OBVIOUS
    <2>1. Limit * (1 + failed) \in Nat
        BY Room DEF MessagesInv, TypeOK
    <2>2. CASE box = NoBox
        BY <2>1, <2>2 DEF QueueBounded, Queued
    <2>3. CASE box # NoBox
        BY <2>3 DEF QueueBounded, Queued, MessagesInv, MessagesBounded, TypeOK
    <2> QED BY <2>2, <2>3
<1> QED BY <1>1, MessagesInvariant, PTL

=============================================================================
