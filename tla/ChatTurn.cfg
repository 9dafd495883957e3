SPECIFICATION Spec
CONSTANTS
    Calls = {"search", "look"}
    Fetches = {"search"}
    Observes = {"look"}
    Results = {"good", "bad"}
    BadResults = {"bad"}
    None = "none"
    Skipped = "skipped"
    Foreground = FALSE
    MaxIterations = 4
    RepeatLimit = 2
    ToolOnlyLimit = 2
    DuplicateLimit = 1
    FailureLimit = 2
    ObserveLimit = 2
    EmptyRetries = 1
    GateTools <- MCGateTools
    MaxBatch = 2
    MaxFaults = 1
INVARIANTS
    TranscriptInOrder
    AnswerSawChecks
    LostWriteEndsTurn
    DeletedTurnIsCancelled
    AnsweredOnce
PROPERTIES
    TurnEnds
