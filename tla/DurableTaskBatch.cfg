SPECIFICATION Spec
CONSTANTS
    inspect = inspect
    post = post
    edit = edit
    good = good
    other = other
    error = error
    none = none
    Call = {inspect, post}
    ReplaySafe = {inspect}
    Converging = {inspect, post}
    Mutating = {post}
    Result = {good, error}
    Failure = {error}
    None = none
    Foreground = FALSE
    HasCriteria = FALSE
    Gated = TRUE
    MaxIterations = 3
    RepeatLimit = 2
    MaxSlices = 1
    MaxRetries = 1
    MaxBatch = 2
    MaxCalls = 2
    MaxFaults = 1
    MaxDecisions = 1
CHECK_DEADLOCK FALSE
INVARIANT SkippedAfterEqualResults
