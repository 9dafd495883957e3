SPECIFICATION Spec
CONSTANTS
    inspect = inspect
    post = post
    edit = edit
    good = good
    other = other
    error = error
    none = none
    Call = {inspect, post}
    ReplaySafe = {inspect}
    Converging = {inspect, post}
    Mutating = {post}
    Result = {good, error}
    Failure = {error}
    None = none
    Foreground = TRUE
    HasCriteria = FALSE
    Gated = FALSE
    MaxIterations = 3
    RepeatLimit = 2
    MaxSlices = 2
    MaxRetries = 1
    MaxBatch = 2
    MaxCalls = 1
    MaxFaults = 2
    MaxDecisions = 2
CHECK_DEADLOCK FALSE
INVARIANT ToolWorkIsReviewed
