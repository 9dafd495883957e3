SPECIFICATION WaitingSpec
CONSTANTS
  inspect = inspect
  post = post
  good = good
  error = error
  none = none
  s1 = s1
  s2 = s2
  s3 = s3
  r1 = r1
  r2 = r2
  Call = {inspect, post}
  ReplaySafe = {inspect}
  Converging = {inspect, post}
  Mutating = {post}
  Result = {good, error}
  Failure = {error}
  None = none
  Foreground = TRUE
  HasCriteria = FALSE
  Gated = TRUE
  MaxIterations = 2
  RepeatLimit = 2
  MaxSlices = 2
  MaxRetries = 1
  MaxBatch = 1
  MaxCalls = 1
  MaxFaults = 1
  MaxDecisions = 1
  MaxHits = 2
  Session = {s1, s2, s3}
  Runner = {r1, r2}
  MaxMessages = 5
CHECK_DEADLOCK FALSE
INVARIANTS
  LatestTurnIsRecapped
  RecallIsWhole
PROPERTIES
  TaskReleasesSession
  PendingIsServed
