SPECIFICATION ServicesSpec
CONSTANTS
  c1 = c1
  c2 = c2
  c3 = c3
  j1 = j1
  j2 = j2
  k1 = k1
  s1 = s1
  s2 = s2
  t1 = t1
  t2 = t2
  none = none
  Calls = {c1, c2, c3}
  Limit = 1
  MaxFailed = 2
  MaxRounds = 3
  Id = {j1, j2}
  Key = {k1}
  Caller = {c1, c2}
  NoKey = none
  RetryLimit = 2
  Bounds <- MCBounds
  Closer = {c1, c2}
  Starter = {s1, s2}
  Trigger = {t1}
  MaxStarts = 2
  MaxTicks = 1
  MaxResults = 1
  Task = {t1}
  Record = {t1, t2}
  MaxUserTurns = 3
  Batches <- MCBatches
  Safe = {"lookup", "plugin"}
  AskLimit = 3
  Margin = 2
  MaxTime = 7
  StoryTurn = {t1, t2}
  MaxStoryCalls = 1
  MaxStoryFaults = 1
CHECK_DEADLOCK FALSE
INVARIANTS
  AcceptedIsKept
  RunsOnlySavedJobs
  OneShotRunsBounded
  DuplicatesNeedOverlap
  QuiescentIsSaved
  ClosedIsQuiet
  CheckoutIsKeptAndNamed
  RecoveryIsExact
  DesktopRunsAlone
  OnlyAllowedRuns
  ResultsTellWhatRan
  AskEndsBeforeDeadline
  StoryIsSealed
