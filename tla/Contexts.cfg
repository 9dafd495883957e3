SPECIFICATION ContextsSpec
CONSTANTS
  a1 = a1
  a2 = a2
  b1 = b1
  c1 = c1
  g1 = g1
  g2 = g2
  m1 = m1
  m2 = m2
  t1 = t1
  t2 = t2
  t3 = t3
  x1 = x1
  x2 = x2
  none = none
  Subject = {x1, x2}
  Aside = {g1, g2}
  Builder = {a1, a2}
  MaxEntries = 2
  MaxVersion = 1
  Tool = {t1, t2, t3}
  ToolCost <- MCToolCost
  Sizes = {1, 3}
  Window = 9
  HistoryBudget = 4
  EvidenceCap = 2
  Extras = {"none", "frame"}
  MaxPast = 2
  MaxToolRounds = 2
  Compactor = {a1, a2}
  MinMessages = 2
  CooldownTurns = 1
  MaxFailures = 1
  MaxRaw = 3
  MaxEdition = 1
  MaxRuns = 2
  Model = {g1, g2}
  Known = {g1}
  Sees = {g2}
  Changer = {a1, a2}
  TurnId = {b1}
  NoModel = none
  MaxChanges = 2
  MaxSetbacks = 2
  Rejected = Rejected
  NoAnchor = NoAnchor
  Message = {m1, m2}
  Call = {c1}
  StateField = {"batch", "model_stalls"}
  Fresh <- MCFresh
  FieldValue = {0, 1}
  Batch = "batch"
  Stalls = "model_stalls"
  SnapshotEvery = 2
  MaxSaves = 4
  MaxFaults = 1
  MaxMessages = 3
CHECK_DEADLOCK FALSE
INVARIANTS
  ServedMatchesRequest
  ExchangesWhole
  RefusedOnlyForWhatIsPinned
  SegmentsTileHistory
  SavedIsActive
  DiscoveredIsKept
  NothingLostWithLogIntact
