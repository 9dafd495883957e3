SPECIFICATION FitSpec
CONSTANTS
  t1 = t1
  t2 = t2
  t3 = t3
  Tool = {t1, t2, t3}
  ToolCost <- MCToolCost
  Sizes = {1, 3}
  Window = 9
  HistoryBudget = 5
  EvidenceCap = 2
  Extras = {"none", "frame", "image"}
  MaxPast = 1
  MaxToolRounds = 2
CHECK_DEADLOCK FALSE
INVARIANT RestoredInPlace
