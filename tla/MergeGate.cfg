SPECIFICATION MCSpec
CONSTANTS
  Agents = {1, 2, 3, 4}
  NoAgent = 0
  Home <- OneAndFour
  Regions = {"r", "s"}
  File <- OneFile
  Symbols = {1, 2}
  Work <- MCWork
  Askers = {1, 2}
  MAX_SYMBOL_BREAKS = 1
  LeaseLength = 1
  MaxTime = 2
  MaxMerges = 2
INVARIANTS
  LastingBlockersBlock
  DashboardAgrees
PROPERTY MergesLandWhereJudged
CHECK_DEADLOCK FALSE
