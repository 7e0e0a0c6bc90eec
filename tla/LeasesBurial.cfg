CONSTANTS
  Agents = {a1, a2}
  NoAgent = NoAgent
  Pids = {p1}
  Tasks = {t1}
  Resources <- NestedAndPort
  LeaseLengths = {1, 2}
  StaleAfter = 0
  AbandonedAfter = 1
  MaxTime = 2
  MaxCalls = 2
SPECIFICATION MCSpec
SYMMETRY Symmetry
PROPERTY DeadMeansGone
