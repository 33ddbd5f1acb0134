SPECIFICATION SelectSpec
CONSTANTS
  Candidates = {1, 2, 3, 4}
  Foreign = {9}
  Representatives <- MCRepresentatives
  Maxnum = 3
  NoLimit = NoLimit
  NoPlan = NoPlan
  Repeat = 3
  Latencies = {1, 2}
  BurstLength = 1
  Slow = 5
  MaxSamples = 6
INVARIANTS BudgetRespected EvenFooting FastestMeasuredWins
PROPERTIES SelectEnds
CHECK_DEADLOCK FALSE
