SPECIFICATION Spec
CONSTANTS
  D = 2
  DV = 3
  Length = 4
  Tokens <- MCTokens
  Programs <- MCPrograms
  Plans <- MCPlans
  Starts <- MCStarts
  Leftover <- MCLeftover
INVARIANTS StateIsOrdered OutputsAreOrdered
CHECK_DEADLOCK FALSE
