SPECIFICATION RowSpec
CONSTANTS
  Keys = 4
  ScoresOf <- MCScoresOf
  NegInf <- MCNegInf
  Masked <- MCMasked
  Reach = 2
  Norms = {"softmax", "softmax_like", "l1"}
  V <- MCV
  TileSizes = {1, 2, 3}
  Layouts <- MCLayouts
INVARIANTS RowIsReference
CHECK_DEADLOCK FALSE
