SPECIFICATION RowSpec
CONSTANTS
  Keys = 4
  ScoresOf <- MCFarScoresOf
  NegInf <- MCNegInf
  Masked <- MCMasked
  Reach = 2
  Norms = {"softmax"}
  V <- MCV
  TileSizes = {1, 2, 3}
  Layouts <- MCOnePart
INVARIANTS RowIsReference
CHECK_DEADLOCK FALSE
