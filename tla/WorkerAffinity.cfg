SPECIFICATION PlacementSpec
CONSTANTS
  Team = 2
  Libraries = {l1, l2}
  Cpus = {c1, c2, c3}
  NoCpu = NoCpu
  NoCall = NoCall
SYMMETRY MCSymmetry
INVARIANTS WorkersOnAssignedCpus
PROPERTIES CallerKeepsItsMask
