SPECIFICATION Spec
CONSTANTS
  Addrs = {a1}
  Shapes = {s1, s2}
  Artifacts = {k1}
  packed1 = packed1
  packed2 = packed2
  plain = plain
  Plans <- MCPlans
  PackingPlans <- MCPackingPlans
  TileK <- MCTileK
  BucketUnit = 2
  MaxLen = 2
  MaxSeq = 3
  MaxRaises = 1
  Vals = {v1, v2}
  Blank = Blank
  NoPlan = NoPlan
  NoState = NoState
  NoStream = NoStream
  Failures = {"arena", "before_pack", "after_pack"}
SYMMETRY BufferSymmetry
INVARIANTS TypeOK ServedCurrentK TemplatesLive TrustedStateIsPacked
PROPERTIES ReuseOnlyContinuedStreams ImplementsAttendedK
CHECK_DEADLOCK FALSE
