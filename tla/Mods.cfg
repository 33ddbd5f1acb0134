SPECIFICATION Spec
CONSTANTS
  Undef = Undef
  LeavesOf <- MCLeavesOf
  FirstKinds <- MCFirstKinds
  LaterKinds <- MCLaterKinds
  MaxOperations = 2
  AxesOf <- MCAxesOf
  CallsOf <- MCCallsOf
  Lanes = 2
  TileQ = 2
  TileK = 2
INVARIANTS AcceptedIsEmitted EmittedIsReference HiddenBeyondTheStop ReadsWhatIsViewed
CHECK_DEADLOCK FALSE
