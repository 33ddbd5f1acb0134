SPECIFICATION SearchSpec
CONSTANTS
  Problems <- MCProblems
  Codes <- MCCodes
  OtherCalls <- MCOtherCalls
  Page = 4
  Unit = 4
  Maxnum = 6
INVARIANTS MemorySuffices AcceptedByKernel OneWorkerPerCore BackendRunsEverywhere BuiltPlansAreAccepted
INVARIANTS BuffersFitTheStride TopologyTeamsMeasured MeasuredNearMemory ComparedOnOneCpu
