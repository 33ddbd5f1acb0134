SPECIFICATION Spec
CONSTANTS
  Kernels <- MCKernels
  Launches <- MCLaunches
INVARIANTS AnswersAreExact NoReadWhilePacking
PROPERTIES TeamEnds
CHECK_DEADLOCK FALSE
