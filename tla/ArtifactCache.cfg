SPECIFICATION Spec
CONSTANTS
  p1 = p1
  p2 = p2
  r1 = r1
  r2 = r2
  r3 = r3
  k1 = k1
  k2 = k2
  Procs <- MCProcs
  Requests <- MCRequests
  Keys <- MCKeys
  KeyOf <- MCKeyOf
  Nobody = Nobody
  MaxCrashes = 1
  MaxFaults = 1
INVARIANTS ManifestMeansLibrary LoadedIsComplete FinishedIsNotRebuilt
PROPERTIES ImplementsArtifactStore CompileEnds
CHECK_DEADLOCK FALSE
