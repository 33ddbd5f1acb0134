SPECIFICATION Spec
CONSTANTS
  s1 = s1
  r1 = r1
  r2 = r2
  t1 = t1
  t2 = t2
  Runtimes <- MCRuntimes
  Calls <- MCCalls
  Tuners <- MCTuners
  TunersOf <- MCTunersOf
  Plans = {p1, p2}
  BucketUnit = 2
  Nobody = Nobody
  NoShape = NoShape
  NoTuner = NoTuner
  NoSelection = NoSelection
  NoFile = NoFile
  Unreadable = Unreadable
  MaxFaults = 1
INVARIANTS PublishedWinnersRan SelectionFitsCall
PROPERTIES ReplaysItsWinner RunEnds
