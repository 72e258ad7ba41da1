SPECIFICATION FairUploadsSpec
CONSTANTS
  p1 = p1
  p2 = p2
  f1 = f1
  f2 = f2
  f3 = f3
  Puts <- TwoPuts
  Calls <- ThreeCalls
INVARIANTS
  OneFinalizeWins
  FinalizedKeepsItsBlob
PROPERTIES
  LifeIsOneWay
  EventuallySettled
CHECK_DEADLOCK FALSE
