SPECIFICATION FairSpec
CONSTANTS
  o1 = o1
  o2 = o2
  Objects <- TwoObjects
  MaxAttempts = 2
  BatchLimit = 1
INVARIANTS
  LiveRowKeepsBody
  ErasedBodiesAreQueued
PROPERTIES
  QueueDrains
