SPECIFICATION Spec
SYMMETRY Symmetric
CONSTANTS
  c1 = c1
  c2 = c2
  s1 = s1
  s2 = s2
  d = d
  f = f
  g1 = g1
  Direct = Direct
  Nobody = Nobody
  Calls <- TwoCalls
  Docs <- OneDoc
  Skills <- TwoSkills
  NewSkills <- Unborn
  Foreign <- SharedByThem
  Groups <- OneGroup
  Edges <- Wanted
  Disposable <- Deleted
  Listed <- FromBefore
  CycleDepth = 2
  MaxTools = 3
INVARIANTS
  CountsAreExact
  CyclesComeFromOverlaps
  CascadeGrantsHaveACause
PROPERTIES
  DeletedUnderNoOlderRef
CHECK_DEADLOCK FALSE
