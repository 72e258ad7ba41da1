SPECIFICATION Spec
CONSTANTS
  p = p
  a = a
  b = b
  c = c
  none = none
  Objects <- FourObjects
  Wanted <- Possible
  Sizes = {1, 2, 5}
  Beginnings <- Before
  MaxOut = 1
  MaxChanges = 1
  Limits = {1, 2}
  PageCap = 4
  FtsLimit = 4
  VectorLimit = 1
  InScope <- TwoMemos
  Freshness <- Ages
  RankUnit = 495593280
  NoParent = none
  RefsLimits = {0, 2, 3}
  Budget = 3
  PerRefMax = 4
INVARIANTS
  OnlyKnownLosses
  AnswersAreRanked
  OverBudgetOnlyIfTouched
CHECK_DEADLOCK FALSE
