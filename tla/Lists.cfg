SPECIFICATION Spec
SYMMETRY Symmetric
CONSTANTS
  c1 = c1
  c2 = c2
  c3 = c3
  t = t
  Calls <- ThreeCalls
  Texts <- OneText
  MaxItems = 2
  InlineMax = 1
  MaxVersion = 4
INVARIANTS
  AcknowledgedIsKept
PROPERTIES
  ExpectedBodyIsReplaced
  UndoneOnlyByOverlap
  ImplementsVersioned
CHECK_DEADLOCK FALSE
