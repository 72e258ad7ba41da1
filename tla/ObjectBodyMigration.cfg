SPECIFICATION Spec
CONSTANTS
  w1 = w1
  w2 = w2
  w3 = w3
  g1 = g1
  g2 = g2
  Writers <- ThreeWriters
  Groups <- TwoGroups
  MaxKeys = 2
INVARIANTS
  CipherFitsTheKey
