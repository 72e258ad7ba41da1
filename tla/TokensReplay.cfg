SPECIFICATION Spec
SYMMETRY Symmetric
CONSTANTS
  p1 = p1
  p2 = p2
  r1 = r1
  r2 = r2
  r3 = r3
  k1 = k1
  k2 = k2
  k3 = k3
  t1 = t1
  t2 = t2
  t3 = t3
  a = a
  b = b
  c1 = c1
  NoKid = NoKid
  NoToken = NoToken
  Procs <- TwoProcs
  Requests <- Three
  ProcOf <- Serves
  Kids <- ThreeKids
  RefreshTokens <- ThreeTokens
  Earlier <- Old
  Clients <- TwoClients
  ClientOf <- Owners
  Codes <- OneCode
CHECK_DEADLOCK FALSE
INVARIANTS
  ReplayRevokesTheFamily
