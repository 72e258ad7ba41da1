SPECIFICATION Spec
SYMMETRY Symmetric
CONSTANTS
  e1 = e1
  e2 = e2
  i1 = i1
  i2 = i2
  l1 = l1
  l2 = l2
  s1 = s1
  s2 = s2
  r1 = r1
  r2 = r2
  t1 = t1
  t2 = t2
  w1 = w1
  NoId = NoId
  NoEmail = NoEmail
  Bootstrap = NoEmail
  Emails <- TwoEmails
  Ids <- TwoIds
  Logins <- TwoLogins
  Syncs <- TwoSyncs
  Older <- Nobodies
  Invited <- Guests
  Requests <- TwoRequests
  Tokens <- OboTokensOf
  Receipts <- OneReceipt
  Legacy <- WithoutId
  Approved <- ForWrites
  Claims <- ClaimsOf
  Expiry <- ExpiryOf
  Grace = 2
  MaxTime = 4
  MaxCalls = 3
INVARIANTS
  FirstAdminsOverlapped
  TokensAreSpentOnce
PROPERTIES
  ExternalIdIsKept
  ErasedByLaterIsFinal
CHECK_DEADLOCK FALSE
