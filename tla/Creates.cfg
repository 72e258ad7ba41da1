SPECIFICATION CreatesSpec
CONSTANTS
  r1 = r1
  r2 = r2
  r3 = r3
  r4 = r4
  k1 = k1
  k2 = k2
  Requests <- FourRequests
  Keys <- TwoKeys
  KeyOf <- Headers
  Embeds <- Embedded
  MaxObjects = 2
  EmbedCap = 1
  Day = 1
  MaxTime = 2
CHECK_DEADLOCK FALSE
INVARIANTS
  QuotaCoversObjects
  WindowsKeepTheCap
  RecordsTellTheTruth
PROPERTIES
  LiveRecordsAreStable
