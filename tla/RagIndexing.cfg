SPECIFICATION SearchingSpec
CONSTANTS
  d1 = d1
  j1 = j1
  j2 = j2
  j3 = j3
  NoDoc = NoDoc
  NoJob = NoJob
  Docs = {d1}
  Jobs = {j1, j2, j3}
  Operation <- UploadReindexTwice
  DocOf <- SameDocThrice
  Workers = {w1, w2}
  Clients = {c1}
  MaxAttempts = 2
  MaxTaskRetries = 0
  HeartbeatsKeepUp = TRUE
  PatientOwner = TRUE
  ShortTx = TRUE
  MaxUserOps = 2
  MaxCrashes = 2
INVARIANTS TablesAreSound 
PROPERTIES PublishesOnlyRunning  IndexingConverges
CHECK_DEADLOCK FALSE
