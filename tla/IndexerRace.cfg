\* Two workers, one crash, a chain of four ledgers read one ledger at a time.
CONSTANTS
  w1 = w1
  w2 = w2
  p1 = p1
  p2 = p2
  Workers = {w1, w2}
  Producers = {p1}
  Samples = {1, 2}
  MaxLedger = 4
  UpTo <- RaceUpTo
  Log <- RaceLog
  Window = 1
  PageSize = 2
  StartLedger = 0
  Backfill = 1
  WebhookSchema = TRUE
  MaxRowId = 1
  MaxFailures = 1
SPECIFICATION Spec
INVARIANTS TypeOK ScannedLedgersApplied CountedOnce WaitedForGoesOn SalesAgree
PROPERTIES ImplementsIndexedLog
SYMMETRY WorkerSymmetry
