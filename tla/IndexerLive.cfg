\* Two fair workers, one failure, no poisonous event: everything gets indexed.
CONSTANTS
  w1 = w1
  w2 = w2
  p1 = p1
  p2 = p2
  Workers = {w1, w2}
  Producers = {p1}
  Samples = {1, 2}
  MaxLedger = 3
  UpTo <- SalesUpTo
  Log <- SalesLog
  Window = 2
  PageSize = 3
  StartLedger = 1
  Backfill = 1
  WebhookSchema = TRUE
  MaxRowId = 1
  MaxFailures = 1
SPECIFICATION FairSpec
PROPERTIES EveryEventIndexed CyclesEnd
