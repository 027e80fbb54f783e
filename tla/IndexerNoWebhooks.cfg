\* One fair worker, no failures, migration 0009 not applied yet.
CONSTANTS
  w1 = w1
  w2 = w2
  p1 = p1
  p2 = p2
  Workers = {w1}
  Producers = {p1}
  Samples = {1, 2}
  MaxLedger = 3
  UpTo <- SalesUpTo
  Log <- SalesLog
  Window = 2
  PageSize = 3
  StartLedger = 1
  Backfill = 1
  WebhookSchema = FALSE
  MaxRowId = 1
  MaxFailures = 0
SPECIFICATION FairSpec
PROPERTIES EveryEventIndexed
