\* samples.id is drawn in the order metadata is posted, not in the contract's order.
CONSTANTS
  w1 = w1
  w2 = w2
  p1 = p1
  p2 = p2
  Workers = {w1}
  Producers = {p1, p2}
  Samples = {1, 2}
  MaxLedger = 4
  UpTo <- RaceUpTo
  Log <- RaceLog
  Window = 1
  PageSize = 2
  StartLedger = 0
  Backfill = 1
  WebhookSchema = TRUE
  MaxRowId = 2
  MaxFailures = 0
SPECIFICATION Spec
INVARIANTS SellerIsNotified
