\* One subscription, two sales, two overlapping calls, one failure.
CONSTANTS
  Subscriptions = {url}
  Sales = {e1, e2}
  Calls = {c1, c2}
  BatchSize = 2
  MaxAttempts = 2
  MaxFailures = 1
SPECIFICATION FairSpec
INVARIANTS TypeOK OneAttemptPerLease GivenUpForGood
PROPERTIES ImplementsDeliveryBook EveryDeliverySettles
