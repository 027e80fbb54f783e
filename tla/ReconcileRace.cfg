\* Two workers, two concurrent configure requests, two sales, one failure.
CONSTANTS
  alice = alice
  bob = bob
  w1 = w1
  w2 = w2
  c1 = c1
  c2 = c2
  Workers = {w1, w2}
  Callers = {c1, c2}
  Samples = {beat}
  Configs <- TwoConfigs
  BatchSize = 2
  MaxTime = 1
  MaxSales = 2
  MaxFailures = 1
SPECIFICATION Spec
INVARIANTS TypeOK VersionsWhole PayoutsWhole LaterSplitsDoNotPay
PROPERTY ImplementsRoyaltyLedger
SYMMETRY RaceSymmetry
