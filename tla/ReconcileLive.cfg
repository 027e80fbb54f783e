\* A fair worker, one failure, and a batch that may be full of sales that cannot be paid.
CONSTANTS
  alice = alice
  bob = bob
  w1 = w1
  w2 = w2
  c1 = c1
  c2 = c2
  Workers = {w1}
  Callers = {c1}
  Samples = {beat}
  Configs <- TwoConfigs
  BatchSize = 2
  MaxTime = 1
  MaxSales = 3
  MaxFailures = 1
SPECIFICATION FairSpec
PROPERTIES PayableSalesPaid
