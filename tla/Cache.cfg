\* One request at a time, two writers, one page, one failure.
CONSTANTS
  behind = behind
  Readers = {r1}
  Writers = {x1, x2}
  Pages <- OnePage
  Offset <- OneOffset
  MaxBatches = 2
  MaxSamples = 2
  MaxFailures = 1
SPECIFICATION FairSpec
INVARIANTS TypeOK StaleIsExplained TakenDownNotServed
PROPERTIES EventuallyFresh
