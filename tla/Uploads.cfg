\* Three requests around one midnight, one a day, one database error.
CONSTANTS
  Uploads = {u1, u2, u3}
  MaxDaily = 1
  MaxDay = 2
  MaxFailures = 1
SPECIFICATION FairSpec
INVARIANTS TypeOK QuotaPerDay EndsCleanly
PROPERTIES EveryUploadEnds
\* Every request ends.
CHECK_DEADLOCK FALSE
