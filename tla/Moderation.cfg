\* Two concurrent requests, two samples, which may share a file, three reports, one failure.
CONSTANTS
  Requests = {r1, r2}
  Samples = {beat, loop}
  Files = {rough, master, other}
  FlagIds = {f1, f2, f3}
  MaxFailures = 1
SPECIFICATION Spec
INVARIANTS TypeOK QueueMatchesFlags 
PROPERTIES ImplementsReviewDesk
SYMMETRY DeskSymmetry
