SPECIFICATION Spec
CONSTANTS
  Leads = {l1}
  Schedulers = {d1}
  Clients = {c1}
  Jobs = {1, 2, 3}
  MaxAttempts = 1
  MaxConcurrent = 1
  BatchSize = 1
  Hours = {TRUE}
  MaxFaults = 0
  OptOuts = {l1}
  Deletable = {l1}
INVARIANT CallsBounded
\* All jobs may have ended, with every id used.
CHECK_DEADLOCK FALSE
