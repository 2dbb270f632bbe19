SPECIFICATION FairSpec
CONSTANTS
  Leads = {l1, l2}
  Schedulers = {d1}
  Clients = {}
  Jobs = {1, 2}
  MaxAttempts = 2
  MaxConcurrent = 1
  BatchSize = 2
  Hours = {TRUE}
  MaxFaults = 1
  OptOuts = {}
  Deletable = {l2}
PROPERTY JobsEnd
\* All jobs may have ended, with every id used.
CHECK_DEADLOCK FALSE
