SPECIFICATION Spec
CONSTANTS
  Leads = {l1}
  Schedulers = {d1, d2}
  Clients = {c1}
  Jobs = {1, 2}
  MaxAttempts = 2
  MaxConcurrent = 1
  BatchSize = 1
  Hours = {TRUE, FALSE}
  MaxFaults = 1
  OptOuts = {l1}
  Deletable = {}
SYMMETRY Perm
INVARIANTS AttemptBudget AttemptsMatchDials
PROPERTIES TerminalIsFinal DoNotCallHonoured LockLostByTtlOnly
\* All jobs may have ended, with every id used.
CHECK_DEADLOCK FALSE
