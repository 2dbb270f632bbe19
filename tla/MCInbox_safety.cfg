SPECIFICATION Spec
CONSTANTS
  ann = ann
  m1 = m1
  m2 = m2
  r1 = r1
  r2 = r2
  Contacts = {ann}
  Known = {}
  Messages = {m1, m2}
  From <- MCFrom
  Requests = {r1, r2}
  MaxLeads = 2
  MaxBatch = 2
  MaxCopies = 2
  MaxCrashes = 1
CONSTRAINT Focus
SYMMETRY MCSymmetry
INVARIANTS DedupImpliesStored AnsweredOnce OneLeadPerNewcomer
\* Every message may have been handled, with no lead left to open.
CHECK_DEADLOCK FALSE
