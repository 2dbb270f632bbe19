SPECIFICATION FairSpec
CONSTANTS
  Units = {u1, u2}
  Leads = {l1}
  Requests = {r1, r2}
  Dates = {1}
  InitialStatuses = {"hold"}
  DirectStatuses = {"hold"}
  MaxBookings = 1
  MaxSales = 2
  MaxListings = 0
  MaxHistory = 2
INVARIANT BookingSoldOnce
PROPERTY RequestsEnd
\* The tables are bounded: when they are full and no request runs, it is over.
CHECK_DEADLOCK FALSE
