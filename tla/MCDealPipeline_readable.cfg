SPECIFICATION Spec
CONSTANTS
  Units = {u1}
  Leads = {l1}
  Requests = {r1, r2}
  Dates = {1}
  InitialStatuses = {"hold"}
  DirectStatuses = {"hold"}
  MaxBookings = 0
  MaxSales = 2
  MaxListings = 0
  MaxHistory = 3
INVARIANT UnitsReadable
\* The tables are bounded: when they are full and no request runs, it is over.
CHECK_DEADLOCK FALSE
