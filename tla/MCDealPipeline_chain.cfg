SPECIFICATION Spec
CONSTANTS
  Units = {u1}
  Leads = {l1}
  Requests = {r1, r2}
  Dates = {1, 2}
  InitialStatuses = {"hold"}
  DirectStatuses = {"available", "hold", "sold"}
  MaxBookings = 1
  MaxSales = 2
  MaxListings = 1
  MaxHistory = 2
SYMMETRY Perm
INVARIANTS TypeOK OwnerReadStaysCurrent TitleChain HistoryMatchesSales LatestBuyerOwns
PROPERTIES CancelledNeverSold ReservationKept ImplementsRegister
\* The tables are bounded: when they are full and no request runs, it is over.
CHECK_DEADLOCK FALSE
