------------------------- MODULE DealPipelineProofs -------------------------
(***************************************************************************)
(* Theorems about DealPipeline for any number of units, bookings, sales,   *)
(* listings and concurrent requests.                                       *)
(***************************************************************************)
EXTENDS DealPipeline, FiniteSetTheorems, SequenceTheorems, TLAPS

USE DEF None

-----------------------------------------------------------------------------
(* Type correctness *)

\* Row ids are natural numbers, and None is not one of them.
LEMMA IdsAreNat ==
  \A id \in Sales \cup Listings : id \in Nat /\ id # None
  BY IdAssumption DEF Sales, Listings

\* Moving a request on, or ending it, keeps the table of requests typed.
LEMMA GotoType ==
  ASSUME TypeOK, NEW r \in Requests, NEW q \in ReqRow, Goto(r, q)
  PROVE  req' \in [Requests -> ReqRow]
  BY DEF TypeOK, Goto

\* An idle request is a request record.
LEMMA IdleType == Idle \in ReqRow
  BY DEF Idle, ReqRow, Steps, Targets

\* A status write and its history row keep the unit's tables typed.
LEMMA SetStatusType ==
  ASSUME TypeOK, NEW u \in Units, NEW to \in UnitStatuses, NEW by \in {"service", "direct"},
         SetStatus(u, to, by)
  PROVE  /\ unit' \in [Units -> UnitStatuses \cup {"absent"}]
         /\ history' \in [Units -> Seq(HistoryEntry)]
<1>1. [status |-> to, by |-> by] \in HistoryEntry
  BY DEF HistoryEntry
<1> QED
  BY <1>1 DEF TypeOK, SetStatus

\* The empty database with idle requests is well typed.
LEMMA InitType == Init => TypeOK
  BY IdleType DEF Init, TypeOK, BookingRow, SaleRow, OwnRow, ListingRow, UnitStatuses

\* What a request in progress knows, on top of its type.
ReqInv(r) ==
  /\ req[r].step \in SellSteps => req[r].unit \in Units /\ req[r].date \in Dates
  /\ req[r].step = "reserve" => req[r].unit \in Units /\ req[r].to \in {"hold", "reserved"}
  /\ req[r].step = "end_sale" =>
       req[r].row \in Sales /\ req[r].to \in {"cancelled", "reversed"}
  /\ req[r].step = "reverse" => req[r].row \in Sales /\ Exists(own, req[r].row)
  /\ req[r].step = "list" => req[r].row \in Sales
  /\ req[r].step \in {"cancel", "cancel_held"} => req[r].booking \in Bookings
  /\ req[r].step = "sell_owner" => req[r].row \in Sales \cup {None}

\* No two sales in progress hold the same unit.
LockExclusive ==
  \A r, q \in Requests : r # q /\ req[r].step \in SellSteps /\ req[q].step \in SellSteps
                         => req[r].unit # req[q].unit

\* ... and no two requests, sale or cancellation, the same booking.
BookingExclusive ==
  \A r, q \in Requests : r # q /\ req[r].step \in BookingSteps /\ req[q].step \in BookingSteps
                           /\ req[r].booking # None => req[r].booking # req[q].booking

\* At most one ownership of a unit has no end date (the rule of the unique
\* index of migration 023).
OneCurrentOwner == \A u \in Units : \A s, t \in CurrentOwnerships(u) : s = t

\* Every ownership row is a sale's (sales/repository.py inserts both at once).
OwnedWasSold == \A s \in Sales : Exists(own, s) => Exists(sale, s)

\* The inductive invariant.
LedgerInv ==
  /\ TypeOK
  /\ \A r \in Requests : ReqInv(r)
  /\ LockExclusive
  /\ BookingExclusive
  /\ OwnedWasSold
  /\ OneCurrentOwner
  /\ OwnerReadStaysCurrent

-----------------------------------------------------------------------------
(* TypeOK is preserved, given what the requests know *)

\* A request that starts writes only its own record, with values it was given.
LEMMA StartType ==
  ASSUME TypeOK, NEW r \in Requests, Start(r)
  PROVE  TypeOK'
<1>1. ASSUME NEW u \in Units, NEW to \in {"hold", "reserved"}, ReserveRead(r, u, to)
      PROVE TypeOK'
  <2>1. [Idle EXCEPT !.step = "reserve", !.unit = u, !.to = to] \in ReqRow
    BY DEF Idle, ReqRow, Steps, Targets
  <2> QED
    BY <1>1, <2>1, GotoType DEF ReserveRead, TypeOK
<1>2. ASSUME NEW u \in Units, NEW b \in Bookings \cup {None}, NEW d \in Dates,
             SellLockUnit(r, u, b, d)
      PROVE TypeOK'
  <2>1. ASSUME NEW s \in {"sell_booking", "sell_unit"}
        PROVE [Idle EXCEPT !.step = s, !.unit = u, !.booking = b, !.date = d] \in ReqRow
    BY DEF Idle, ReqRow, Steps, SellSteps, Targets
  <2> QED
    BY <1>2, <2>1, GotoType DEF SellLockUnit, TypeOK
<1>3. ASSUME NEW b \in Bookings, CancelRead(r, b) PROVE TypeOK'
  <2>1. [Idle EXCEPT !.step = "cancel", !.booking = b] \in ReqRow
    BY DEF Idle, ReqRow, Steps, Targets
  <2> QED
    BY <1>3, <2>1, GotoType DEF CancelRead, TypeOK
<1>4. ASSUME NEW s \in Sales, NEW to \in {"cancelled", "reversed"}, EndSaleRead(r, s, to)
      PROVE TypeOK'
  <2>1. [Idle EXCEPT !.step = "end_sale", !.row = s, !.to = to] \in ReqRow
    BY IdsAreNat DEF Idle, ReqRow, Steps, Targets
  <2> QED
    BY <1>4, <2>1, GotoType DEF EndSaleRead, TypeOK
<1>5. ASSUME NEW o \in Sales, ReverseRead(r, o) PROVE TypeOK'
  <2>1. [Idle EXCEPT !.step = "reverse", !.row = o] \in ReqRow
    BY IdsAreNat DEF Idle, ReqRow, Steps, Targets
  <2> QED
    BY <1>5, <2>1, GotoType DEF ReverseRead, TypeOK
<1>6. ASSUME NEW o \in Sales, ListRead(r, o) PROVE TypeOK'
  <2>1. [Idle EXCEPT !.step = "list", !.row = o] \in ReqRow
    BY IdsAreNat DEF Idle, ReqRow, Steps, Targets
  <2> QED
    BY <1>6, <2>1, GotoType DEF ListRead, TypeOK
<1>7. ASSUME NEW l \in Listings, WithdrawRead(r, l) PROVE TypeOK'
  <2>1. [Idle EXCEPT !.step = "withdraw", !.row = l] \in ReqRow
    BY IdsAreNat DEF Idle, ReqRow, Steps, Targets
  <2> QED
    BY <1>7, <2>1, GotoType DEF WithdrawRead, TypeOK
<1> QED
  BY <1>1, <1>2, <1>3, <1>4, <1>5, <1>6, <1>7 DEF Start

\* What a request writes is typed, given what it knows: the target it carries
\* is a status of the row it targets.
LEMMA ContinueType ==
  ASSUME TypeOK, NEW r \in Requests, ReqInv(r), Continue(r)
  PROVE  TypeOK'
<1> USE IdleType, GotoType
<1>1. CASE ReserveWrite(r)
  <2>1. req[r].unit \in Units /\ req[r].to \in UnitStatuses
    BY <1>1 DEF ReserveWrite, ReqInv, UnitStatuses
  <2> QED
    BY <1>1, <2>1, SetStatusType DEF ReserveWrite, TypeOK
<1>2. CASE CancelCommit(r)
  <2>1. \A b \in Bookings : [booking[b] EXCEPT !.status = "cancelled"] \in BookingRow
    BY DEF TypeOK, BookingRow
  <2>2. booking' \in [Bookings -> BookingRow]
    BY <1>2, <2>1 DEF CancelCommit, TypeOK
  <2> QED
    BY <1>2, <2>2 DEF CancelCommit, TypeOK
<1>11. CASE CancelUpdate(r)
  <2>1. [req[r] EXCEPT !.step = "cancel_held"] \in ReqRow
    BY DEF TypeOK, ReqRow, Steps
  <2> QED
    BY <1>11, <2>1 DEF CancelUpdate, TypeOK
<1>3. CASE SellLockBooking(r)
  <2>1. [req[r] EXCEPT !.step = "sell_booking"] \in ReqRow
    BY DEF TypeOK, ReqRow, Steps, SellSteps
  <2> QED
    BY <1>3, <2>1 DEF SellLockBooking, TypeOK
<1>4. CASE SellLockOwner(r)
  <2>1. ASSUME NEW o \in CurrentOwnerships(req[r].unit) \cup {None}
        PROVE [req[r] EXCEPT !.step = "sell_owner", !.row = o] \in ReqRow
    <3>1. o \in Nat
      BY IdsAreNat DEF CurrentOwnerships
    <3> QED
      BY <3>1 DEF TypeOK, ReqRow, Steps, SellSteps
  <2> QED
    BY <1>4, <2>1 DEF SellLockOwner, TypeOK
<1>5. CASE SellCommit(r)
  <2> DEFINE q == req[r]
  <2>1. q \in ReqRow /\ q.unit \in Units /\ q.date \in Dates /\ q.row \in Sales \cup {None}
    BY <1>5 DEF SellCommit, ReqInv, SellSteps, TypeOK
  <2>2. sale' \in [Sales -> SaleRow]
    <3>1. NewSale(q) \in SaleRow
      BY <2>1 DEF NewSale, SaleRow, ReqRow
    <3> QED
      BY <1>5, <3>1 DEF SellCommit, TypeOK
  <2>3. own' \in [Sales -> OwnRow]
    <3>1. NewOwnership(q) \in OwnRow
      BY <2>1 DEF NewOwnership, OwnRow
    <3>2. \A t \in Sales : [own[t] EXCEPT !.end = q.date] \in OwnRow
      BY <2>1 DEF OwnRow, TypeOK
    <3> QED
      BY <1>5, <3>1, <3>2 DEF SellCommit, TypeOK
  <2>4. listing' \in [Listings -> ListingRow]
    <3>1. \A l \in Listings : [listing[l] EXCEPT !.status = "converted"] \in ListingRow
      BY DEF ListingRow, TypeOK
    <3> QED
      BY <1>5, <3>1 DEF SellCommit, TypeOK
  <2>5. booking' \in [Bookings -> BookingRow]
    <3>1. \A b \in Bookings : [booking[b] EXCEPT !.status = "converted"] \in BookingRow
      BY DEF BookingRow, TypeOK
    <3> QED
      BY <1>5, <3>1 DEF SellCommit, TypeOK
  <2>6. converted' \subseteq Leads
    BY <1>5 DEF SellCommit, TypeOK
  <2>7. SetStatus(q.unit, "sold", "service") /\ "sold" \in UnitStatuses /\ Goto(r, Idle)
    BY <1>5 DEF SellCommit, UnitStatuses
  <2>8. req' \in [Requests -> ReqRow]
    BY <2>7
  <2>9. /\ unit' \in [Units -> UnitStatuses \cup {"absent"}]
        /\ history' \in [Units -> Seq(HistoryEntry)]
    BY <2>1, <2>7, SetStatusType
  <2> QED
    BY <2>2, <2>3, <2>4, <2>5, <2>6, <2>8, <2>9 DEF TypeOK
<1>6. CASE SellReject(r)
  BY <1>6 DEF SellReject, TypeOK
<1>7. CASE EndSaleWrite(r)
  <2>1. \A s \in Sales : [sale[s] EXCEPT !.status = req[r].to] \in SaleRow
    BY <1>7 DEF EndSaleWrite, ReqInv, SaleRow, TypeOK
  <2>2. sale' \in [Sales -> SaleRow]
    BY <1>7, <2>1 DEF EndSaleWrite, TypeOK
  <2> QED
    BY <1>7, <2>2 DEF EndSaleWrite, TypeOK
<1>8. CASE ReverseWrite(r)
  <2>1. \A o \in Sales : Reversed(o) \in OwnRow
    BY DEF Reversed, OwnRow, TypeOK
  <2>2. own' \in [Sales -> OwnRow]
    BY <1>8, <2>1 DEF ReverseWrite, TypeOK
  <2> QED
    BY <1>8, <2>2 DEF ReverseWrite, TypeOK
<1>9. CASE ListWrite(r)
  <2>1. NewListing(req[r].row) \in ListingRow
    BY <1>9 DEF NewListing, ListWrite, ReqInv, ListingRow
  <2>2. listing' \in [Listings -> ListingRow]
    BY <1>9, <2>1 DEF ListWrite, TypeOK
  <2> QED
    BY <1>9, <2>2 DEF ListWrite, TypeOK
<1>10. CASE WithdrawWrite(r)
  <2>1. \A l \in Listings : [listing[l] EXCEPT !.status = "withdrawn"] \in ListingRow
    BY DEF ListingRow, TypeOK
  <2>2. listing' \in [Listings -> ListingRow]
    BY <1>10, <2>1 DEF WithdrawWrite, TypeOK
  <2> QED
    BY <1>10, <2>2 DEF WithdrawWrite, TypeOK
<1> QED
  BY <1>1, <1>2, <1>3, <1>4, <1>5, <1>6, <1>7, <1>8, <1>9, <1>10, <1>11 DEF Continue

\* Every step keeps the tables typed.
LEMMA NextType ==
  ASSUME TypeOK, \A r \in Requests : ReqInv(r), [Next]_vars
  PROVE  TypeOK'
<1>1. ASSUME NEW u \in Units, NEW s \in InitialStatuses, CreateProperty(u, s) PROVE TypeOK'
  BY <1>1, StatusAssumption DEF CreateProperty, TypeOK, UnitStatuses
<1>2. ASSUME NEW u \in Units, NEW s \in DirectStatuses, DirectUpdate(u, s) PROVE TypeOK'
  <2>1. s \in UnitStatuses
    BY StatusAssumption
  <2> QED
    BY <1>2, <2>1, SetStatusType DEF DirectUpdate, TypeOK
<1>3. ASSUME NEW b \in Bookings, NEW u \in Units, NEW l \in Leads \cup {None},
             CreateBooking(b, u, l)
      PROVE TypeOK'
  <2>1. NewBooking(u, l) \in BookingRow
    BY DEF NewBooking, BookingRow
  <2> QED
    BY <1>3, <2>1 DEF CreateBooking, TypeOK
<1>4. ASSUME NEW r \in Requests, Start(r) \/ Continue(r) PROVE TypeOK'
  BY <1>4, StartType, ContinueType
<1>5. ASSUME NEW r \in Requests, Abort(r) PROVE TypeOK'
  BY <1>5, IdleType, GotoType DEF Abort, TypeOK
<1>6. CASE UNCHANGED vars
  BY <1>6 DEF vars, TypeOK
<1> QED
  BY <1>1, <1>2, <1>3, <1>4, <1>5, <1>6 DEF Next

-----------------------------------------------------------------------------
(* The ledger invariant is inductive *)

\* A step that inserts no row and ends no period leaves every unit's current
\* ownership alone.
LEMMA SameOwners ==
  ASSUME \A s \in Sales : /\ Exists(own, s)' <=> Exists(own, s)
                          /\ sale[s].unit' = sale[s].unit
                          /\ own[s].end' = own[s].end
  PROVE  \A u : CurrentOwnerships(u)' = CurrentOwnerships(u)
  BY DEF CurrentOwnerships, Sales

\* ... and then the invariant only has to be shown of the request that moved.
LEMMA OneRequestMoves ==
  ASSUME LedgerInv, TypeOK', NEW r \in Requests,
         \A q \in Requests \ {r} : req'[q] = req[q],
         \A s \in Sales : /\ Exists(own, s)' <=> Exists(own, s)
                          /\ Exists(sale, s) => Exists(sale, s)'
                          /\ sale[s].unit' = sale[s].unit
                          /\ own[s].end' = own[s].end,
         ReqInv(r)',
         req'[r].step \in SellSteps =>
           \A q \in Requests \ {r} : req[q].step \in SellSteps
                                     => req[q].unit # req'[r].unit,
         req'[r].step \in BookingSteps /\ req'[r].booking # None =>
           \A q \in Requests \ {r} : req[q].step \in BookingSteps
                                     => req[q].booking # req'[r].booking,
         req'[r].step = "sell_owner" =>
           CurrentOwnerships(req'[r].unit) = {req'[r].row} \ {None}
  PROVE  LedgerInv'
<1>1. \A u : CurrentOwnerships(u)' = CurrentOwnerships(u)
  BY SameOwners
<1>2. \A q \in Requests : ReqInv(q)'
  BY DEF ReqInv, LedgerInv, Exists
<1>3. LockExclusive'
  BY DEF LockExclusive, LedgerInv
<1>7. BookingExclusive'
  BY DEF BookingExclusive, LedgerInv
<1>4. OwnedWasSold'
  BY DEF OwnedWasSold, LedgerInv, Sales
<1>5. OneCurrentOwner'
  BY <1>1 DEF OneCurrentOwner, LedgerInv
<1>6. OwnerReadStaysCurrent'
  BY <1>1 DEF OwnerReadStaysCurrent, LedgerInv
<1> QED
  BY <1>2, <1>3, <1>4, <1>5, <1>6, <1>7 DEF LedgerInv

\* Rows and ownership untouched: the tables of the ledger are as they were.
LEMMA Untouched ==
  ASSUME UNCHANGED <<sale, own>>
  PROVE  \A s \in Sales : /\ Exists(own, s)' <=> Exists(own, s)
                          /\ Exists(sale, s) => Exists(sale, s)'
                          /\ sale[s].unit' = sale[s].unit
                          /\ own[s].end' = own[s].end
  BY DEF Exists

\* Starting a request: what it reads, or the unit it locks, is consistent.
LEMMA StartInv ==
  ASSUME LedgerInv, TypeOK', NEW r \in Requests, Start(r)
  PROVE  LedgerInv'
<1> USE DEF Goto, Idle
<1>1. ASSUME NEW u \in Units, NEW to \in {"hold", "reserved"}, ReserveRead(r, u, to)
      PROVE LedgerInv'
  BY <1>1, Untouched, OneRequestMoves DEF ReserveRead, LedgerInv, TypeOK, ReqInv, SellSteps, BookingSteps
<1>2. ASSUME NEW u \in Units, NEW b \in Bookings \cup {None}, NEW d \in Dates,
             SellLockUnit(r, u, b, d)
      PROVE LedgerInv'
  <2>1. \A q \in Requests \ {r} : req[q].step \in SellSteps => req[q].unit # u
    BY <1>2 DEF SellLockUnit, UnitLocked
  <2>2. /\ req'[r].step \in {"sell_booking", "sell_unit"}
        /\ req'[r].unit = u /\ req'[r].date = d
        /\ req'[r].step = "sell_booking" => req'[r].booking = None
        /\ \A q \in Requests \ {r} : req'[q] = req[q]
    BY <1>2 DEF SellLockUnit, LedgerInv, TypeOK
  <2>3. ReqInv(r)'
    BY <2>2 DEF ReqInv, SellSteps
  <2>4. ~(req'[r].step \in BookingSteps /\ req'[r].booking # None)
    BY <2>2 DEF BookingSteps
  <2> QED
    BY <1>2, <2>1, <2>2, <2>3, <2>4, Untouched, OneRequestMoves DEF SellLockUnit
<1>3. ASSUME NEW b \in Bookings, CancelRead(r, b) PROVE LedgerInv'
  BY <1>3, Untouched, OneRequestMoves DEF CancelRead, LedgerInv, TypeOK, ReqInv, SellSteps, BookingSteps
<1>4. ASSUME NEW s \in Sales, NEW to \in {"cancelled", "reversed"}, EndSaleRead(r, s, to)
      PROVE LedgerInv'
  BY <1>4, Untouched, OneRequestMoves DEF EndSaleRead, LedgerInv, TypeOK, ReqInv, SellSteps, BookingSteps
<1>5. ASSUME NEW o \in Sales, ReverseRead(r, o) PROVE LedgerInv'
  BY <1>5, Untouched, OneRequestMoves
     DEF ReverseRead, LedgerInv, TypeOK, ReqInv, SellSteps, BookingSteps, Exists
<1>6. ASSUME NEW o \in Sales, ListRead(r, o) PROVE LedgerInv'
  BY <1>6, Untouched, OneRequestMoves DEF ListRead, LedgerInv, TypeOK, ReqInv, SellSteps, BookingSteps
<1>7. ASSUME NEW l \in Listings, WithdrawRead(r, l) PROVE LedgerInv'
  BY <1>7, Untouched, OneRequestMoves DEF WithdrawRead, LedgerInv, TypeOK, ReqInv, SellSteps, BookingSteps
<1> HIDE DEF Goto, Idle
<1> QED
  BY <1>1, <1>2, <1>3, <1>4, <1>5, <1>6, <1>7 DEF Start

\* The commit: the period it read is still the unit's only open one, so closing
\* it and inserting the new row keeps one current owner, on this unit only.
LEMMA CommitInv ==
  ASSUME LedgerInv, TypeOK', NEW r \in Requests, SellCommit(r)
  PROVE  LedgerInv'
<1> DEFINE q == req[r]
<1>0. PICK v \in Units : v = q.unit
  BY DEF SellCommit, LedgerInv, ReqInv, SellSteps
<1>1. /\ q.step = "sell_owner" /\ q.unit = v /\ q.date \in Dates
      /\ q.date # None /\ q.row \in Sales \cup {None}
      /\ CurrentOwnerships(v) = {q.row} \ {None}
  BY <1>0, DateAssumption DEF SellCommit, LedgerInv, ReqInv, SellSteps, OwnerReadStaysCurrent
<1>2. PICK s \in Sales :
        /\ ~Exists(sale, s)
        /\ sale' = [sale EXCEPT ![s] = NewSale(q)]
        /\ own' = [t \in Sales |-> IF t = s THEN NewOwnership(q)
                                   ELSE IF t = q.row THEN [own[t] EXCEPT !.end = q.date]
                                   ELSE own[t]]
  BY DEF SellCommit, IsNext
<1>3. ~Exists(own, s) /\ s # q.row
  <2>1. ~Exists(own, s)
    BY <1>2 DEF LedgerInv, OwnedWasSold
  <2>2. \A t \in CurrentOwnerships(v) : Exists(own, t)
    BY DEF CurrentOwnerships
  <2>3. q.row \in Sales => q.row \in CurrentOwnerships(v)
    BY <1>1, IdsAreNat
  <2> QED
    BY <2>1, <2>2, <2>3
<1>4. \A t \in Sales \ {s} : sale'[t] = sale[t]
                             /\ (t # q.row => own'[t] = own[t])
  BY <1>2 DEF LedgerInv, TypeOK
<1>5. /\ sale'[s].unit = v /\ sale'[s].status = "active"
      /\ own'[s].status = "active" /\ own'[s].end = None
  BY <1>1, <1>2 DEF LedgerInv, TypeOK, NewOwnership, NewSale
<1>6. q.row \in Sales => /\ own'[q.row].end = q.date
                         /\ own'[q.row].status = own[q.row].status
                         /\ sale'[q.row] = sale[q.row]
  BY <1>2, <1>3, <1>4 DEF LedgerInv, TypeOK, OwnRow
<1>7. CurrentOwnerships(v)' = {s}
  <2>1. \A t \in Sales : t \in CurrentOwnerships(v)' => t = s
    <3> SUFFICES ASSUME NEW t \in Sales, t # s, t \in CurrentOwnerships(v)' PROVE FALSE
      OBVIOUS
    <3>1. CASE t = q.row
      BY <1>1, <1>6, <3>1 DEF CurrentOwnerships
    <3>2. CASE t # q.row
      <4>1. t \in CurrentOwnerships(v)
        BY <1>4, <3>2 DEF CurrentOwnerships, Exists
      <4> QED
        BY <4>1, <3>2, <1>1
    <3> QED
      BY <3>1, <3>2
  <2>2. s \in CurrentOwnerships(v)'
    BY <1>5 DEF CurrentOwnerships, Exists, Sales
  <2> QED
    BY <2>1, <2>2 DEF CurrentOwnerships, Sales
<1>8. ASSUME NEW u \in Units, u # v PROVE CurrentOwnerships(u)' = CurrentOwnerships(u)
  <2>1. q.row \in Sales => sale[q.row].unit = v
    BY <1>1, IdsAreNat DEF CurrentOwnerships
  <2>2. \A t \in Sales : t \in CurrentOwnerships(u)' <=> t \in CurrentOwnerships(u)
    <3> SUFFICES ASSUME NEW t \in Sales
                 PROVE t \in CurrentOwnerships(u)' <=> t \in CurrentOwnerships(u)
      OBVIOUS
    <3>1. CASE t = s
      BY <1>3, <1>5, <1>8, <3>1 DEF CurrentOwnerships
    <3>2. CASE t # s /\ t = q.row
      BY <1>6, <1>8, <2>1, <3>2 DEF CurrentOwnerships
    <3>3. CASE t # s /\ t # q.row
      BY <1>4, <3>3 DEF CurrentOwnerships, Exists, Sales
    <3> QED
      BY <3>1, <3>2, <3>3
  <2> QED
    BY <2>2 DEF CurrentOwnerships, Sales
<1>9. /\ req'[r] = Idle
      /\ \A p \in Requests \ {r} : req'[p] = req[p]
  BY DEF SellCommit, Goto, LedgerInv, TypeOK
<1>10. \A t \in Sales : Exists(own, t) => Exists(own, t)'
  BY <1>4, <1>5, <1>6 DEF Exists
<1>11. \A p \in Requests : ReqInv(p)'
  <2>1. ReqInv(r)'
    BY <1>9 DEF ReqInv, Idle, SellSteps
  <2>2. ASSUME NEW p \in Requests \ {r} PROVE ReqInv(p)'
    BY <1>9, <1>10 DEF ReqInv, LedgerInv
  <2> QED
    BY <2>1, <2>2
<1>12. LockExclusive'
  BY <1>9 DEF LockExclusive, LedgerInv, Idle, SellSteps
<1>16. BookingExclusive'
  BY <1>9 DEF BookingExclusive, LedgerInv, Idle, BookingSteps
<1>13. OwnedWasSold'
  BY <1>3, <1>4, <1>5, <1>6 DEF OwnedWasSold, LedgerInv, Exists, Sales
<1>14. OneCurrentOwner'
  BY <1>7, <1>8 DEF OneCurrentOwner, LedgerInv
<1>15. OwnerReadStaysCurrent'
  <2> SUFFICES ASSUME NEW p \in Requests, req'[p].step = "sell_owner"
               PROVE  (CurrentOwnerships(req[p].unit) = {req[p].row} \ {None})'
    BY DEF OwnerReadStaysCurrent
  <2>1. p # r /\ req'[p] = req[p]
    BY <1>9 DEF Idle
  <2>2. PICK w \in Units : w = req[p].unit /\ w # v
    BY <2>1, <1>1 DEF LedgerInv, ReqInv, LockExclusive, SellSteps
  <2>3. CurrentOwnerships(w)' = {req[p].row} \ {None}
    BY <2>1, <2>2, <1>8 DEF LedgerInv, OwnerReadStaysCurrent
  <2>4. req'[p].unit = w /\ req'[p].row = req[p].row
    BY <2>1, <2>2
  <2> QED
    BY <2>3, <2>4
<1> QED
  BY <1>11, <1>12, <1>13, <1>14, <1>15, <1>16 DEF LedgerInv

\* A request that ends without touching sales or ownerships.
LEMMA EndedInv ==
  ASSUME LedgerInv, TypeOK', NEW r \in Requests, Goto(r, Idle), UNCHANGED <<sale, own>>
  PROVE  LedgerInv'
<1>1. req'[r] = Idle /\ \A q \in Requests \ {r} : req'[q] = req[q]
  BY DEF Goto, LedgerInv, TypeOK
<1>2. ReqInv(r)'
  BY <1>1 DEF ReqInv, Idle, SellSteps
<1>3. req'[r].step = "idle"
  BY <1>1 DEF Idle
<1> QED
  BY <1>1, <1>2, <1>3, Untouched, OneRequestMoves DEF SellSteps, BookingSteps

\* Every other write of a request, and every further lock it takes.
LEMMA ContinueInv ==
  ASSUME LedgerInv, TypeOK', NEW r \in Requests, Continue(r)
  PROVE  LedgerInv'
<1>1. CASE ReserveWrite(r)
  BY <1>1, EndedInv DEF ReserveWrite
<1>2. CASE CancelCommit(r)
  BY <1>2, EndedInv DEF CancelCommit
<1>11. CASE CancelUpdate(r)
  <2>1. /\ req'[r] = [req[r] EXCEPT !.step = "cancel_held"]
        /\ \A q \in Requests \ {r} : req'[q] = req[q]
    BY <1>11 DEF CancelUpdate, Goto, LedgerInv, TypeOK
  <2>2. /\ req'[r].step = "cancel_held" /\ req[r].step = "cancel"
        /\ req'[r].booking = req[r].booking
    BY <1>11, <2>1 DEF CancelUpdate, LedgerInv, TypeOK, ReqRow
  <2>3. ReqInv(r)'
    BY <2>2 DEF ReqInv, LedgerInv, SellSteps
  <2>4. \A q \in Requests \ {r} : req[q].step \in BookingSteps => req[q].booking # req'[r].booking
    BY <1>11, <2>2 DEF CancelUpdate, BookingLocked
  <2> QED
    BY <1>11, <2>1, <2>2, <2>3, <2>4, Untouched, OneRequestMoves DEF CancelUpdate, SellSteps
<1>3. CASE SellLockBooking(r)
  <2>1. CASE Goto(r, Idle)
    BY <1>3, <2>1, EndedInv DEF SellLockBooking
  <2>2. CASE Goto(r, [req[r] EXCEPT !.step = "sell_booking"])
    <3>1. /\ req'[r] = [req[r] EXCEPT !.step = "sell_booking"]
          /\ \A q \in Requests \ {r} : req'[q] = req[q]
      BY <2>2 DEF Goto, LedgerInv, TypeOK
    <3>2. /\ req'[r].step = "sell_booking" /\ req[r].step = "sell_unit"
          /\ req'[r].unit = req[r].unit /\ req'[r].date = req[r].date
      BY <1>3, <3>1 DEF SellLockBooking, LedgerInv, TypeOK, ReqRow
    <3>3. ReqInv(r)'
      BY <3>2 DEF ReqInv, LedgerInv, SellSteps
    <3>4. \A q \in Requests \ {r} : req[q].step \in SellSteps => req[q].unit # req'[r].unit
      BY <3>2 DEF LedgerInv, LockExclusive, SellSteps
    <3>5. req'[r].booking = req[r].booking
      BY <3>1 DEF LedgerInv, TypeOK, ReqRow
    <3>6. \A q \in Requests \ {r} : req[q].step \in BookingSteps => req[q].booking # req'[r].booking
      BY <1>3, <3>5 DEF SellLockBooking, BookingLocked
    <3> QED
      BY <1>3, <3>1, <3>2, <3>3, <3>4, <3>6, Untouched, OneRequestMoves DEF SellLockBooking
  <2> QED
    BY <1>3, <2>1, <2>2 DEF SellLockBooking
<1>4. CASE SellLockOwner(r)
  <2>1. CASE Goto(r, Idle)
    BY <1>4, <2>1, EndedInv DEF SellLockOwner
  <2>2. ASSUME NEW o \in CurrentOwnerships(req[r].unit) \cup {None},
               CurrentOwnerships(req[r].unit) # {} => o # None,
               Goto(r, [req[r] EXCEPT !.step = "sell_owner", !.row = o])
        PROVE LedgerInv'
    <3>1. /\ req'[r] = [req[r] EXCEPT !.step = "sell_owner", !.row = o]
          /\ \A q \in Requests \ {r} : req'[q] = req[q]
      BY <2>2 DEF Goto, LedgerInv, TypeOK
    <3>2. /\ req'[r].step = "sell_owner" /\ req[r].step = "sell_booking"
          /\ req'[r].unit = req[r].unit /\ req'[r].date = req[r].date /\ req'[r].row = o
      <4>1. req[r].step = "sell_booking"
        BY <1>4 DEF SellLockOwner
      <4>2. req[r] \in ReqRow
        BY DEF LedgerInv, TypeOK
      <4> QED
        BY <3>1, <4>1, <4>2 DEF ReqRow
    <3>3. req[r].unit \in Units
      BY <3>2 DEF LedgerInv, ReqInv, SellSteps
    <3>4. \A s \in CurrentOwnerships(req[r].unit) : s \in Sales /\ s # None
      BY IdsAreNat DEF CurrentOwnerships
    <3>5. CurrentOwnerships(req[r].unit) = {o} \ {None}
      BY <2>2, <3>3, <3>4 DEF LedgerInv, OneCurrentOwner
    <3>6. ReqInv(r)'
      BY <3>2, <3>4 DEF ReqInv, LedgerInv, SellSteps
    <3>7. \A q \in Requests \ {r} : req[q].step \in SellSteps => req[q].unit # req'[r].unit
      BY <3>2 DEF LedgerInv, LockExclusive, SellSteps
    <3>8. req'[r].booking = req[r].booking
      BY <3>1 DEF LedgerInv, TypeOK, ReqRow
    <3>9. req'[r].booking # None => \A q \in Requests \ {r} :
            req[q].step \in BookingSteps => req[q].booking # req'[r].booking
      BY <3>2, <3>8 DEF LedgerInv, BookingExclusive, BookingSteps
    <3> QED
      BY <1>4, <3>1, <3>2, <3>5, <3>6, <3>7, <3>9, Untouched, OneRequestMoves DEF SellLockOwner
  <2> QED
    BY <1>4, <2>1, <2>2 DEF SellLockOwner
<1>5. CASE SellCommit(r)
  BY <1>5, CommitInv
<1>6. CASE SellReject(r)
  BY <1>6, EndedInv DEF SellReject
<1>7. CASE EndSaleWrite(r)
  <2>1. /\ req'[r] = Idle
        /\ \A q \in Requests \ {r} : req'[q] = req[q]
    BY <1>7 DEF EndSaleWrite, Goto, LedgerInv, TypeOK
  <2>2. ReqInv(r)' /\ req'[r].step = "idle"
    BY <2>1 DEF ReqInv, Idle, SellSteps
  <2>3. req[r].to # "absent"
    BY <1>7 DEF EndSaleWrite, LedgerInv, ReqInv
  <2>4. \A s \in Sales : /\ Exists(sale, s) => Exists(sale, s)'
                         /\ sale'[s].unit = sale[s].unit
    BY <1>7, <2>3 DEF EndSaleWrite, Exists, LedgerInv, TypeOK, SaleRow
  <2>5. \A s \in Sales : own'[s] = own[s]
    BY <1>7 DEF EndSaleWrite
  <2> QED
    BY <2>1, <2>2, <2>4, <2>5, OneRequestMoves DEF SellSteps, BookingSteps, Exists
<1>8. CASE ReverseWrite(r)
  <2>1. /\ req'[r] = Idle
        /\ \A q \in Requests \ {r} : req'[q] = req[q]
    BY <1>8 DEF ReverseWrite, Goto, LedgerInv, TypeOK
  <2>2. ReqInv(r)' /\ req'[r].step = "idle"
    BY <2>1 DEF ReqInv, Idle, SellSteps
  <2>3. req[r].row \in Sales /\ Exists(own, req[r].row)
    BY <1>8 DEF ReverseWrite, LedgerInv, ReqInv
  <2>4. \A s \in Sales : /\ Exists(own, s)' <=> Exists(own, s)
                         /\ own'[s].end = own[s].end
    BY <1>8, <2>3 DEF ReverseWrite, Reversed, Exists, LedgerInv, TypeOK, OwnRow
  <2>5. \A s \in Sales : sale'[s] = sale[s]
    BY <1>8 DEF ReverseWrite
  <2> QED
    BY <2>1, <2>2, <2>4, <2>5, OneRequestMoves DEF SellSteps, BookingSteps, Exists
<1>9. CASE ListWrite(r)
  BY <1>9, EndedInv DEF ListWrite
<1>10. CASE WithdrawWrite(r)
  BY <1>10, EndedInv DEF WithdrawWrite
<1> QED
  BY <1>1, <1>2, <1>3, <1>4, <1>5, <1>6, <1>7, <1>8, <1>9, <1>10, <1>11 DEF Continue

\* Requests, sales and ownerships untouched: nothing the invariant speaks of.
LEMMA ElsewhereInv ==
  ASSUME LedgerInv, TypeOK', UNCHANGED <<sale, own, req>>
  PROVE  LedgerInv'
  BY DEF LedgerInv, ReqInv, LockExclusive, BookingExclusive, OwnedWasSold, OneCurrentOwner,
         OwnerReadStaysCurrent, CurrentOwnerships, Exists

\* The empty tables satisfy the invariant.
LEMMA InitInv == Init => LedgerInv
<1> SUFFICES ASSUME Init PROVE LedgerInv
  OBVIOUS
<1>1. \A r \in Requests : req[r] = Idle /\ req[r].step = "idle"
  BY DEF Init, Idle
<1>2. \A s \in Sales : ~Exists(own, s)
  BY DEF Init, Exists
<1>3. \A r \in Requests : ReqInv(r)
  BY <1>1 DEF ReqInv, SellSteps
<1>4. LockExclusive /\ BookingExclusive /\ OwnerReadStaysCurrent
  BY <1>1 DEF LockExclusive, BookingExclusive, OwnerReadStaysCurrent, SellSteps, BookingSteps
<1>5. OwnedWasSold /\ OneCurrentOwner
  BY <1>2 DEF OwnedWasSold, OneCurrentOwner, CurrentOwnerships
<1> QED
  BY <1>3, <1>4, <1>5, InitType DEF LedgerInv

\* Every step of the pipeline preserves the invariant.
LEMMA NextInv ==
  ASSUME LedgerInv, [Next]_vars
  PROVE  LedgerInv'
<1>1. TypeOK'
  BY NextType DEF LedgerInv
<1>2. ASSUME NEW u \in Units, NEW s \in InitialStatuses, CreateProperty(u, s) PROVE LedgerInv'
  BY <1>1, <1>2, ElsewhereInv DEF CreateProperty
<1>3. ASSUME NEW u \in Units, NEW s \in DirectStatuses, DirectUpdate(u, s) PROVE LedgerInv'
  BY <1>1, <1>3, ElsewhereInv DEF DirectUpdate
<1>4. ASSUME NEW b \in Bookings, NEW u \in Units, NEW l \in Leads \cup {None},
             CreateBooking(b, u, l)
      PROVE LedgerInv'
  BY <1>1, <1>4, ElsewhereInv DEF CreateBooking
<1>5. ASSUME NEW r \in Requests, Start(r) \/ Continue(r) PROVE LedgerInv'
  BY <1>1, <1>5, StartInv, ContinueInv
<1>6. ASSUME NEW r \in Requests, Abort(r) PROVE LedgerInv'
  BY <1>1, <1>6, EndedInv DEF Abort
<1>7. CASE UNCHANGED vars
  BY <1>1, <1>7, ElsewhereInv DEF vars
<1> QED
  BY <1>2, <1>3, <1>4, <1>5, <1>6, <1>7 DEF Next

\* The ledger invariant holds of every reachable state.
THEOREM LedgerInvariant == Spec => []LedgerInv
  BY InitInv, NextInv, PTL DEF Spec

\* Every table keeps to its columns' enums and foreign keys.
THEOREM TypeCorrect == Spec => []TypeOK
<1>1. LedgerInv => TypeOK
  BY DEF LedgerInv
<1> QED
  BY <1>1, LedgerInvariant, PTL

\* What create_sale read about the current owner still holds when it commits.
THEOREM OwnerReadCorrect == Spec => []OwnerReadStaysCurrent
<1>1. LedgerInv => OwnerReadStaysCurrent
  BY DEF LedgerInv
<1> QED
  BY <1>1, LedgerInvariant, PTL

\* A unit never has two current owners, whatever requests race.
THEOREM OneOwner == Spec => []OneCurrentOwner
<1>1. LedgerInv => OneCurrentOwner
  BY DEF LedgerInv
<1> QED
  BY <1>1, LedgerInvariant, PTL
-----------------------------------------------------------------------------
(* The chain of titles *)

\* Both tables are filled together and in order; an absent row names no unit.
TablesAligned ==
  /\ \A s \in Sales : /\ Exists(sale, s) => Exists(own, s) /\ sale[s].unit \in Units
                      /\ ~Exists(sale, s) => sale[s].unit = None
  /\ \A s, t \in Sales : s < t /\ Exists(sale, t) => Exists(sale, s)

\* A unit that was ever sold has a current owner: its latest buyer.
LatestOwns ==
  \A t \in Sales : Exists(sale, t) => \E s \in CurrentOwnerships(sale[t].unit) : t <= s

\* A title has a start, and one that follows another begins, on the same unit,
\* when the other ends.
LinkedBack ==
  \A t \in Sales : Exists(own, t) =>
    /\ own[t].start # None
    /\ own[t].prev # None =>
         /\ Exists(own, own[t].prev) /\ sale[own[t].prev].unit = sale[t].unit
         /\ own[t].start = own[own[t].prev].end
         /\ own[own[t].prev].start <= own[t].start

\* No two titles of a unit follow the same one, or are both the first.
NoForks ==
  \A s, t \in Sales : Exists(own, s) /\ Exists(own, t)
                        /\ own[s].prev = own[t].prev /\ sale[s].unit = sale[t].unit => s = t

\* A unit with titles has a first one, and a title that ended is followed.
Unbroken ==
  \A s \in Sales : Exists(own, s) =>
    /\ \E t \in Sales : Exists(own, t) /\ sale[t].unit = sale[s].unit /\ own[t].prev = None
    /\ own[s].end # None => \E t \in Sales : Exists(own, t) /\ own[t].prev = s

\* What a request in progress relies on although it read it in an earlier step.
RequestKnows(r) ==
  /\ req[r].step \in SellSteps => Sellable(req[r].unit)
  /\ req[r].step \in {"sell_booking", "sell_owner"} /\ req[r].booking # None
       => Convertible(req[r].booking, req[r].unit)
  /\ req[r].step = "end_sale" => Exists(sale, req[r].row)

\* A sale used up the booking it names, and no other sale names it; who is
\* marked converted, booking or lead, was converted by a sale.
SoldBookings ==
  /\ \A s \in Sales : Exists(sale, s) /\ sale[s].booking # None =>
       /\ booking[sale[s].booking].status \in {"converted", "cancelled"}
       /\ booking[sale[s].booking].unit = sale[s].unit
  /\ \A s, t \in Sales : Exists(sale, s) /\ Exists(sale, t) /\ sale[s].booking # None
                           /\ sale[s].booking = sale[t].booking => s = t
  /\ \A b \in Bookings : booking[b].status = "converted" =>
       \E s \in Sales : Exists(sale, s) /\ sale[s].booking = b
  /\ \A l \in converted : \E s \in Sales :
       Exists(sale, s) /\ sale[s].booking # None /\ booking[sale[s].booking].lead = l

\* The history of a unit ends with the status it has.
HistoryEnds ==
  \A u \in Units : history[u] # <<>> => history[u][Len(history[u])].status = unit[u]

\* The ledger's part of the strengthened invariant.
ChainInv == TablesAligned /\ LatestOwns /\ LinkedBack /\ NoForks /\ Unbroken

\* The inductive invariant of the whole pipeline.
DealInv ==
  /\ LedgerInv
  /\ ChainInv
  /\ \A r \in Requests : RequestKnows(r)
  /\ SoldBookings
  /\ HistoryEnds
  /\ HistoryMatchesSales

\* What is in a row but its status.
SameLedger ==
  \A s \in Sales :
    /\ Exists(sale, s)' <=> Exists(sale, s)
    /\ sale'[s].unit = sale[s].unit /\ sale'[s].booking = sale[s].booking
    /\ Exists(own, s)' <=> Exists(own, s)
    /\ own'[s].prev = own[s].prev /\ own'[s].start = own[s].start /\ own'[s].end = own[s].end

\* A step that changes no more than the status of rows leaves the chain alone.
LEMMA ChainKept ==
  ASSUME ChainInv, TypeOK, SameLedger
  PROVE  ChainInv'
<1>1. \A u : CurrentOwnerships(u)' = CurrentOwnerships(u)
  BY DEF SameLedger, CurrentOwnerships, Sales
<1>2. TablesAligned'
  BY DEF ChainInv, TablesAligned, SameLedger, Sales
<1>3. LatestOwns'
  BY <1>1 DEF ChainInv, LatestOwns, SameLedger, Sales
<1>4. \A t \in Sales : own[t].prev # None => own[t].prev \in Sales
  BY DEF TypeOK, OwnRow
<1>5. LinkedBack'
  BY <1>4 DEF ChainInv, LinkedBack, SameLedger, Sales
<1>6. NoForks'
  BY DEF ChainInv, NoForks, SameLedger, Sales
<1>7. Unbroken'
  BY DEF ChainInv, Unbroken, SameLedger, Sales
<1> QED
  BY <1>2, <1>3, <1>5, <1>6, <1>7 DEF ChainInv

\* The rows that create_sale leaves when it commits as sale s.
Recorded(q, s) ==
  /\ s \in Sales /\ ~Exists(sale, s) /\ ~Exists(own, s) /\ s # q.row
  /\ \A t \in Sales : t < s => Exists(sale, t)
  /\ sale'[s] = NewSale(q) /\ own'[s] = NewOwnership(q)
  /\ \A t \in Sales \ {s} : sale'[t] = sale[t] /\ (t # q.row => own'[t] = own[t])
  /\ q.row \in Sales =>
       /\ own'[q.row].status = own[q.row].status /\ own'[q.row].prev = own[q.row].prev
       /\ own'[q.row].start = own[q.row].start /\ own'[q.row].end = q.date

\* ... and what it knew: the row it closed was the unit's only open one.
CommitReads(q) ==
  /\ q.unit \in Units /\ q.date \in Dates /\ q.date # None /\ q.date \in Nat
  /\ q.row \in Sales \cup {None}
  /\ CurrentOwnerships(q.unit) = {q.row} \ {None}
  /\ q.row \in Sales => /\ Exists(own, q.row) /\ sale[q.row].unit = q.unit
                        /\ own[q.row].end = None /\ own[q.row].start <= q.date

\* A commit in the terms of the two definitions above.
LEMMA CommitRecords ==
  ASSUME LedgerInv, NEW r \in Requests, SellCommit(r)
  PROVE  CommitReads(req[r]) /\ \E s \in Sales : Recorded(req[r], s)
<1> DEFINE q == req[r]
<1>a. TypeOK /\ q.step = "sell_owner"
  BY DEF LedgerInv, SellCommit
<1>b. sale \in [Sales -> SaleRow] /\ own \in [Sales -> OwnRow]
  BY <1>a DEF TypeOK
<1>1. /\ q.unit \in Units /\ q.date \in Dates /\ q.row \in Sales \cup {None}
      /\ CurrentOwnerships(q.unit) = {q.row} \ {None}
  BY <1>a DEF LedgerInv, ReqInv, SellSteps, OwnerReadStaysCurrent
<1>2. q.date # None /\ q.date \in Nat
  BY <1>1, DateAssumption
<1>3. q.row \in Sales => /\ Exists(own, q.row) /\ sale[q.row].unit = q.unit
                         /\ own[q.row].end = None
  BY <1>1, IdsAreNat DEF CurrentOwnerships
<1>4. q.row \in Sales => own[q.row].start <= q.date
  <2>1. q.row \in Sales => q.row # None /\ ~(q.date < own[q.row].start)
    BY IdsAreNat DEF SellCommit, SaleRejected
  <2>2. \A t \in Sales : own[t].start \in Dates \cup {None}
    BY <1>b DEF OwnRow
  <2>3. \A t \in Sales : own[t].start \in Nat
    BY <2>2, DateAssumption
  <2> QED
    BY <1>2, <2>1, <2>3
<1>5. PICK s \in Sales :
        /\ IsNext(sale, s)
        /\ sale' = [sale EXCEPT ![s] = NewSale(q)]
        /\ own' = [t \in Sales |-> IF t = s THEN NewOwnership(q)
                                   ELSE IF t = q.row THEN [own[t] EXCEPT !.end = q.date]
                                   ELSE own[t]]
  BY DEF SellCommit
<1>6. ~Exists(sale, s) /\ ~Exists(own, s) /\ s # q.row
  BY <1>3, <1>5 DEF IsNext, LedgerInv, OwnedWasSold
<1>7. \A t \in Sales : t < s => Exists(sale, t)
  BY <1>5, <1>b DEF IsNext
<1>8. sale'[s] = NewSale(q) /\ own'[s] = NewOwnership(q)
  BY <1>5, <1>b
<1>9. \A t \in Sales \ {s} : sale'[t] = sale[t] /\ (t # q.row => own'[t] = own[t])
  BY <1>5, <1>b
<1>10. q.row \in Sales => own'[q.row] = [own[q.row] EXCEPT !.end = q.date]
  BY <1>5, <1>6
<1>11. q.row \in Sales =>
         /\ own'[q.row].status = own[q.row].status /\ own'[q.row].prev = own[q.row].prev
         /\ own'[q.row].start = own[q.row].start /\ own'[q.row].end = q.date
  BY <1>10, <1>b DEF OwnRow
<1> QED
  BY <1>1, <1>2, <1>3, <1>4, <1>6, <1>7, <1>8, <1>9, <1>11 DEF CommitReads, Recorded

\* The new title is the only current one of its unit; the others keep theirs.
LEMMA CommitOwners ==
  ASSUME LedgerInv, NEW q, CommitReads(q), NEW s \in Sales, Recorded(q, s)
  PROVE  /\ CurrentOwnerships(q.unit)' = {s}
         /\ \A u \in Units \ {q.unit} : CurrentOwnerships(u)' = CurrentOwnerships(u)
<1>1. /\ sale'[s].unit = q.unit /\ sale'[s].status = "active"
      /\ own'[s].status = "active" /\ own'[s].end = None
  BY DEF Recorded, NewSale, NewOwnership
<1>2. \A t \in Sales \ {s} : sale'[t].unit = sale[t].unit /\ (Exists(own, t)' <=> Exists(own, t))
  BY DEF Recorded, Exists
<1>3. \A t \in Sales \ {s, q.row} : own'[t].end = own[t].end
  BY DEF Recorded
<1>4. q.row \in Sales => /\ own'[q.row].end # None /\ own[q.row].end = None
                         /\ sale[q.row].unit = q.unit /\ q.row # s
  BY DEF CommitReads, Recorded
<1>5. \A t \in Sales \ {s} : t \in CurrentOwnerships(q.unit) => t = q.row
  BY DEF CommitReads
<1>6. \A t \in Sales \ {s} : t \notin CurrentOwnerships(q.unit)'
  BY <1>2, <1>3, <1>4, <1>5 DEF CurrentOwnerships, Sales
<1>7. s \in CurrentOwnerships(q.unit)'
  BY <1>1 DEF CurrentOwnerships, Sales, Exists
<1>8. CurrentOwnerships(q.unit)' = {s}
  BY <1>6, <1>7 DEF CurrentOwnerships, Sales
<1>9. ASSUME NEW u \in Units \ {q.unit}
      PROVE  CurrentOwnerships(u)' = CurrentOwnerships(u)
  <2>1. s \notin CurrentOwnerships(u)' /\ s \notin CurrentOwnerships(u)
    BY <1>1 DEF CurrentOwnerships, Recorded
  <2>2. \A t \in Sales \ {s} : t \in CurrentOwnerships(u)' <=> t \in CurrentOwnerships(u)
    BY <1>2, <1>3, <1>4 DEF CurrentOwnerships, Sales
  <2> QED
    BY <2>1, <2>2 DEF CurrentOwnerships, Sales
<1> QED
  BY <1>8, <1>9

\* A commit adds one link to the chain of its unit, at the end.
LEMMA CommitChains ==
  ASSUME LedgerInv, ChainInv, NEW q, CommitReads(q), NEW s \in Sales, Recorded(q, s)
  PROVE  ChainInv'
<1> DEFINE v == q.unit
<1>a. /\ sale'[s].unit = v /\ Exists(sale, s)' /\ Exists(own, s)'
      /\ own'[s].prev = q.row /\ own'[s].start = q.date /\ own'[s].end = None
  BY DEF Recorded, NewSale, NewOwnership, Exists
<1>b. \A t \in Sales \ {s} : /\ Exists(sale, t)' <=> Exists(sale, t)
                             /\ sale'[t].unit = sale[t].unit
                             /\ Exists(own, t)' <=> Exists(own, t)
                             /\ own'[t].prev = own[t].prev /\ own'[t].start = own[t].start
                             /\ own'[t].end = IF t = q.row THEN q.date ELSE own[t].end
  BY DEF Recorded, Exists
<1>c. /\ v \in Units /\ q.date # None /\ q.row \in Sales \cup {None}
      /\ q.row \in Sales => /\ Exists(own, q.row) /\ sale[q.row].unit = v
                            /\ own[q.row].end = None /\ own[q.row].start <= q.date
  BY DEF CommitReads
<1>d. s # q.row /\ ~Exists(own, s) /\ ~Exists(sale, s) /\ s # None
  BY IdsAreNat DEF Recorded
<1>e. /\ CurrentOwnerships(v)' = {s}
      /\ \A u \in Units \ {v} : CurrentOwnerships(u)' = CurrentOwnerships(u)
  BY CommitOwners
<1>f. \A t \in Sales : Exists(own, t) <=> Exists(sale, t)
  BY DEF ChainInv, TablesAligned, LedgerInv, OwnedWasSold
<1>g. \A t \in Sales : Exists(sale, t) => t < s
  <2>1. \A t \in Sales : s < t => ~Exists(sale, t)
    BY <1>d DEF ChainInv, TablesAligned
  <2> QED
    BY <2>1, <1>d, IdsAreNat
<1>h. \A t \in Sales : own[t].prev # None => own[t].prev \in Sales
  BY DEF LedgerInv, TypeOK, OwnRow
<1>i. q.row = None => \A t \in Sales : Exists(own, t) => sale[t].unit # v
  <2>1. q.row = None => CurrentOwnerships(v) = {}
    BY DEF CommitReads
  <2> QED
    BY <2>1, <1>f DEF ChainInv, LatestOwns
<1>1. TablesAligned'
  <2>1. \A t \in Sales : /\ Exists(sale, t)' => Exists(own, t)' /\ sale'[t].unit \in Units
                         /\ ~Exists(sale, t)' => sale'[t].unit = None
    BY <1>a, <1>b, <1>c DEF ChainInv, TablesAligned
  <2>2. \A t, w \in Sales : t < w /\ Exists(sale, w)' => Exists(sale, t)'
    BY <1>a, <1>b DEF Recorded, ChainInv, TablesAligned
  <2> QED
    BY <2>1, <2>2 DEF TablesAligned, Sales
<1>2. LatestOwns'
  <2> SUFFICES ASSUME NEW t \in Sales, Exists(sale, t)'
               PROVE  \E w \in CurrentOwnerships(sale[t].unit)' : t <= w
    BY DEF LatestOwns, Sales
  <2>1. CASE sale'[t].unit = v
    BY <2>1, <1>b, <1>e, <1>g, IdsAreNat
  <2>2. CASE sale'[t].unit # v
    <3>1. t # s /\ Exists(sale, t) /\ sale'[t].unit = sale[t].unit
      BY <2>2, <1>a, <1>b
    <3>2. sale[t].unit \in Units \ {v}
      BY <3>1, <2>2 DEF ChainInv, TablesAligned
    <3> QED
      BY <3>1, <3>2, <1>e DEF ChainInv, LatestOwns
  <2> QED
    BY <2>1, <2>2
<1>3. LinkedBack'
  <2> SUFFICES ASSUME NEW t \in Sales, Exists(own, t)'
               PROVE  /\ own'[t].start # None
                      /\ own'[t].prev # None =>
                           /\ Exists(own, own[t].prev)'
                           /\ sale'[own'[t].prev].unit = sale'[t].unit
                           /\ own'[t].start = own'[own'[t].prev].end
                           /\ own'[own'[t].prev].start <= own'[t].start
    BY DEF LinkedBack, Sales
  <2>1. CASE t = s
    BY <2>1, <1>a, <1>b, <1>c, <1>d
  <2>2. CASE t # s
    <3>1. /\ own[t].start # None
          /\ own[t].prev # None =>
               /\ Exists(own, own[t].prev) /\ sale[own[t].prev].unit = sale[t].unit
               /\ own[t].start = own[own[t].prev].end
               /\ own[own[t].prev].start <= own[t].start
      BY <2>2, <1>b DEF ChainInv, LinkedBack
    <3>2. own[t].prev # None => own[t].prev \in Sales \ {s, q.row}
      BY <3>1, <1>c, <1>d, <1>h
    <3> QED
      BY <2>2, <3>1, <3>2, <1>b
  <2> QED
    BY <2>1, <2>2
<1>4. NoForks'
  <2>1. \A t \in Sales \ {s} : Exists(own, t)' /\ own'[t].prev = q.row => sale'[t].unit # v
    <3> SUFFICES ASSUME NEW t \in Sales \ {s}, Exists(own, t), own[t].prev = q.row
                 PROVE  sale[t].unit # v
      BY <1>b
    <3>1. CASE q.row = None
      BY <3>1, <1>i
    <3>2. CASE q.row # None
      <4>1. own[t].start = own[q.row].end /\ own[t].start # None
        BY <3>2 DEF ChainInv, LinkedBack
      <4> QED
        BY <3>2, <4>1, <1>c
    <3> QED
      BY <3>1, <3>2
  <2>2. \A t, w \in Sales \ {s} : Exists(own, t)' /\ Exists(own, w)' /\ own'[t].prev = own'[w].prev
                                    /\ sale'[t].unit = sale'[w].unit => t = w
    BY <1>b DEF ChainInv, NoForks
  <2> QED
    BY <2>1, <2>2, <1>a DEF NoForks, Sales
<1>5. Unbroken'
  <2> SUFFICES ASSUME NEW t \in Sales, Exists(own, t)'
               PROVE  /\ \E w \in Sales : /\ Exists(own, w)' /\ own'[w].prev = None
                                          /\ sale'[w].unit = sale'[t].unit
                      /\ own'[t].end # None =>
                           \E w \in Sales : Exists(own, w)' /\ own'[w].prev = t
    BY DEF Unbroken, Sales
  <2>1. \A z \in Sales : Exists(own, z) =>
          \E w \in Sales \ {s} : /\ Exists(own, w) /\ sale[w].unit = sale[z].unit
                                 /\ own[w].prev = None
    BY <1>d DEF ChainInv, Unbroken
  <2>2. \A z \in Sales \ {s} : Exists(own, z) =>
          \E w \in Sales \ {s} : /\ Exists(own, w)' /\ sale'[w].unit = sale'[z].unit
                                 /\ own'[w].prev = None
    BY <2>1, <1>b
  <2>3. CASE t = s
    <3>1. CASE q.row = None
      BY <2>3, <3>1, <1>a
    <3>2. CASE q.row # None
      BY <2>2, <2>3, <3>2, <1>a, <1>b, <1>c, <1>d
    <3> QED
      BY <3>1, <3>2, <1>a, <2>3
  <2>4. CASE t # s
    <3>1. \E w \in Sales : /\ Exists(own, w)' /\ own'[w].prev = None
                           /\ sale'[w].unit = sale'[t].unit
      BY <2>2, <2>4, <1>b
    <3>2. CASE t = q.row
      BY <3>1, <3>2, <1>a
    <3>3. CASE t # q.row
      <4>1. own'[t].end # None => \E w \in Sales \ {s} : Exists(own, w) /\ own[w].prev = t
        BY <2>4, <3>3, <1>b, <1>d DEF ChainInv, Unbroken
      <4> QED
        BY <3>1, <4>1, <1>b
    <3> QED
      BY <3>2, <3>3
  <2> QED
    BY <2>3, <2>4
<1> QED
  BY <1>1, <1>2, <1>3, <1>4, <1>5 DEF ChainInv

-----------------------------------------------------------------------------
(* What requests rely on, and the bookings that sales used up *)

\* The other requests go on knowing what they knew, when a step of r leaves
\* alone the units and bookings that they have locked.
LEMMA KnowsKept ==
  ASSUME LedgerInv, \A p \in Requests : RequestKnows(p), NEW r \in Requests,
         \A p \in Requests \ {r} : req'[p] = req[p],
         \A p \in Requests \ {r} : req[p].step \in SellSteps =>
           unit'[req[p].unit] = unit[req[p].unit],
         \A p \in Requests \ {r} :
           req[p].step \in {"sell_booking", "sell_owner"} /\ req[p].booking # None =>
             booking'[req[p].booking] = booking[req[p].booking],
         \A s \in Sales : Exists(sale, s) => Exists(sale, s)',
         RequestKnows(r)'
  PROVE  \A p \in Requests : RequestKnows(p)'
<1> SUFFICES ASSUME NEW p \in Requests \ {r} PROVE RequestKnows(p)'
  OBVIOUS
<1>1. req'[p] = req[p] /\ RequestKnows(p)
  OBVIOUS
<1>2. req[p].step \in SellSteps => Sellable(req[p].unit)'
  BY <1>1 DEF RequestKnows, Sellable
<1>3. req[p].step \in {"sell_booking", "sell_owner"} /\ req[p].booking # None
        => Convertible(req[p].booking, req[p].unit)'
  BY <1>1 DEF RequestKnows, Convertible
<1>4. req[p].step = "end_sale" => Exists(sale, req[p].row)'
  BY <1>1 DEF RequestKnows, LedgerInv, ReqInv
<1> QED
  BY <1>1, <1>2, <1>3, <1>4 DEF RequestKnows, Sellable, Convertible, Exists

\* A request that has ended relies on nothing.
LEMMA IdleKnows ==
  ASSUME NEW r \in Requests, req'[r] = Idle
  PROVE  RequestKnows(r)'
  BY DEF RequestKnows, Idle, SellSteps

\* Requests that only r's record tells apart: a read, a lock or an end.
LEMMA OnlyRequestMoves ==
  ASSUME DealInv, NEW r \in Requests, UNCHANGED <<unit, history, booking, sale, own, converted>>,
         \A p \in Requests \ {r} : req'[p] = req[p],
         LedgerInv', RequestKnows(r)'
  PROVE  DealInv'
<1>1. \A p \in Requests : RequestKnows(p)'
  BY KnowsKept DEF DealInv, Exists
<1>2. ChainInv'
  BY ChainKept DEF DealInv, LedgerInv, SameLedger, Exists
<1>3. SoldBookings'
  BY DEF DealInv, SoldBookings, Exists
<1>4. HistoryEnds'
  BY DEF DealInv, HistoryEnds
<1>5. HistoryMatchesSales'
  BY DEF DealInv, HistoryMatchesSales
<1> QED
  BY <1>1, <1>2, <1>3, <1>4, <1>5 DEF DealInv

\* Rows of sales that keep unit and booking, bookings that sales used up and
\* that keep unit and lead, and no booking newly marked converted.
LEMMA BookingsKept ==
  ASSUME SoldBookings, TypeOK,
         \A s \in Sales : /\ Exists(sale, s)' <=> Exists(sale, s)
                          /\ sale'[s].unit = sale[s].unit
                          /\ sale'[s].booking = sale[s].booking,
         \A b \in Bookings : booking[b].status \in {"converted", "cancelled"} =>
           /\ booking'[b].status \in {"converted", "cancelled"}
           /\ booking'[b].unit = booking[b].unit /\ booking'[b].lead = booking[b].lead,
         \A b \in Bookings : booking'[b].status = "converted" => booking[b].status = "converted",
         converted' = converted
  PROVE  SoldBookings'
<1>1. \A s \in Sales : sale[s].booking # None => sale[s].booking \in Bookings
  BY DEF TypeOK, SaleRow
<1>2. \A s \in Sales : Exists(sale, s)' /\ sale'[s].booking # None =>
       /\ booking'[sale'[s].booking].status \in {"converted", "cancelled"}
       /\ booking'[sale'[s].booking].unit = sale'[s].unit
  BY <1>1 DEF SoldBookings
<1>3. \A s, t \in Sales : Exists(sale, s)' /\ Exists(sale, t)' /\ sale'[s].booking # None
                            /\ sale'[s].booking = sale'[t].booking => s = t
  BY DEF SoldBookings
<1>4. \A b \in Bookings : booking'[b].status = "converted" =>
        \E s \in Sales : Exists(sale, s)' /\ sale'[s].booking = b
  BY DEF SoldBookings
<1>5. \A l \in converted' : \E s \in Sales :
        Exists(sale, s)' /\ sale'[s].booking # None /\ booking'[sale'[s].booking].lead = l
  <2> SUFFICES ASSUME NEW l \in converted
               PROVE  \E s \in Sales : Exists(sale, s)' /\ sale'[s].booking # None
                                         /\ booking'[sale'[s].booking].lead = l
    OBVIOUS
  <2>1. PICK s \in Sales :
          Exists(sale, s) /\ sale[s].booking # None /\ booking[sale[s].booking].lead = l
    BY DEF SoldBookings
  <2>2. sale[s].booking \in Bookings /\ booking[sale[s].booking].status \in {"converted", "cancelled"}
    BY <1>1, <2>1 DEF SoldBookings
  <2> QED
    BY <2>1, <2>2
<1> QED
  BY <1>2, <1>3, <1>4, <1>5 DEF SoldBookings, Sales, Bookings

\* The commit uses up the booking it names, which no sale had used.
LEMMA CommitBooks ==
  ASSUME LedgerInv, SoldBookings, NEW r \in Requests, RequestKnows(r), SellCommit(r),
         NEW s \in Sales, Recorded(req[r], s)
  PROVE  SoldBookings'
<1> DEFINE b == req[r].booking
<1>a. TypeOK /\ req[r].step = "sell_owner" /\ b \in Bookings \cup {None}
  BY DEF SellCommit, LedgerInv, TypeOK, ReqRow
<1>b. \A t \in Sales : sale[t].booking # None => sale[t].booking \in Bookings
  BY <1>a DEF TypeOK, SaleRow
<1>c. booking \in [Bookings -> BookingRow]
  BY <1>a DEF TypeOK
<1>1. /\ Exists(sale, s)' /\ ~Exists(sale, s)
      /\ sale'[s].booking = b /\ sale'[s].unit = req[r].unit
  BY DEF Recorded, NewSale, Exists
<1>2. \A t \in Sales \ {s} : sale'[t] = sale[t] /\ (Exists(sale, t)' <=> Exists(sale, t))
  BY DEF Recorded, Exists
<1>3. b # None => booking[b].unit = req[r].unit /\ booking[b].status = "active"
  BY <1>a DEF RequestKnows, Convertible
<1>4. \A c \in Bookings : /\ c # b => booking'[c] = booking[c]
                          /\ c = b => booking'[c] = [booking[c] EXCEPT !.status = "converted"]
  BY DEF SellCommit
<1>5. \A c \in Bookings : /\ booking'[c].lead = booking[c].lead
                          /\ booking'[c].unit = booking[c].unit
                          /\ c = b => booking'[c].status = "converted"
  BY <1>4, <1>c DEF BookingRow
<1>6. b # None => \A t \in Sales : Exists(sale, t) => sale[t].booking # b
  BY <1>3 DEF SoldBookings
<1>7. \A t \in Sales : Exists(sale, t)' /\ sale'[t].booking # None =>
       /\ booking'[sale'[t].booking].status \in {"converted", "cancelled"}
       /\ booking'[sale'[t].booking].unit = sale'[t].unit
  <2> SUFFICES ASSUME NEW t \in Sales, Exists(sale, t)', sale'[t].booking # None
               PROVE  /\ booking'[sale'[t].booking].status \in {"converted", "cancelled"}
                      /\ booking'[sale'[t].booking].unit = sale'[t].unit
    OBVIOUS
  <2>1. CASE t = s
    BY <2>1, <1>a, <1>1, <1>3, <1>5
  <2>2. CASE t # s
    <3>1. /\ Exists(sale, t) /\ sale[t].booking # None /\ sale[t].booking \in Bookings \ {b}
          /\ sale'[t] = sale[t]
      BY <2>2, <1>b, <1>2, <1>6
    <3>2. booking'[sale[t].booking] = booking[sale[t].booking]
      BY <3>1, <1>4
    <3>3. /\ booking[sale[t].booking].status \in {"converted", "cancelled"}
          /\ booking[sale[t].booking].unit = sale[t].unit
      BY <3>1 DEF SoldBookings
    <3> QED
      BY <3>1, <3>2, <3>3
  <2> QED
    BY <2>1, <2>2
<1>8. \A t, w \in Sales : Exists(sale, t)' /\ Exists(sale, w)' /\ sale'[t].booking # None
                            /\ sale'[t].booking = sale'[w].booking => t = w
  BY <1>1, <1>2, <1>6 DEF SoldBookings
<1>9. \A c \in Bookings : booking'[c].status = "converted" =>
        \E t \in Sales : Exists(sale, t)' /\ sale'[t].booking = c
  <2> SUFFICES ASSUME NEW c \in Bookings, c # b, booking[c].status = "converted"
               PROVE  \E t \in Sales : Exists(sale, t)' /\ sale'[t].booking = c
    BY <1>1, <1>4
  <2>1. PICK t \in Sales : Exists(sale, t) /\ sale[t].booking = c
    BY DEF SoldBookings
  <2> QED
    BY <2>1, <1>1, <1>2
<1>10. \A l \in converted' : \E t \in Sales :
         Exists(sale, t)' /\ sale'[t].booking # None /\ booking'[sale'[t].booking].lead = l
  <2> SUFFICES ASSUME NEW l \in converted'
               PROVE  \E t \in Sales : Exists(sale, t)' /\ sale'[t].booking # None
                                         /\ booking'[sale'[t].booking].lead = l
    OBVIOUS
  <2>1. CASE l \in converted
    <3>1. PICK t \in Sales :
            Exists(sale, t) /\ sale[t].booking # None /\ booking[sale[t].booking].lead = l
      BY <2>1 DEF SoldBookings
    <3>2. t # s /\ sale[t].booking \in Bookings
      BY <3>1, <1>1, <1>b
    <3> QED
      BY <3>1, <3>2, <1>2, <1>5
  <2>2. CASE l \notin converted
    <3>1. b # None /\ booking[b].lead = l
      BY <2>2 DEF SellCommit
    <3> QED
      BY <3>1, <1>a, <1>1, <1>5
  <2> QED
    BY <2>1, <2>2
<1> QED
  BY <1>7, <1>8, <1>9, <1>10 DEF SoldBookings, Sales, Bookings

-----------------------------------------------------------------------------
(* The history against the sales *)

\* Where e stands in a sequence.
Places(h, e) == {i \in DOMAIN h : h[i] = e}

\* Appending another value leaves the places of e alone.
LEMMA AppendOther ==
  ASSUME NEW S, NEW h \in Seq(S), NEW x \in S, NEW e, x # e
  PROVE  Places(Append(h, x), e) = Places(h, e)
<1>1. /\ Len(h) \in Nat /\ DOMAIN h = 1..Len(h) /\ DOMAIN Append(h, x) = 1..(Len(h) + 1)
      /\ Append(h, x)[Len(h) + 1] = x
      /\ \A i \in 1..Len(h) : Append(h, x)[i] = h[i]
  BY AppendProperties, LenProperties
<1> QED
  BY <1>1 DEF Places

\* Appending e adds one place to those of e.
LEMMA AppendSame ==
  ASSUME NEW S, NEW h \in Seq(S), NEW e \in S
  PROVE  /\ Places(Append(h, e), e) = Places(h, e) \cup {Len(h) + 1}
         /\ Cardinality(Places(Append(h, e), e)) = Cardinality(Places(h, e)) + 1
<1>1. /\ Len(h) \in Nat /\ DOMAIN h = 1..Len(h) /\ DOMAIN Append(h, e) = 1..(Len(h) + 1)
      /\ Append(h, e)[Len(h) + 1] = e
      /\ \A i \in 1..Len(h) : Append(h, e)[i] = h[i]
  BY AppendProperties, LenProperties
<1>2. Places(Append(h, e), e) = Places(h, e) \cup {Len(h) + 1} /\ Len(h) + 1 \notin Places(h, e)
  BY <1>1 DEF Places
<1>3. IsFiniteSet(Places(h, e))
  <2>1. IsFiniteSet(1..Len(h))
    BY <1>1, FS_Interval
  <2>2. Places(h, e) \in SUBSET (1..Len(h))
    BY <1>1 DEF Places
  <2> QED
    BY <2>1, <2>2, FS_Subset
<1> QED
  BY <1>2, <1>3, FS_AddElement

\* A status write that is not a sale: the history ends with the new status, and
\* the service's "sold" entries stay as they were.
LEMMA StatusKeepsHistory ==
  ASSUME TypeOK, HistoryEnds, HistoryMatchesSales, UNCHANGED sale,
         NEW u \in Units, NEW to \in UnitStatuses, NEW by \in {"service", "direct"},
         SetStatus(u, to, by), to = "sold" => by = "direct"
  PROVE  HistoryEnds' /\ HistoryMatchesSales'
<1> DEFINE h == history[u]
           e == [status |-> to, by |-> by]
<1>a. history \in [Units -> Seq(HistoryEntry)] /\ unit \in [Units -> UnitStatuses \cup {"absent"}]
  BY DEF TypeOK
<1>b. unit'[u] = to /\ \A w \in Units \ {u} : unit'[w] = unit[w] /\ history'[w] = history[w]
  BY <1>a DEF SetStatus
<1>c. history'[u] = IF unit[u] = to THEN history[u] ELSE Append(history[u], e)
  BY <1>a DEF SetStatus
<1>d. h \in Seq(HistoryEntry) /\ e \in HistoryEntry /\ e.status = to /\ e # Sold
  <2>1. e # Sold
    <3> SUFFICES ASSUME e = Sold PROVE FALSE
      OBVIOUS
    <3>1. e.status = "sold" /\ e.by = "service"
      BY DEF Sold
    <3> QED
      BY <3>1
  <2> QED
    BY <1>a, <2>1 DEF HistoryEntry
<1> HIDE DEF e
<1>e. /\ Len(h) \in Nat /\ DOMAIN h = 1..Len(h) /\ DOMAIN Append(h, e) = 1..(Len(h) + 1)
      /\ Len(Append(h, e)) = Len(h) + 1
      /\ Append(h, e)[Len(h) + 1] = e
      /\ \A i \in 1..Len(h) : Append(h, e)[i] = h[i]
  BY <1>d, AppendProperties, LenProperties
<1>1. HistoryEnds'
  <2>1. history'[u] # <<>> => history'[u][Len(history'[u])].status = unit'[u]
    BY <1>b, <1>c, <1>d, <1>e DEF HistoryEnds
  <2> QED
    BY <2>1, <1>b DEF HistoryEnds
<1>3. {i \in DOMAIN history'[u] : history'[u][i] = Sold} = {i \in DOMAIN h : h[i] = Sold}
  <2>1. Places(history'[u], Sold) = Places(h, Sold)
    BY <1>c, <1>d, AppendOther
  <2> QED
    BY <2>1 DEF Places
<1>4. \A i \in DOMAIN h : history'[u][i] = h[i]
  BY <1>c, <1>e
<1>5. \A i \in {j \in DOMAIN h : h[j] = Sold} : i > 1 => history'[u][i - 1] = h[i - 1]
  BY <1>4, <1>e
<1>6. HistoryMatchesSales'
  <2> SUFFICES ASSUME NEW w \in Units
               PROVE  LET sold == {i \in DOMAIN history'[w] : history'[w][i] = Sold} IN
                      /\ Cardinality(sold) = Cardinality({s \in Sales : sale'[s].unit = w})
                      /\ \A i \in sold : i > 1 => history'[w][i - 1].status \in {"hold", "reserved"}
    BY DEF HistoryMatchesSales, Sales, Sold
  <2>1. CASE w = u
    BY <2>1, <1>3, <1>5 DEF HistoryMatchesSales
  <2>2. CASE w # u
    BY <2>2, <1>b DEF HistoryMatchesSales
  <2> QED
    BY <2>1, <2>2
<1> QED
  BY <1>1, <1>6

\* The commit appends "sold" after the reservation it used up, and one sale.
LEMMA CommitHistory ==
  ASSUME LedgerInv, ChainInv, HistoryEnds, HistoryMatchesSales,
         NEW r \in Requests, RequestKnows(r), SellCommit(r),
         CommitReads(req[r]), NEW s \in Sales, Recorded(req[r], s)
  PROVE  HistoryEnds' /\ HistoryMatchesSales'
<1> DEFINE u == req[r].unit
           h == history[u]
<1>a. history \in [Units -> Seq(HistoryEntry)] /\ unit \in [Units -> UnitStatuses \cup {"absent"}]
  BY DEF TypeOK, LedgerInv
<1>b. u \in Units /\ SetStatus(u, "sold", "service") /\ unit[u] \in {"hold", "reserved"}
  BY DEF CommitReads, SellCommit, RequestKnows, Sellable, SellSteps
<1>c. /\ unit'[u] = "sold" /\ history'[u] = Append(h, Sold)
      /\ \A w \in Units \ {u} : unit'[w] = unit[w] /\ history'[w] = history[w]
  BY <1>a, <1>b DEF SetStatus, Sold
<1>d. h \in Seq(HistoryEntry) /\ Sold \in HistoryEntry /\ Sold.status = "sold"
  BY <1>a, <1>b DEF HistoryEntry, UnitStatuses, Sold
<1>e. /\ Len(h) \in Nat /\ DOMAIN h = 1..Len(h) /\ Len(Append(h, Sold)) = Len(h) + 1
      /\ Append(h, Sold)[Len(h) + 1] = Sold
      /\ \A i \in 1..Len(h) : Append(h, Sold)[i] = h[i]
  BY <1>d, AppendProperties, LenProperties
<1>f. /\ sale'[s].unit = u /\ sale[s].unit = None /\ None \notin Units
      /\ \A t \in Sales \ {s} : sale'[t] = sale[t]
  BY IdAssumption DEF Recorded, NewSale, ChainInv, TablesAligned
<1>1. HistoryEnds'
  <2>1. history'[u][Len(history'[u])].status = unit'[u]
    BY <1>c, <1>d, <1>e
  <2> QED
    BY <2>1, <1>c DEF HistoryEnds
<1>3. HistoryMatchesSales'
  <2> SUFFICES ASSUME NEW w \in Units
               PROVE  LET sold == {i \in DOMAIN history'[w] : history'[w][i] = Sold} IN
                      /\ Cardinality(sold) = Cardinality({t \in Sales : sale'[t].unit = w})
                      /\ \A i \in sold : i > 1 => history'[w][i - 1].status \in {"hold", "reserved"}
    BY DEF HistoryMatchesSales, Sales, Sold
  <2>1. CASE w = u
    <3> DEFINE before == Places(h, Sold)
               after  == Places(history'[u], Sold)
               mine   == {t \in Sales : sale[t].unit = u}
    <3>1. after = before \cup {Len(h) + 1} /\ Cardinality(after) = Cardinality(before) + 1
      BY <1>c, <1>d, AppendSame
    <3>2. {t \in Sales : sale'[t].unit = u} = mine \cup {s} /\ s \notin mine
      BY <1>b, <1>f
    <3>3. IsFiniteSet(mine)
      <4>1. IsFiniteSet(Sales)
        BY FS_Interval, IdAssumption DEF Sales
      <4> QED
        BY <4>1, FS_Subset
    <3>4. Cardinality(mine \cup {s}) = Cardinality(mine) + 1
      <4> HIDE DEF mine
      <4> QED
        BY <3>2, <3>3, FS_AddElement
    <3>5. Cardinality(before) = Cardinality(mine)
      BY <1>b DEF HistoryMatchesSales, Places
    <3>6. \A i \in after : i > 1 => history'[u][i - 1].status \in {"hold", "reserved"}
      <4> SUFFICES ASSUME NEW i \in after, i > 1
                   PROVE  history'[u][i - 1].status \in {"hold", "reserved"}
        OBVIOUS
      <4>1. CASE i \in before
        <5>1. h[i - 1].status \in {"hold", "reserved"}
          BY <4>1, <1>b DEF HistoryMatchesSales, Places
        <5>2. i - 1 \in 1..Len(h)
          BY <4>1, <1>e DEF Places
        <5> QED
          BY <5>1, <5>2, <1>c, <1>e
      <4>2. CASE i = Len(h) + 1
        <5>1. h # <<>> /\ Len(h) \in 1..Len(h)
          BY <4>2, <1>e
        <5>2. h[Len(h)].status = unit[u]
          BY <5>1, <1>b DEF HistoryEnds
        <5>3. history'[u][Len(h)] = h[Len(h)]
          BY <5>1, <1>c, <1>e
        <5> QED
          BY <4>2, <5>2, <5>3, <1>b, <1>e
      <4> QED
        BY <4>1, <4>2, <3>1
    <3> HIDE DEF before, after, mine
    <3>7. Cardinality(after) = Cardinality({t \in Sales : sale'[t].unit = u})
      BY <3>1, <3>2, <3>4, <3>5
    <3> QED
      BY <2>1, <3>6, <3>7 DEF after, Places
  <2>2. CASE w # u
    <3>1. history'[w] = history[w] /\ {t \in Sales : sale'[t].unit = w} = {t \in Sales : sale[t].unit = w}
      BY <2>2, <1>c, <1>f
    <3> QED
      BY <3>1 DEF HistoryMatchesSales
  <2> QED
    BY <2>1, <2>2
<1> QED
  BY <1>1, <1>3

-----------------------------------------------------------------------------
(* The invariant of the whole pipeline is inductive *)

\* The empty database has no chain, no history and nothing converted.
LEMMA InitDeal == Init => DealInv
<1> SUFFICES ASSUME Init PROVE DealInv
  OBVIOUS
<1>1. LedgerInv
  BY InitInv
<1>2. \A s \in Sales : /\ ~Exists(own, s) /\ ~Exists(sale, s)
                       /\ sale[s].unit = None
  BY DEF Init, Exists
<1>3. \A r \in Requests : RequestKnows(r)
  BY DEF Init, RequestKnows, Idle, SellSteps
<1>4. ChainInv
  BY <1>2 DEF ChainInv, TablesAligned, LatestOwns, LinkedBack, NoForks, Unbroken
<1>5. SoldBookings
  BY <1>2 DEF Init, SoldBookings
<1>6. HistoryEnds
  BY DEF Init, HistoryEnds
<1>7. HistoryMatchesSales
  <2> SUFFICES ASSUME NEW u \in Units
               PROVE  LET sold == {i \in DOMAIN history[u] : history[u][i] = Sold} IN
                      /\ Cardinality(sold) = Cardinality({s \in Sales : sale[s].unit = u})
                      /\ \A i \in sold : i > 1 => history[u][i - 1].status \in {"hold", "reserved"}
    BY DEF HistoryMatchesSales
  <2>1. {i \in DOMAIN history[u] : history[u][i] = Sold} = {}
    BY DEF Init
  <2>2. {s \in Sales : sale[s].unit = u} = {}
    BY <1>2, IdAssumption
  <2> QED
    BY <2>1, <2>2
<1> QED
  BY <1>1, <1>3, <1>4, <1>5, <1>6, <1>7 DEF DealInv

\* Starting a request: what it reads, or the unit it locks, is as it has to be.
LEMMA StartDeal ==
  ASSUME DealInv, LedgerInv', NEW r \in Requests, Start(r)
  PROVE  DealInv'
<1>a. req \in [Requests -> ReqRow]
  BY DEF DealInv, LedgerInv, TypeOK
<1> USE DEF Goto
<1>1. ASSUME NEW u \in Units, NEW to \in {"hold", "reserved"}, ReserveRead(r, u, to)
      PROVE DealInv'
  <2>1. /\ req'[r].step = "reserve"
        /\ \A p \in Requests \ {r} : req'[p] = req[p]
    BY <1>1, <1>a DEF ReserveRead, Idle
  <2> QED
    BY <1>1, <2>1, OnlyRequestMoves DEF ReserveRead, RequestKnows, SellSteps
<1>2. ASSUME NEW u \in Units, NEW b \in Bookings \cup {None}, NEW d \in Dates,
             SellLockUnit(r, u, b, d)
      PROVE DealInv'
  <2>1. /\ req'[r].step \in {"sell_unit", "sell_booking"}
        /\ req'[r].step = "sell_booking" => req'[r].booking = None
        /\ req'[r].unit = u
        /\ \A p \in Requests \ {r} : req'[p] = req[p]
    BY <1>2, <1>a DEF SellLockUnit, Idle
  <2>2. Sellable(u)'
    BY <1>2 DEF SellLockUnit, Sellable
  <2>3. RequestKnows(r)'
    BY <2>1, <2>2 DEF RequestKnows, Sellable
  <2> QED
    BY <1>2, <2>1, <2>3, OnlyRequestMoves DEF SellLockUnit
<1>3. ASSUME NEW b \in Bookings, CancelRead(r, b) PROVE DealInv'
  <2>1. /\ req'[r].step = "cancel"
        /\ \A p \in Requests \ {r} : req'[p] = req[p]
    BY <1>3, <1>a DEF CancelRead, Idle
  <2> QED
    BY <1>3, <2>1, OnlyRequestMoves DEF CancelRead, RequestKnows, SellSteps
<1>4. ASSUME NEW s \in Sales, NEW to \in {"cancelled", "reversed"}, EndSaleRead(r, s, to)
      PROVE DealInv'
  <2>1. /\ req'[r].step = "end_sale" /\ req'[r].row = s /\ Exists(sale, s)'
        /\ \A p \in Requests \ {r} : req'[p] = req[p]
    BY <1>4, <1>a DEF EndSaleRead, Idle, Exists
  <2> QED
    BY <1>4, <2>1, OnlyRequestMoves DEF EndSaleRead, RequestKnows, SellSteps, Exists
<1>5. ASSUME NEW o \in Sales, ReverseRead(r, o) PROVE DealInv'
  <2>1. /\ req'[r].step = "reverse"
        /\ \A p \in Requests \ {r} : req'[p] = req[p]
    BY <1>5, <1>a DEF ReverseRead, Idle
  <2> QED
    BY <1>5, <2>1, OnlyRequestMoves DEF ReverseRead, RequestKnows, SellSteps
<1>6. ASSUME NEW o \in Sales, ListRead(r, o) PROVE DealInv'
  <2>1. /\ req'[r].step = "list"
        /\ \A p \in Requests \ {r} : req'[p] = req[p]
    BY <1>6, <1>a DEF ListRead, Idle
  <2> QED
    BY <1>6, <2>1, OnlyRequestMoves DEF ListRead, RequestKnows, SellSteps
<1>7. ASSUME NEW l \in Listings, WithdrawRead(r, l) PROVE DealInv'
  <2>1. /\ req'[r].step = "withdraw"
        /\ \A p \in Requests \ {r} : req'[p] = req[p]
    BY <1>7, <1>a DEF WithdrawRead, Idle
  <2> QED
    BY <1>7, <2>1, OnlyRequestMoves DEF WithdrawRead, RequestKnows, SellSteps
<1> QED
  BY <1>1, <1>2, <1>3, <1>4, <1>5, <1>6, <1>7 DEF Start

\* Ending a request without writing.
LEMMA EndedDeal ==
  ASSUME DealInv, LedgerInv', NEW r \in Requests, Goto(r, Idle),
         UNCHANGED <<unit, history, booking, sale, own, converted>>
  PROVE  DealInv'
<1>1. req'[r] = Idle /\ \A p \in Requests \ {r} : req'[p] = req[p]
  BY DEF Goto, DealInv, LedgerInv, TypeOK
<1> QED
  BY <1>1, IdleKnows, OnlyRequestMoves

\* A status write elsewhere than in a sale, on a unit no sale has locked.
LEMMA StatusDeal ==
  ASSUME DealInv, LedgerInv', NEW u \in Units, ~UnitLocked(u),
         NEW to \in UnitStatuses, NEW by \in {"service", "direct"},
         SetStatus(u, to, by), to = "sold" => by = "direct",
         UNCHANGED <<booking, sale, own, converted>>,
         UNCHANGED req \/ \E r \in Requests : Goto(r, Idle)
  PROVE  DealInv'
<1>a. unit \in [Units -> UnitStatuses \cup {"absent"}] /\ req \in [Requests -> ReqRow]
  BY DEF DealInv, LedgerInv, TypeOK
<1>1. \A w \in Units \ {u} : unit'[w] = unit[w]
  BY <1>a DEF SetStatus
<1>2. \A p \in Requests : req[p].step \in SellSteps => req[p].unit \in Units \ {u}
  BY DEF UnitLocked, DealInv, LedgerInv, ReqInv
<1>3. \A p \in Requests : RequestKnows(p)'
  <2>1. CASE UNCHANGED req
    <3> SUFFICES ASSUME NEW p \in Requests PROVE RequestKnows(p)'
      OBVIOUS
    <3>1. RequestKnows(p) /\ req'[p] = req[p]
      BY <2>1 DEF DealInv
    <3>2. req[p].step \in SellSteps => Sellable(req[p].unit)'
      BY <3>1, <1>1, <1>2 DEF RequestKnows, Sellable
    <3> QED
      BY <3>1, <3>2 DEF RequestKnows, Sellable, Convertible, Exists
  <2>2. ASSUME NEW r \in Requests, Goto(r, Idle) PROVE \A p \in Requests : RequestKnows(p)'
    <3>1. req'[r] = Idle /\ \A p \in Requests \ {r} : req'[p] = req[p]
      BY <2>2, <1>a DEF Goto
    <3> QED
      BY <3>1, <1>1, <1>2, IdleKnows, KnowsKept DEF DealInv, Exists
  <2> QED
    BY <2>1, <2>2
<1>4. ChainInv'
  BY ChainKept DEF DealInv, LedgerInv, SameLedger, Exists
<1>5. SoldBookings'
  BY DEF DealInv, SoldBookings, Exists
<1>6. HistoryEnds' /\ HistoryMatchesSales'
  BY StatusKeepsHistory DEF DealInv, LedgerInv
<1> QED
  BY <1>3, <1>4, <1>5, <1>6 DEF DealInv

\* A booking is inserted or cancelled, and no sale has it locked.
LEMMA BookingDeal ==
  ASSUME DealInv, LedgerInv', UNCHANGED <<unit, history, sale, own, converted>>,
         NEW b,
         \A p \in Requests : req[p].step \in {"sell_booking", "sell_owner"} => req[p].booking # b,
         \A c \in Bookings \ {b} : booking'[c] = booking[c],
         b \in Bookings => booking'[b].status \in {"active", "cancelled"},
         b \in Bookings /\ booking[b].status \in {"converted", "cancelled"} =>
           /\ booking'[b].status = "cancelled"
           /\ booking'[b].unit = booking[b].unit /\ booking'[b].lead = booking[b].lead,
         UNCHANGED req \/ \E r \in Requests : Goto(r, Idle)
  PROVE  DealInv'
<1>a. req \in [Requests -> ReqRow] /\ TypeOK
  BY DEF DealInv, LedgerInv, TypeOK
<1>1. \A p \in Requests : req[p].step \in {"sell_booking", "sell_owner"} /\ req[p].booking # None
                            => booking'[req[p].booking] = booking[req[p].booking]
  BY <1>a DEF ReqRow
<1>2. \A p \in Requests : RequestKnows(p)'
  <2>1. CASE UNCHANGED req
    <3> SUFFICES ASSUME NEW p \in Requests PROVE RequestKnows(p)'
      OBVIOUS
    <3>1. RequestKnows(p) /\ req'[p] = req[p]
      BY <2>1 DEF DealInv
    <3>2. req[p].step \in {"sell_booking", "sell_owner"} /\ req[p].booking # None
            => Convertible(req[p].booking, req[p].unit)'
      BY <3>1, <1>1 DEF RequestKnows, Convertible
    <3> QED
      BY <3>1, <3>2 DEF RequestKnows, Sellable, Convertible, Exists
  <2>2. ASSUME NEW r \in Requests, Goto(r, Idle) PROVE \A p \in Requests : RequestKnows(p)'
    <3>1. req'[r] = Idle /\ \A p \in Requests \ {r} : req'[p] = req[p]
      BY <2>2, <1>a DEF Goto
    <3> QED
      BY <3>1, <1>1, IdleKnows, KnowsKept DEF DealInv, Exists
  <2> QED
    BY <2>1, <2>2
<1>3. ChainInv'
  BY <1>a, ChainKept DEF DealInv, SameLedger, Exists
<1>4. SoldBookings'
  <2>1. \A s \in Sales : /\ Exists(sale, s)' <=> Exists(sale, s)
                         /\ sale'[s].unit = sale[s].unit
                         /\ sale'[s].booking = sale[s].booking
    BY DEF Exists
  <2>2. \A c \in Bookings : booking[c].status \in {"converted", "cancelled"} =>
           /\ booking'[c].status \in {"converted", "cancelled"}
           /\ booking'[c].unit = booking[c].unit /\ booking'[c].lead = booking[c].lead
    OBVIOUS
  <2>3. \A c \in Bookings : booking'[c].status = "converted" => booking[c].status = "converted"
    OBVIOUS
  <2> QED
    BY <1>a, <2>1, <2>2, <2>3, BookingsKept DEF DealInv
<1>5. HistoryEnds'
  BY DEF DealInv, HistoryEnds
<1>6. HistoryMatchesSales'
  BY DEF DealInv, HistoryMatchesSales
<1> QED
  BY <1>2, <1>3, <1>4, <1>5, <1>6 DEF DealInv

\* A commit preserves the whole invariant.
LEMMA CommitDeal ==
  ASSUME DealInv, LedgerInv', NEW r \in Requests, SellCommit(r)
  PROVE  DealInv'
<1>a. LedgerInv /\ ChainInv /\ RequestKnows(r)
  BY DEF DealInv
<1>b. req \in [Requests -> ReqRow] /\ unit \in [Units -> UnitStatuses \cup {"absent"}]
  BY <1>a DEF LedgerInv, TypeOK
<1>1. CommitReads(req[r]) /\ \E s \in Sales : Recorded(req[r], s)
  BY <1>a, CommitRecords
<1>2. PICK s \in Sales : Recorded(req[r], s)
  BY <1>1
<1>3. ChainInv'
  BY <1>a, <1>1, <1>2, CommitChains
<1>4. SoldBookings'
  BY <1>a, <1>2, CommitBooks DEF DealInv
<1>5. HistoryEnds' /\ HistoryMatchesSales'
  BY <1>a, <1>1, <1>2, CommitHistory DEF DealInv
<1>6. \A p \in Requests : RequestKnows(p)'
  <2>1. req'[r] = Idle /\ \A p \in Requests \ {r} : req'[p] = req[p]
    BY <1>b DEF SellCommit, Goto
  <2>2. req[r].step = "sell_owner"
    BY DEF SellCommit
  <2>3. \A p \in Requests \ {r} : req[p].step \in SellSteps =>
          unit'[req[p].unit] = unit[req[p].unit]
    <3>1. \A p \in Requests \ {r} : req[p].step \in SellSteps =>
            req[p].unit \in Units \ {req[r].unit}
      BY <1>a, <2>2 DEF LedgerInv, LockExclusive, ReqInv, SellSteps
    <3>2. \A w \in Units \ {req[r].unit} : unit'[w] = unit[w]
      BY <1>b DEF SellCommit, SetStatus
    <3> QED
      BY <3>1, <3>2
  <2>4. \A p \in Requests \ {r} :
          req[p].step \in {"sell_booking", "sell_owner"} /\ req[p].booking # None =>
            booking'[req[p].booking] = booking[req[p].booking]
    <3>1. \A p \in Requests \ {r} :
            req[p].step \in {"sell_booking", "sell_owner"} /\ req[p].booking # None =>
              req[p].booking \in Bookings \ {req[r].booking}
      BY <1>a, <1>b, <2>2 DEF LedgerInv, BookingExclusive, BookingSteps, ReqRow
    <3>2. \A c \in Bookings \ {req[r].booking} : booking'[c] = booking[c]
      BY DEF SellCommit
    <3> QED
      BY <3>1, <3>2
  <2>5. \A t \in Sales : Exists(sale, t) => Exists(sale, t)'
    BY <1>2 DEF Recorded, Exists
  <2> QED
    BY <1>a, <2>1, <2>3, <2>4, <2>5, IdleKnows, KnowsKept DEF DealInv
<1> QED
  BY <1>3, <1>4, <1>5, <1>6 DEF DealInv

\* Every other write of a request, and every further lock it takes.
LEMMA ContinueDeal ==
  ASSUME DealInv, LedgerInv', NEW r \in Requests, Continue(r)
  PROVE  DealInv'
<1>a. LedgerInv /\ TypeOK /\ ReqInv(r) /\ RequestKnows(r)
  BY DEF DealInv, LedgerInv
<1>b. req \in [Requests -> ReqRow]
  BY <1>a DEF TypeOK
<1>1. CASE ReserveWrite(r)
  <2>1. /\ req[r].unit \in Units /\ req[r].to \in UnitStatuses /\ req[r].to # "sold"
        /\ ~UnitLocked(req[r].unit) /\ Goto(r, Idle)
    BY <1>1, <1>a DEF ReserveWrite, ReqInv, UnitStatuses
  <2>2. CASE SetStatus(req[r].unit, req[r].to, "service")
    BY <1>1, <2>1, <2>2, StatusDeal DEF ReserveWrite
  <2>3. CASE UNCHANGED <<unit, history>>
    BY <1>1, <2>1, <2>3, EndedDeal DEF ReserveWrite
  <2> QED
    BY <1>1, <2>2, <2>3 DEF ReserveWrite
<1>11. CASE CancelUpdate(r)
  <2>1. /\ req'[r].step = "cancel_held" /\ \A p \in Requests \ {r} : req'[p] = req[p]
    BY <1>11, <1>b DEF CancelUpdate, Goto, ReqRow
  <2>2. RequestKnows(r)'
    BY <2>1 DEF RequestKnows, SellSteps
  <2> QED
    BY <1>11, <2>1, <2>2, OnlyRequestMoves DEF CancelUpdate
<1>2. CASE CancelCommit(r)
  <2> DEFINE b == req[r].booking
  <2>1. booking \in [Bookings -> BookingRow]
    BY <1>a DEF TypeOK
  <2>2. /\ booking' = [booking EXCEPT ![b].status = "cancelled"]
        /\ req[r].step = "cancel_held" /\ Goto(r, Idle)
        /\ UNCHANGED <<unit, history, sale, own, converted>>
    BY <1>2 DEF CancelCommit
  <2>3. \A c \in Bookings \ {b} : booking'[c] = booking[c]
    BY <2>1, <2>2
  <2>4. b \in Bookings => /\ booking'[b].status = "cancelled"
                          /\ booking'[b].unit = booking[b].unit
                          /\ booking'[b].lead = booking[b].lead
    BY <2>1, <2>2 DEF BookingRow
  <2>5. b \in Bookings /\ b # None
    BY <2>2, <1>a, IdAssumption DEF ReqInv, Bookings
  <2>6. \A p \in Requests : req[p].step \in {"sell_booking", "sell_owner"} => req[p].booking # b
    BY <1>a, <2>2, <2>5 DEF LedgerInv, BookingExclusive, BookingSteps
  <2> QED
    BY <2>2, <2>3, <2>4, <2>6, BookingDeal
<1>3. CASE SellLockBooking(r)
  <2>1. CASE Goto(r, Idle)
    BY <1>3, <2>1, EndedDeal DEF SellLockBooking
  <2>2. CASE ~Goto(r, Idle)
    <3>1. /\ Goto(r, [req[r] EXCEPT !.step = "sell_booking"])
          /\ Convertible(req[r].booking, req[r].unit) /\ req[r].step = "sell_unit"
          /\ UNCHANGED <<unit, history, booking, sale, own, listing, converted>>
      BY <1>3, <2>2 DEF SellLockBooking
    <3>2. /\ req'[r].step = "sell_booking" /\ req'[r].unit = req[r].unit
          /\ req'[r].booking = req[r].booking
          /\ \A p \in Requests \ {r} : req'[p] = req[p]
      BY <3>1, <1>b DEF Goto, ReqRow
    <3>3. Sellable(req[r].unit)
      BY <3>1, <1>a DEF RequestKnows, SellSteps
    <3>4. RequestKnows(r)'
      BY <3>1, <3>2, <3>3 DEF RequestKnows, Sellable, Convertible
    <3> QED
      BY <3>1, <3>2, <3>4, OnlyRequestMoves
  <2> QED
    BY <2>1, <2>2
<1>4. CASE SellLockOwner(r)
  <2>1. CASE Goto(r, Idle)
    BY <1>4, <2>1, EndedDeal DEF SellLockOwner
  <2>2. ASSUME NEW o, Goto(r, [req[r] EXCEPT !.step = "sell_owner", !.row = o]) PROVE DealInv'
    <3>1. /\ req[r].step = "sell_booking"
          /\ UNCHANGED <<unit, history, booking, sale, own, listing, converted>>
      BY <1>4 DEF SellLockOwner
    <3>2. /\ req'[r].step = "sell_owner" /\ req'[r].unit = req[r].unit
          /\ req'[r].booking = req[r].booking
          /\ \A p \in Requests \ {r} : req'[p] = req[p]
      BY <2>2, <1>b DEF Goto, ReqRow
    <3>3. /\ Sellable(req[r].unit)
          /\ req[r].booking # None => Convertible(req[r].booking, req[r].unit)
      BY <3>1, <1>a DEF RequestKnows, SellSteps
    <3>4. RequestKnows(r)'
      BY <3>1, <3>2, <3>3 DEF RequestKnows, Sellable, Convertible
    <3> QED
      BY <3>1, <3>2, <3>4, OnlyRequestMoves
  <2> QED
    BY <1>4, <2>1, <2>2 DEF SellLockOwner
<1>5. CASE SellCommit(r)
  BY <1>5, CommitDeal
<1>6. CASE SellReject(r)
  BY <1>6, EndedDeal DEF SellReject
<1>7. CASE EndSaleWrite(r)
  <2> DEFINE s == req[r].row
  <2>1. sale \in [Sales -> SaleRow]
    BY <1>a DEF TypeOK
  <2>2. s \in Sales /\ Exists(sale, s) /\ req[r].to \in {"cancelled", "reversed"}
    BY <1>7, <1>a DEF EndSaleWrite, ReqInv, RequestKnows
  <2>3. /\ sale' = [sale EXCEPT ![s].status = req[r].to] /\ Goto(r, Idle)
        /\ UNCHANGED <<unit, history, booking, own, converted>>
    BY <1>7 DEF EndSaleWrite
  <2>4. \A t \in Sales : /\ Exists(sale, t)' <=> Exists(sale, t)
                         /\ sale'[t].unit = sale[t].unit /\ sale'[t].booking = sale[t].booking
    BY <2>1, <2>2, <2>3 DEF SaleRow, Exists
  <2>5. SameLedger
    BY <2>3, <2>4 DEF SameLedger, Exists
  <2>6. ChainInv'
    BY <1>a, <2>5, ChainKept DEF DealInv
  <2>7. SoldBookings'
    BY <1>a, <2>3, <2>4, BookingsKept DEF DealInv
  <2>8. HistoryEnds'
    BY <2>3 DEF DealInv, HistoryEnds
  <2>9. HistoryMatchesSales'
    <3>1. \A u \in Units : {t \in Sales : sale'[t].unit = u} = {t \in Sales : sale[t].unit = u}
      BY <2>4
    <3> QED
      BY <2>3, <3>1 DEF DealInv, HistoryMatchesSales, Sales
  <2>10. req'[r] = Idle /\ \A p \in Requests \ {r} : req'[p] = req[p]
    BY <2>3, <1>b DEF Goto
  <2>11. \A p \in Requests : RequestKnows(p)'
    BY <1>a, <2>3, <2>4, <2>10, IdleKnows, KnowsKept DEF DealInv
  <2> QED
    BY <2>6, <2>7, <2>8, <2>9, <2>11 DEF DealInv
<1>8. CASE ReverseWrite(r)
  <2> DEFINE o == req[r].row
  <2>1. own \in [Sales -> OwnRow]
    BY <1>a DEF TypeOK
  <2>2. o \in Sales /\ Exists(own, o)
    BY <1>8, <1>a DEF ReverseWrite, ReqInv
  <2>3. /\ own' = [own EXCEPT ![o] = [own[o] EXCEPT !.status = "reversed"]] /\ Goto(r, Idle)
        /\ UNCHANGED <<unit, history, booking, sale, converted>>
    BY <1>8 DEF ReverseWrite, Reversed
  <2>4. \A t \in Sales : /\ Exists(own, t)' <=> Exists(own, t)
                         /\ own'[t].prev = own[t].prev /\ own'[t].start = own[t].start
                         /\ own'[t].end = own[t].end
    BY <2>1, <2>2, <2>3 DEF OwnRow, Exists
  <2>5. SameLedger
    BY <2>3, <2>4 DEF SameLedger, Exists
  <2>6. ChainInv'
    BY <1>a, <2>5, ChainKept DEF DealInv
  <2>7. SoldBookings'
    BY <2>3 DEF DealInv, SoldBookings, Exists
  <2>8. HistoryEnds'
    BY <2>3 DEF DealInv, HistoryEnds
  <2>9. HistoryMatchesSales'
    BY <2>3 DEF DealInv, HistoryMatchesSales
  <2>10. req'[r] = Idle /\ \A p \in Requests \ {r} : req'[p] = req[p]
    BY <2>3, <1>b DEF Goto
  <2>11. \A p \in Requests : RequestKnows(p)'
    BY <1>a, <2>3, <2>10, IdleKnows, KnowsKept DEF DealInv, Exists
  <2> QED
    BY <2>6, <2>7, <2>8, <2>9, <2>11 DEF DealInv
<1>9. CASE ListWrite(r)
  BY <1>9, EndedDeal DEF ListWrite
<1>10. CASE WithdrawWrite(r)
  BY <1>10, EndedDeal DEF WithdrawWrite
<1> QED
  BY <1>1, <1>2, <1>3, <1>4, <1>5, <1>6, <1>7, <1>8, <1>9, <1>10, <1>11 DEF Continue

\* Every step of the pipeline preserves the whole invariant.
LEMMA NextDeal ==
  ASSUME DealInv, [Next]_vars
  PROVE  DealInv'
<1>1. LedgerInv'
  BY NextInv DEF DealInv
<1>a. TypeOK
  BY DEF DealInv, LedgerInv
<1>2. ASSUME NEW u \in Units, NEW s \in InitialStatuses, CreateProperty(u, s) PROVE DealInv'
  <2>1. /\ unit \in [Units -> UnitStatuses \cup {"absent"}]
        /\ history \in [Units -> Seq(HistoryEntry)]
    BY <1>a DEF TypeOK
  <2>2. /\ unit[u] = "absent" /\ unit'[u] = s
        /\ \A w \in Units \ {u} : unit'[w] = unit[w]
    BY <1>2, <2>1 DEF CreateProperty
  <2>3. history[u] = <<>>
    <3> SUFFICES ASSUME history[u] # <<>> PROVE FALSE
      OBVIOUS
    <3>1. history[u][Len(history[u])] \in HistoryEntry
      BY <2>1
    <3>2. history[u][Len(history[u])].status = "absent"
      BY <2>2 DEF DealInv, HistoryEnds
    <3> QED
      BY <3>1, <3>2 DEF HistoryEntry, UnitStatuses
  <2>4. UNCHANGED <<history, booking, sale, own, converted, req>>
    BY <1>2 DEF CreateProperty
  <2>5. HistoryEnds'
    BY <2>2, <2>3, <2>4 DEF DealInv, HistoryEnds
  <2>6. HistoryMatchesSales'
    BY <2>4 DEF DealInv, HistoryMatchesSales
  <2>7. SoldBookings'
    BY <2>4 DEF DealInv, SoldBookings, Exists
  <2>8. ChainInv'
    BY <2>4, <1>a, ChainKept DEF DealInv, SameLedger, Exists
  <2>9. \A p \in Requests : RequestKnows(p)'
    <3> SUFFICES ASSUME NEW p \in Requests PROVE RequestKnows(p)'
      OBVIOUS
    <3>1. req'[p] = req[p] /\ RequestKnows(p) /\ ReqInv(p)
      BY <2>4 DEF DealInv, LedgerInv
    <3>2. req[p].step \in SellSteps => Sellable(req[p].unit)'
      BY <3>1, <2>2 DEF RequestKnows, ReqInv, Sellable
    <3> QED
      BY <3>1, <3>2, <2>4 DEF RequestKnows, Sellable, Convertible, Exists
  <2> QED
    BY <1>1, <2>5, <2>6, <2>7, <2>8, <2>9 DEF DealInv
<1>3. ASSUME NEW u \in Units, NEW s \in DirectStatuses, DirectUpdate(u, s) PROVE DealInv'
  <2>1. s \in UnitStatuses
    BY StatusAssumption
  <2> QED
    BY <1>1, <1>3, <2>1, StatusDeal DEF DirectUpdate
<1>4. ASSUME NEW b \in Bookings, NEW u \in Units, NEW l \in Leads \cup {None},
             CreateBooking(b, u, l)
      PROVE DealInv'
  <2>1. booking \in [Bookings -> BookingRow] /\ req \in [Requests -> ReqRow]
    BY <1>a DEF TypeOK
  <2>2. /\ booking[b].status = "absent" /\ booking'[b].status = "active"
        /\ \A c \in Bookings \ {b} : booking'[c] = booking[c]
    BY <1>4, <2>1 DEF CreateBooking, IsNext, Exists, NewBooking
  <2>3. \A p \in Requests : req[p].step \in {"sell_booking", "sell_owner"} => req[p].booking # b
    <3>1. b # None
      BY IdAssumption DEF Bookings
    <3> QED
      BY <2>2, <3>1 DEF DealInv, RequestKnows, Convertible
  <2>4. UNCHANGED <<unit, history, sale, own, converted, req>>
    BY <1>4 DEF CreateBooking
  <2> QED
    BY <1>1, <2>2, <2>3, <2>4, BookingDeal
<1>5. ASSUME NEW r \in Requests, Start(r) \/ Continue(r) PROVE DealInv'
  BY <1>1, <1>5, StartDeal, ContinueDeal
<1>6. ASSUME NEW r \in Requests, Abort(r) PROVE DealInv'
  BY <1>1, <1>6, EndedDeal DEF Abort
<1>7. CASE UNCHANGED vars
  <2>1. UNCHANGED <<unit, history, booking, sale, own, converted, req>>
    BY <1>7 DEF vars
  <2>2. ChainInv' /\ SoldBookings'
    BY <2>1, <1>a, ChainKept DEF DealInv, SameLedger, Exists, SoldBookings
  <2>3. HistoryEnds' /\ HistoryMatchesSales'
    BY <2>1 DEF DealInv, HistoryEnds, HistoryMatchesSales
  <2>4. \A p \in Requests : RequestKnows(p)'
    BY <2>1 DEF DealInv, RequestKnows, Sellable, Convertible, Exists
  <2> QED
    BY <1>1, <2>2, <2>3, <2>4 DEF DealInv
<1> QED
  BY <1>2, <1>3, <1>4, <1>5, <1>6, <1>7 DEF Next

\* The invariant of the whole pipeline holds of every reachable state.
THEOREM DealInvariant == Spec => []DealInv
  BY InitDeal, NextDeal, PTL DEF Spec

-----------------------------------------------------------------------------
(* What the invariant shows *)

\* Counting the members of a set that has no two.
LEMMA Counted ==
  ASSUME NEW S
  PROVE  /\ (\A x, y \in S : x = y) => Cardinality(S) <= 1
         /\ (\A x, y \in S : x = y) /\ S # {} => Cardinality(S) = 1
         /\ S = {} => Cardinality(S) = 0
<1>1. S = {} => Cardinality(S) = 0
  BY FS_EmptySet
<1>2. ASSUME \A x, y \in S : x = y, S # {} PROVE Cardinality(S) = 1
  <2>1. PICK x : S = {x}
    BY <1>2
  <2> QED
    BY <2>1, FS_Singleton
<1> QED
  BY <1>1, <1>2

\* The chain invariant gives the title chain, in terms of counts.
LEMMA ChainIsTitleChain ==
  ASSUME LedgerInv, ChainInv
  PROVE  TitleChain
<1> SUFFICES ASSUME NEW s \in Sales, Exists(own, s)
             PROVE
      LET next == {t \in Sales : Exists(own, t) /\ own[t].prev = s} IN
      /\ Cardinality(next) <= 1
      /\ \A t \in next : /\ sale[t].unit = sale[s].unit
                         /\ own[t].start = own[s].end /\ own[s].start <= own[t].start
      /\ own[s].end # None /\ own[s].status = "active" => next # {}
      /\ \A t \in Sales : s < t /\ Exists(own, t) /\ own[t].prev = None
                           /\ sale[t].unit = sale[s].unit => own[s].end # None
  BY DEF TitleChain
<1> DEFINE next == {t \in Sales : Exists(own, t) /\ own[t].prev = s}
<1>1. s # None
  BY IdsAreNat
<1>2. \A t \in next : /\ sale[t].unit = sale[s].unit
                      /\ own[t].start = own[s].end /\ own[s].start <= own[t].start
  BY <1>1 DEF ChainInv, LinkedBack
<1>3. \A x, y \in next : x = y
  BY <1>2 DEF ChainInv, NoForks
<1>4. own[s].end # None => next # {}
  BY DEF ChainInv, Unbroken
<1>5. Cardinality(next) <= 1
  <2> HIDE DEF next
  <2> QED
    BY <1>3, Counted
<1>6. ASSUME NEW t \in Sales, s < t, Exists(own, t), sale[t].unit = sale[s].unit
      PROVE  own[s].end # None
  <2> SUFFICES ASSUME own[s].end = None PROVE FALSE
    OBVIOUS
  <2>1. PICK z \in CurrentOwnerships(sale[t].unit) : t <= z
    BY <1>6 DEF ChainInv, LatestOwns, LedgerInv, OwnedWasSold
  <2>2. s \in CurrentOwnerships(sale[t].unit)
    BY <1>6 DEF CurrentOwnerships
  <2>3. sale[t].unit \in Units
    BY <1>6 DEF ChainInv, TablesAligned, LedgerInv, OwnedWasSold
  <2>4. z = s
    BY <2>1, <2>2, <2>3 DEF LedgerInv, OneCurrentOwner
  <2> QED
    BY <1>6, <2>1, <2>4, IdsAreNat
<1> QED
  BY <1>2, <1>4, <1>5, <1>6

\* The ledger of a unit is a chain: nobody's title is followed twice, a period
\* that ended without a reversal is followed from the day it ended, and whoever
\* follows nobody found no open period.
THEOREM TitleChainCorrect == Spec => []TitleChain
<1>1. DealInv => TitleChain
  BY ChainIsTitleChain DEF DealInv
<1> QED
  BY <1>1, DealInvariant, PTL

\* The status history has one "sold" entry of the service per sale of the unit,
\* each on top of a reservation of its own, whatever is written directly.
THEOREM HistoryCorrect == Spec => []HistoryMatchesSales
<1>1. DealInv => HistoryMatchesSales
  BY DEF DealInv
<1> QED
  BY <1>1, DealInvariant, PTL

\* A booking is used for at most one sale, of its own unit; a booking or a lead
\* that is marked converted has its sale.
THEOREM BookingCorrect == Spec => []BookingSoldOnce
<1>1. ASSUME DealInv PROVE BookingSoldOnce
  <2> DEFINE salesOf(b) == {s \in Sales : Exists(sale, s) /\ sale[s].booking = b}
  <2>a. SoldBookings /\ \A b \in Bookings : b # None
    BY <1>1, IdAssumption DEF DealInv, Bookings
  <2>1. ASSUME NEW b \in Bookings
        PROVE  /\ Cardinality(salesOf(b)) <= 1
               /\ booking[b].status = "converted" => salesOf(b) # {}
               /\ \A s \in salesOf(b) : sale[s].unit = booking[b].unit
                                        /\ booking[b].status # "active"
    <3>1. \A x, y \in salesOf(b) : x = y
      BY <2>a DEF SoldBookings
    <3>2. Cardinality(salesOf(b)) <= 1
      <4> HIDE DEF salesOf
      <4> QED
        BY <3>1, Counted
    <3> QED
      BY <2>a, <3>2 DEF SoldBookings
  <2>2. ASSUME NEW l \in converted
        PROVE  \E b \in Bookings : booking[b].lead = l /\ salesOf(b) # {}
    <3>1. PICK s \in Sales :
            Exists(sale, s) /\ sale[s].booking # None /\ booking[sale[s].booking].lead = l
      BY <2>a DEF SoldBookings
    <3>2. sale[s].booking \in Bookings
      BY <1>1, <3>1 DEF DealInv, LedgerInv, TypeOK, SaleRow
    <3> QED
      BY <3>1, <3>2
  <2> QED
    BY <2>1, <2>2 DEF BookingSoldOnce
<1> QED
  BY <1>1, DealInvariant, PTL

\* The buyer of a unit's latest sale is its current owner, unless the record was
\* reversed, and no earlier buyer still is.
THEOREM OwnerCorrect == Spec => []LatestBuyerOwns
<1>1. ASSUME DealInv PROVE LatestBuyerOwns
  <2> SUFFICES ASSUME NEW s \in Sales, Exists(sale, s),
                      \A t \in Sales : sale[t].unit = sale[s].unit => t <= s
               PROVE  /\ own[s].end = None \/ own[s].status = "reversed"
                      /\ CurrentOwnerships(sale[s].unit) \subseteq {s}
    BY DEF LatestBuyerOwns
  <2>1. PICK z \in CurrentOwnerships(sale[s].unit) : s <= z
    BY <1>1 DEF DealInv, ChainInv, LatestOwns
  <2>2. z = s
    BY <2>1, IdsAreNat DEF CurrentOwnerships
  <2>3. \A y \in CurrentOwnerships(sale[s].unit) : y = s
    BY <1>1, <2>1, <2>2 DEF DealInv, ChainInv, TablesAligned, LedgerInv, OneCurrentOwner
  <2> QED
    BY <2>1, <2>2, <2>3 DEF CurrentOwnerships
<1> QED
  BY <1>1, DealInvariant, PTL

-----------------------------------------------------------------------------
(* What a step may never do *)

\* Only the commit of create_sale inserts a row or ends a period.
LEMMA OnlyCommitSells ==
  ASSUME DealInv, [Next]_vars, \A r \in Requests : ~SellCommit(r)
  PROVE  SameLedger
<1>1. CASE UNCHANGED <<sale, own>>
  BY <1>1 DEF SameLedger, Exists
<1>2. ASSUME NEW r \in Requests, EndSaleWrite(r) PROVE SameLedger
  <2>1. /\ sale \in [Sales -> SaleRow] /\ Exists(sale, req[r].row)
        /\ req[r].to \in {"cancelled", "reversed"} /\ req[r].row \in Sales
    BY <1>2 DEF EndSaleWrite, DealInv, LedgerInv, ReqInv, RequestKnows, TypeOK
  <2> QED
    BY <1>2, <2>1 DEF EndSaleWrite, SameLedger, SaleRow, Exists
<1>3. ASSUME NEW r \in Requests, ReverseWrite(r) PROVE SameLedger
  <2>1. own \in [Sales -> OwnRow] /\ Exists(own, req[r].row) /\ req[r].row \in Sales
    BY <1>3 DEF ReverseWrite, DealInv, LedgerInv, ReqInv, TypeOK
  <2> QED
    BY <1>3, <2>1 DEF ReverseWrite, Reversed, SameLedger, OwnRow, Exists
<1>4. ASSUME NEW r \in Requests, Start(r) \/ Abort(r) PROVE UNCHANGED <<sale, own>>
  BY <1>4 DEF Start, Abort, ReserveRead, SellLockUnit, CancelRead, EndSaleRead, ReverseRead,
              ListRead, WithdrawRead
<1>5. ASSUME NEW r \in Requests, Continue(r)
      PROVE  UNCHANGED <<sale, own>> \/ EndSaleWrite(r) \/ ReverseWrite(r)
  BY <1>5 DEF Continue, ReserveWrite, CancelUpdate, CancelCommit, SellLockBooking,
              SellLockOwner, SellReject, ListWrite, WithdrawWrite
<1> QED
  BY <1>1, <1>2, <1>3, <1>4, <1>5 DEF Next, vars, CreateProperty, DirectUpdate, CreateBooking

\* No sale is ever recorded on a booking that was already cancelled.
THEOREM CancelledBookingsUnsold == Spec => CancelledNeverSold
<1>1. ASSUME DealInv, [Next]_vars, NEW b \in Bookings, NEW s \in Sales,
             booking[b].status = "cancelled", ~Exists(sale, s), sale'[s].status # "absent"
      PROVE  sale'[s].booking # b
  <2>1. ~SameLedger
    BY <1>1 DEF SameLedger, Exists
  <2>2. PICK r \in Requests : SellCommit(r)
    BY <1>1, <2>1, OnlyCommitSells
  <2>3. PICK t \in Sales : Recorded(req[r], t)
    BY <1>1, <2>2, CommitRecords DEF DealInv
  <2>4. s = t /\ sale'[s].booking = req[r].booking
    BY <1>1, <2>3 DEF Recorded, NewSale, Exists
  <2>5. req[r].booking # None => booking[req[r].booking].status = "active"
    BY <1>1, <2>2 DEF DealInv, RequestKnows, Convertible, SellCommit
  <2>6. b # None
    BY IdAssumption DEF Bookings
  <2> QED
    BY <1>1, <2>4, <2>5, <2>6
<1>2. DealInv /\ [Next]_vars =>
        [\A b \in Bookings, s \in Sales :
           /\ booking[b].status = "cancelled"
           /\ ~Exists(sale, s) /\ sale'[s].status # "absent"
           => sale'[s].booking # b]_vars
  BY <1>1
<1> QED
  BY <1>2, DealInvariant, PTL DEF Spec, CancelledNeverSold

\* Of two racing reservations the second never overwrites the first: but for a
\* direct update, a unit on hold or reserved is only sold or freed.
THEOREM ReservationsKept == Spec => ReservationKept
<1>1. ASSUME DealInv, Next, NEW u \in Units, unit[u] \in {"hold", "reserved"}
      PROVE  \/ unit'[u] \in {unit[u], "sold", "available"}
             \/ \E s \in DirectStatuses : DirectUpdate(u, s)
  <2>a. unit \in [Units -> UnitStatuses \cup {"absent"}]
    BY <1>1 DEF DealInv, LedgerInv, TypeOK
  <2>1. ASSUME NEW w \in Units, NEW s \in InitialStatuses, CreateProperty(w, s)
        PROVE unit'[u] = unit[u]
    BY <1>1, <2>1, <2>a DEF CreateProperty
  <2>2. ASSUME NEW w \in Units, NEW s \in DirectStatuses, DirectUpdate(w, s), w # u
        PROVE  unit'[u] = unit[u]
    BY <1>1, <2>2, <2>a DEF DirectUpdate, SetStatus
  <2>3. ASSUME NEW r \in Requests, ReserveWrite(r) PROVE unit'[u] = unit[u]
    BY <1>1, <2>3, <2>a DEF ReserveWrite, Reservable, SetStatus
  <2>4. ASSUME NEW r \in Requests, SellCommit(r) PROVE unit'[u] \in {unit[u], "sold"}
    BY <1>1, <2>4, <2>a DEF SellCommit, SetStatus
  <2>5. ASSUME NEW r \in Requests, Start(r) \/ Abort(r) PROVE unit' = unit
    BY <2>5 DEF Start, Abort, ReserveRead, SellLockUnit, CancelRead, EndSaleRead, ReverseRead,
                ListRead, WithdrawRead
  <2>6. ASSUME NEW r \in Requests, Continue(r)
        PROVE unit' = unit \/ ReserveWrite(r) \/ SellCommit(r)
    BY <2>6 DEF Continue, CancelUpdate, CancelCommit, SellLockBooking, SellLockOwner,
                SellReject, EndSaleWrite, ReverseWrite, ListWrite, WithdrawWrite
  <2>7. ASSUME NEW b \in Bookings, NEW w \in Units, NEW l \in Leads \cup {None},
               CreateBooking(b, w, l)
        PROVE unit' = unit
    BY <2>7 DEF CreateBooking
  <2> QED
    BY <1>1, <2>1, <2>2, <2>3, <2>4, <2>5, <2>6, <2>7 DEF Next
<1>2. DealInv /\ [Next]_vars =>
        [\A u \in Units : unit[u] \in {"hold", "reserved"}
           => \/ unit'[u] \in {unit[u], "sold", "available"}
              \/ \E s \in DirectStatuses : DirectUpdate(u, s)]_vars
  BY <1>1
<1> QED
  BY <1>2, DealInvariant, PTL DEF Spec, ReservationKept

-----------------------------------------------------------------------------
(* The pipeline implements the title register *)

\* The register's variables, as the instance names them.
Granted == [u \in Units |-> {s \in Sales : Exists(own, s) /\ sale[s].unit = u}]
Current(titles) == IF titles = {} THEN None ELSE CHOOSE s \in titles : TRUE
Holder  == [u \in Units |-> Current(CurrentOwnerships(u))]
Follows == {p \in Sales \X Sales : Exists(own, p[2]) /\ own[p[2]].prev = p[1]}

\* The current title, where there is at most one.
LEMMA CurrentIs ==
  /\ Current({}) = None
  /\ \A s : Current({s}) = s
  BY DEF Current

\* A step that sells nothing leaves the register alone.
LEMMA RegisterStutters ==
  ASSUME SameLedger
  PROVE  UNCHANGED <<Granted, Holder, Follows>>
<1>1. Granted' = Granted
  BY DEF SameLedger, Granted, Sales
<1>2. \A u : CurrentOwnerships(u)' = CurrentOwnerships(u)
  BY DEF SameLedger, CurrentOwnerships, Sales
<1>3. Holder' = Holder
  BY <1>2 DEF Holder
<1>4. Follows' = Follows
  <2>1. \A p \in Sales \X Sales :
          /\ Exists(own, p[2])' <=> Exists(own, p[2])
          /\ own'[p[2]].prev = own[p[2]].prev
    BY DEF SameLedger
  <2> QED
    BY <2>1 DEF Follows, Sales
<1> QED
  BY <1>1, <1>3, <1>4

\* A commit is a transfer of the unit to the new title.
LEMMA CommitTransfers ==
  ASSUME DealInv, NEW r \in Requests, SellCommit(r)
  PROVE  \E u \in Units, s \in Sales : Register!Transfer(u, s)
<1>0. PICK q : q = req[r]
  OBVIOUS
<1> DEFINE v == q.unit
<1>1. CommitReads(q) /\ \E s \in Sales : Recorded(q, s)
  BY <1>0, CommitRecords DEF DealInv
<1>2. PICK s \in Sales : Recorded(q, s)
  BY <1>1
<1>3. /\ CurrentOwnerships(v)' = {s}
      /\ \A u \in Units \ {v} : CurrentOwnerships(u)' = CurrentOwnerships(u)
  BY <1>1, <1>2, CommitOwners DEF DealInv
<1>4. /\ v \in Units /\ q.row \in Sales \cup {None}
      /\ CurrentOwnerships(v) = {q.row} \ {None}
  BY <1>1 DEF CommitReads
<1>5. /\ ~Exists(own, s) /\ Exists(own, s)' /\ sale'[s].unit = v /\ own'[s].prev = q.row
      /\ \A t \in Sales \ {s} : /\ Exists(own, t)' <=> Exists(own, t)
                                /\ sale'[t].unit = sale[t].unit
                                /\ own'[t].prev = own[t].prev
  BY <1>2 DEF Recorded, Exists, NewSale, NewOwnership
<1>6. \A u \in Units : s \notin Granted[u]
  BY <1>5 DEF Granted
<1>7. Granted' = [Granted EXCEPT ![v] = @ \cup {s}]
  <2>1. \A u \in Units : Granted'[u] = IF u = v THEN Granted[v] \cup {s} ELSE Granted[u]
    BY <1>4, <1>5 DEF Granted, Sales
  <2> QED
    BY <2>1, <1>4 DEF Granted
<1>8. Holder[v] = q.row
  <2>1. Holder[v] = Current(CurrentOwnerships(v))
    BY <1>4 DEF Holder
  <2>2. CurrentOwnerships(v) = IF q.row = None THEN {} ELSE {q.row}
    BY <1>4
  <2> QED
    BY <2>1, <2>2, CurrentIs
<1>9. Holder' = [Holder EXCEPT ![v] = s]
  <2>1. Holder'[v] = s
    BY <1>3, <1>4, CurrentIs DEF Holder
  <2>2. \A u \in Units \ {v} : Holder'[u] = Holder[u]
    BY <1>3 DEF Holder
  <2> QED
    BY <2>1, <2>2, <1>4 DEF Holder
<1>10. Follows' = Follows \cup (IF Holder[v] = None THEN {} ELSE {<<Holder[v], s>>})
  <2>1. ASSUME NEW p \in Sales \X Sales
        PROVE  p \in Follows' <=> p \in Follows \/ (q.row # None /\ p = <<q.row, s>>)
    <3>1. CASE p[2] = s
      BY <3>1, <1>5, IdsAreNat DEF Follows, Sales
    <3>2. CASE p[2] # s
      BY <3>2, <1>5 DEF Follows, Sales
    <3> QED
      BY <3>1, <3>2
  <2>2. q.row # None => <<q.row, s>> \in Sales \X Sales
    BY <1>4
  <2>3. Follows \subseteq Sales \X Sales /\ Follows' \subseteq Sales \X Sales
    BY DEF Follows, Sales
  <2> QED
    BY <2>1, <2>2, <2>3, <1>8
<1>11. Register!Transfer(v, s)
  BY <1>6, <1>7, <1>9, <1>10
     DEF Register!Transfer, Register!NoTitle, Granted, Holder, Current, Follows
<1> QED
  BY <1>4, <1>11

\* The empty tables are an empty register.
LEMMA RegisterInit == Init => Register!Init
<1> SUFFICES ASSUME Init PROVE Register!Init
  OBVIOUS
<1>1. \A s \in Sales : ~Exists(own, s)
  BY DEF Init, Exists
<1>2. Granted = [u \in Units |-> {}]
  BY <1>1 DEF Granted
<1>3. Holder = [u \in Units |-> None]
  <2>1. \A u : CurrentOwnerships(u) = {}
    BY <1>1 DEF CurrentOwnerships
  <2> QED
    BY <2>1, CurrentIs DEF Holder
<1>4. Follows = {}
  BY <1>1 DEF Follows
<1> QED
  BY <1>2, <1>3, <1>4 DEF Register!Init, Register!NoTitle, Granted, Holder, Current, Follows

\* The pipeline implements the register: whatever requests race, titles are
\* granted once, stay linked to the one they replaced, and replace exactly the
\* one that was current.
THEOREM RegisterImplemented == Spec => ImplementsRegister
<1>1. DealInv /\ [Next]_vars => [Register!Next]_<<Granted, Holder, Follows>>
  <2> SUFFICES ASSUME DealInv, [Next]_vars
               PROVE  Register!Next \/ UNCHANGED <<Granted, Holder, Follows>>
    OBVIOUS
  <2>1. CASE \E r \in Requests : SellCommit(r)
    BY <2>1, CommitTransfers DEF Register!Next
  <2>2. CASE \A r \in Requests : ~SellCommit(r)
    BY <2>2, OnlyCommitSells, RegisterStutters
  <2> QED
    BY <2>1, <2>2
<1> QED
  BY <1>1, RegisterInit, DealInvariant, PTL
     DEF Spec, ImplementsRegister, Register!Spec, Granted, Holder, Current, Follows

-----------------------------------------------------------------------------
(* Lock waits *)

\* The request's next statement waits for a row lock that another one holds.
Waits(r) ==
  \/ req[r].step = "reserve" /\ UnitLocked(req[r].unit)
  \/ req[r].step \in {"cancel", "sell_unit"} /\ BookingLocked(req[r].booking)
  \/ req[r].step = "sell_booking" /\ \E o \in CurrentOwnerships(req[r].unit) : OwnLocked(o)
  \/ req[r].step \in {"reverse", "list"} /\ OwnLocked(req[r].row)

\* A sale that has its booking never waits for the owner's row, and whoever waits, some
\* sale or cancellation that holds locks can go on: no waits form a cycle.
WaitsEndAtAHolder ==
  /\ \A r \in Requests : req[r].step = "sell_booking" => ~Waits(r)
  /\ \A r \in Requests : Waits(r) =>
       \E q \in Requests : req[q].step \in SellSteps \cup BookingSteps /\ ~Waits(q)

\* Until then a request that waits does not go on.
WaitersStandStill == [][\A r \in Requests : Waits(r) => ~Continue(r)]_vars

\* The owner's row that a sale has locked belongs to the unit it has locked, so no sale of
\* another unit asks for it.
LEMMA OwnerLockFree ==
  ASSUME LedgerInv, NEW r \in Requests, req[r].step = "sell_booking",
         NEW o \in CurrentOwnerships(req[r].unit)
  PROVE  ~OwnLocked(o)
<1> SUFFICES ASSUME NEW q \in Requests, req[q].step = "sell_owner", req[q].row = o PROVE FALSE
  BY DEF OwnLocked
<1>1. q # r /\ req[q].unit # req[r].unit
  BY DEF LedgerInv, LockExclusive, SellSteps
<1>2. o # None /\ sale[o].unit = req[r].unit
  BY IdsAreNat DEF CurrentOwnerships
<1>3. o \in CurrentOwnerships(req[q].unit)
  BY <1>2 DEF LedgerInv, OwnerReadStaysCurrent
<1> QED
  BY <1>1, <1>2, <1>3 DEF CurrentOwnerships

\* Waits is what keeps a statement from going on: its guard is the statement's own.
LEMMA WaitersHeld ==
  ASSUME LedgerInv, NEW r \in Requests, Waits(r), Continue(r)
  PROVE  FALSE
<1>1. req[r].step # "sell_booking"
  BY OwnerLockFree DEF Waits
<1>2. CASE ReserveWrite(r)
  BY <1>2 DEF Waits, ReserveWrite
<1>3. CASE CancelUpdate(r)
  BY <1>3 DEF Waits, CancelUpdate
<1>4. CASE SellLockBooking(r)
  BY <1>4 DEF Waits, SellLockBooking
<1>5. CASE ReverseWrite(r)
  BY <1>5 DEF Waits, ReverseWrite
<1>6. CASE ListWrite(r)
  BY <1>6 DEF Waits, ListWrite
<1>7. CASE SellLockOwner(r)
  BY <1>1, <1>7, Zenon DEF SellLockOwner
<1>8. CASE SellCommit(r) \/ SellReject(r) \/ CancelCommit(r) \/ EndSaleWrite(r) \/ WithdrawWrite(r)
  <2>1. req[r].step \in {"sell_owner", "cancel_held", "end_sale", "withdraw"}
    BY <1>8 DEF SellCommit, SellReject, CancelCommit, EndSaleWrite, WithdrawWrite
  <2> QED
    BY <2>1 DEF Waits
<1> QED
  BY <1>2, <1>3, <1>4, <1>5, <1>6, <1>7, <1>8 DEF Continue

\* However reservations, bookings' cancellations, sales, reversals and listings queue for
\* each other's rows, the locks are taken in one order - unit, booking, owner
\* (create_sale) - and the wait ends: there is no deadlock, for any number of requests.
THEOREM LockWaitsEnd == Spec => []WaitsEndAtAHolder /\ WaitersStandStill
<1>1. LedgerInv => WaitsEndAtAHolder
  <2> SUFFICES ASSUME LedgerInv PROVE WaitsEndAtAHolder
    OBVIOUS
  <2>1. \A q \in Requests : req[q].step \in BookingSteps => ~Waits(q)
    BY OwnerLockFree DEF Waits, BookingSteps
  <2>2. ASSUME NEW r \in Requests, Waits(r)
        PROVE  \E q \in Requests : req[q].step \in SellSteps \cup BookingSteps /\ ~Waits(q)
    <3>1. PICK q \in Requests : req[q].step \in SellSteps \cup BookingSteps
      BY <2>2 DEF Waits, UnitLocked, BookingLocked, OwnLocked, SellSteps
    <3>2. CASE req[q].step \in BookingSteps
      BY <2>1, <3>1, <3>2
    <3>3. CASE req[q].step = "sell_unit" /\ Waits(q)
      <4>1. PICK p \in Requests : req[p].step \in BookingSteps
        BY <3>3 DEF Waits, BookingLocked
      <4> QED
        BY <2>1, <4>1
    <3> QED
      BY <3>1, <3>2, <3>3 DEF SellSteps, BookingSteps
  <2> QED
    BY <2>1, <2>2 DEF WaitsEndAtAHolder, BookingSteps
<1>2. LedgerInv /\ [Next]_vars => [\A r \in Requests : Waits(r) => ~Continue(r)]_vars
  BY WaitersHeld
<1> QED
  BY <1>1, <1>2, LedgerInvariant, PTL DEF Spec, WaitersStandStill

=============================================================================
