---------------------------- MODULE DealPipeline ----------------------------
(***************************************************************************)
(* The booking -> sale -> ownership pipeline of one tenant: the status of  *)
(* each unit, its append-only status history, token bookings, sales, the   *)
(* ownership ledger with its resale chain, and resale listings.            *)
(*                                                                         *)
(* Every HTTP request is one READ COMMITTED transaction.  A read that the  *)
(* service trusts later, a row lock, and the write with its commit are     *)
(* separate steps, so requests interleave where PostgreSQL lets them.      *)
(* Row locks are not stored: who holds one follows from the step reached.  *)
(***************************************************************************)
EXTENDS Naturals, FiniteSets, Sequences

CONSTANTS
  Units,            \* properties of the tenant
  Leads,            \* leads a booking may come from
  Requests,         \* concurrent HTTP requests (one session each)
  Dates,            \* sale dates a client may send
  InitialStatuses,  \* statuses a client gives a unit it creates
  DirectStatuses,   \* statuses a user writes past the service
  MaxBookings, MaxSales, MaxListings, MaxHistory   \* bounds on the tables

None == 0

ASSUME IdAssumption ==
  /\ None \notin Units \cup Leads
  /\ MaxBookings \in Nat /\ MaxSales \in Nat /\ MaxListings \in Nat /\ MaxHistory \in Nat

ASSUME DateAssumption == Dates \subseteq Nat \ {0}

VARIABLES
  unit,      \* properties.status, "absent" before the row is inserted
  history,   \* property_status_history.new_status, oldest first, with its writer
  booking,   \* property_bookings
  sale,      \* property_sales
  own,       \* property_ownerships; row s is the one sale s produced
  listing,   \* property_resale_listings
  converted, \* leads the pipeline has marked 'converted'
  req        \* what each request has read or locked so far

vars == <<unit, history, booking, sale, own, listing, converted, req>>

UnitStatuses == {"draft", "available", "reserved", "hold", "sold", "blocked", "inactive"}

\* The create endpoint and the row-level policies take any status.
ASSUME StatusAssumption == InitialStatuses \cup DirectStatuses \subseteq UnitStatuses

\* `by` is a history variable: the table does not tell the two apart.
HistoryEntry == [status : UnitStatuses, by : {"service", "direct"}]

Bookings == 1..MaxBookings
Sales    == 1..MaxSales
Listings == 1..MaxListings

BookingRow == [status : {"absent", "active", "cancelled", "converted"},
               unit : Units \cup {None}, lead : Leads \cup {None}]
SaleRow    == [status : {"absent", "active", "cancelled", "reversed"},
               unit : Units \cup {None}, booking : Bookings \cup {None}]
\* start and end of the period; end = None is SQL's NULL: the current owner.
OwnRow     == [status : {"absent", "active", "reversed"}, prev : Sales \cup {None},
               start : Dates \cup {None}, end : Dates \cup {None}]
ListingRow == [status : {"absent", "open", "withdrawn", "converted"},
               own : Sales \cup {None}]

SellSteps == {"sell_unit", "sell_booking", "sell_owner"}
Steps == SellSteps \cup
  {"idle", "reserve", "cancel", "cancel_held", "end_sale", "reverse", "list", "withdraw"}
Targets == {"hold", "reserved", "cancelled", "reversed"}
\* `row` is the sale, ownership or listing the request has read.
ReqRow == [step : Steps, unit : Units \cup {None}, booking : Bookings \cup {None},
           row : Nat, date : Dates \cup {None}, to : Targets \cup {"none"}]

Idle == [step |-> "idle", unit |-> None, booking |-> None,
         row |-> None, date |-> None, to |-> "none"]

TypeOK ==
  /\ unit \in [Units -> UnitStatuses \cup {"absent"}]
  /\ history \in [Units -> Seq(HistoryEntry)]
  /\ booking \in [Bookings -> BookingRow]
  /\ sale \in [Sales -> SaleRow]
  /\ own \in [Sales -> OwnRow]
  /\ listing \in [Listings -> ListingRow]
  /\ converted \subseteq Leads
  /\ req \in [Requests -> ReqRow]

Init ==
  /\ unit = [u \in Units |-> "absent"]
  /\ history = [u \in Units |-> <<>>]
  /\ booking = [b \in Bookings |-> [status |-> "absent", unit |-> None, lead |-> None]]
  /\ sale = [s \in Sales |-> [status |-> "absent", unit |-> None, booking |-> None]]
  /\ own = [s \in Sales |->
              [status |-> "absent", prev |-> None, start |-> None, end |-> None]]
  /\ listing = [l \in Listings |-> [status |-> "absent", own |-> None]]
  /\ converted = {}
  /\ req = [r \in Requests |-> Idle]

-----------------------------------------------------------------------------
(* Rows, ids and locks *)

Exists(table, id) == table[id].status # "absent"

\* Ids are handed out in insertion order: `id` is the next one of `table`.
IsNext(table, id) == /\ ~Exists(table, id)
                     /\ \A j \in DOMAIN table : j < id => Exists(table, j)

\* Room for one more row, counting the requests on their way to inserting it.
Room(table, steps) ==
  Cardinality({i \in DOMAIN table : Exists(table, i)})
    + Cardinality({r \in Requests : req[r].step \in steps}) < Cardinality(DOMAIN table)

\* create_sale's SELECT ... FOR UPDATE on the property, held to the commit.
NoUnitLock(u) == FALSE   \* (a mutant: a plain SELECT)
UnitLocked(u) == \E r \in Requests : req[r].step \in SellSteps /\ req[r].unit = u

\* ... on the booking, taken after the unit's, or by the UPDATE that cancels it ...
BookingSteps == {"sell_booking", "sell_owner", "cancel_held"}
NoBookingLock(b) == FALSE   \* (a mutant: a plain SELECT)
BookingLocked(b) == \E r \in Requests : req[r].step \in BookingSteps /\ req[r].booking = b

\* ... and on the current ownership row.
OwnLocked(o) == \E r \in Requests : req[r].step = "sell_owner" /\ req[r].row = o

CurrentOwnerships(u) ==
  {s \in Sales : Exists(own, s) /\ sale[s].unit = u /\ own[s].end = None}

\* The join behind the single-property read multiplies the row by the
\* ownerships of status 'active', ended or not, and the read accepts one row.
Readable(u) ==
  /\ unit[u] # "absent"
  /\ Cardinality({s \in Sales : sale[s].unit = u /\ own[s].status = "active"}) <= 1

OpenListings(o) == {l \in Listings : listing[l].status = "open" /\ listing[l].own = o}

\* The status trigger records a change, and only a change.
SetStatus(u, to, by) ==
  /\ unit' = [unit EXCEPT ![u] = to]
  /\ history' = IF unit[u] = to THEN history
                ELSE [history EXCEPT ![u] = Append(@, [status |-> to, by |-> by])]

Goto(r, fields) == req' = [req EXCEPT ![r] = fields]

-----------------------------------------------------------------------------
(* Units: create, reserve or hold, write past the service *)

CreateProperty(u, s) ==
  /\ unit[u] = "absent"
  /\ s \in InitialStatuses
  /\ unit' = [unit EXCEPT ![u] = s]
  /\ UNCHANGED <<history, booking, sale, own, listing, converted, req>>

\* The service reads the unit first ...
ReserveRead(r, u, to) ==
  /\ req[r] = Idle
  /\ to \in {"hold", "reserved"}
  /\ Readable(u) /\ unit[u] = "available"
  /\ Goto(r, [Idle EXCEPT !.step = "reserve", !.unit = u, !.to = to])
  /\ UNCHANGED <<unit, history, booking, sale, own, listing, converted>>

NotYetSold(u) == unit[u] # "sold"   \* (a mutant: trusts the first read)
Reservable(u) == unit[u] = "available"

\* ... then reserve_property locks the row, decides again, and the service
\* reads the unit back: an error on either rolls the request back.
ReserveWrite(r) ==
  LET u == req[r].unit IN
  /\ req[r].step = "reserve"
  /\ ~UnitLocked(u)
  /\ IF Reservable(u) /\ Readable(u)
       THEN SetStatus(u, req[r].to, "service") ELSE UNCHANGED <<unit, history>>
  /\ Goto(r, Idle)
  /\ UNCHANGED <<booking, sale, own, listing, converted>>

\* The row-level policies let an authorized user update the table without the
\* service, to any status.  No endpoint puts a sold unit back on the market, so
\* this is the only road to the resale branch of create_sale.
DirectUpdate(u, s) ==
  /\ unit[u] # "absent" /\ Len(history[u]) < MaxHistory
  /\ ~UnitLocked(u)
  /\ SetStatus(u, s, "direct")
  /\ UNCHANGED <<booking, sale, own, listing, converted, req>>

-----------------------------------------------------------------------------
(* Bookings *)

NewBooking(u, l) == [status |-> "active", unit |-> u, lead |-> l]

\* The rows a booking names have to be there.
Referenced(u) == unit[u] # "absent"

\* The unit's status and its other bookings are not looked at.  The foreign
\* key share-locks the unit, so the insert waits for a sale in progress.
CreateBooking(b, u, l) ==
  /\ IsNext(booking, b)
  /\ Referenced(u) /\ ~UnitLocked(u)
  /\ booking' = [booking EXCEPT ![b] = NewBooking(u, l)]
  /\ UNCHANGED <<unit, history, sale, own, listing, converted, req>>

CancelRead(r, b) ==
  /\ req[r] = Idle
  /\ booking[b].status = "active"
  /\ Goto(r, [Idle EXCEPT !.step = "cancel", !.booking = b])
  /\ UNCHANGED <<unit, history, booking, sale, own, listing, converted>>

\* The UPDATE waits for the row lock, keeps it to the commit, and writes
\* whatever it finds there.
CancelUpdate(r) ==
  /\ req[r].step = "cancel"
  /\ ~BookingLocked(req[r].booking)
  /\ Goto(r, [req[r] EXCEPT !.step = "cancel_held"])
  /\ UNCHANGED <<unit, history, booking, sale, own, listing, converted>>

\* (a mutant: frees the unit in the same transaction, after the booking)
CancelFreesUnit(r) ==
  LET b == req[r].booking IN
  /\ req[r].step = "cancel_held"
  /\ ~UnitLocked(booking[b].unit)
  /\ booking' = [booking EXCEPT ![b].status = "cancelled"]
  /\ SetStatus(booking[b].unit, "available", "service")
  /\ Goto(r, Idle)
  /\ UNCHANGED <<sale, own, listing, converted>>

\* The unit is left as it is.
CancelCommit(r) ==
  /\ req[r].step = "cancel_held"
  /\ booking' = [booking EXCEPT ![req[r].booking].status = "cancelled"]
  /\ Goto(r, Idle)
  /\ UNCHANGED <<unit, history, sale, own, listing, converted>>

-----------------------------------------------------------------------------
(* Sales: create_sale takes three row locks in turn, then writes and commits *)

SellableOrSold(u) == unit[u] \in {"reserved", "hold", "sold"}   \* (a mutant)
Sellable(u) == unit[u] \in {"reserved", "hold"}

SellLockUnit(r, u, b, d) ==
  /\ req[r] = Idle
  /\ b # None => Exists(booking, b)
  /\ Room(sale, SellSteps)
  /\ ~UnitLocked(u) /\ Sellable(u)
  /\ Goto(r, [Idle EXCEPT !.step = IF b = None THEN "sell_booking" ELSE "sell_unit",
                          !.unit = u, !.booking = b, !.date = d])
  /\ UNCHANGED <<unit, history, booking, sale, own, listing, converted>>

\* Whose customer made the booking is not compared with the buyer.
ConvertibleElsewhere(b, u) == booking[b].status = "active"   \* (a mutant: of any unit)
Convertible(b, u) == booking[b].unit = u /\ booking[b].status = "active"

SellLockBooking(r) ==
  LET b == req[r].booking IN
  /\ req[r].step = "sell_unit"
  /\ ~BookingLocked(b)
  /\ IF Convertible(b, req[r].unit)
       THEN Goto(r, [req[r] EXCEPT !.step = "sell_booking"]) ELSE Goto(r, Idle)
  /\ UNCHANGED <<unit, history, booking, sale, own, listing, converted>>

\* The row without an end date, whatever its status.  Two rows are an error.
SellLockOwner(r) ==
  LET cur == CurrentOwnerships(req[r].unit) IN
  /\ req[r].step = "sell_booking"
  /\ IF Cardinality(cur) > 1 THEN Goto(r, Idle)
     ELSE \E o \in cur \cup {None} :
            /\ cur # {} => o # None
            /\ ~(o # None /\ OwnLocked(o))
            /\ Goto(r, [req[r] EXCEPT !.step = "sell_owner", !.row = o])
  /\ UNCHANGED <<unit, history, booking, sale, own, listing, converted>>

\* What makes the writes fail as a whole: a period that would end before it
\* starts, or a second row without an end date for the unit.
SaleRejected(q) ==
  \/ q.row # None /\ q.date < own[q.row].start
  \/ CurrentOwnerships(q.unit) \ {q.row} # {}

\* (a mutant: forgets the chain)
UnchainedOwnership(q) == [status |-> "active", prev |-> None, start |-> q.date, end |-> None]
\* (a mutant: ends the unit's open period once the new row is there)
ClosedTooLate(q) ==
  [status |-> "active", prev |-> q.row, start |-> q.date,
   end |-> IF q.row = None THEN None ELSE q.date]
NewOwnership(q) == [status |-> "active", prev |-> q.row, start |-> q.date, end |-> None]

NewSale(q) == [status |-> "active", unit |-> q.unit, booking |-> q.booking]

SellCommit(r) ==
  LET q == req[r] IN
  /\ q.step = "sell_owner"
  /\ ~SaleRejected(q)
  /\ \E s \in Sales :
       /\ IsNext(sale, s)
       /\ sale' = [sale EXCEPT ![s] = NewSale(q)]
       /\ own' = [t \in Sales |-> IF t = s THEN NewOwnership(q)
                                  ELSE IF t = q.row THEN [own[t] EXCEPT !.end = q.date]
                                  ELSE own[t]]
  /\ listing' = [l \in Listings |-> IF q.row # None /\ l \in OpenListings(q.row)
                                    THEN [listing[l] EXCEPT !.status = "converted"]
                                    ELSE listing[l]]
  /\ booking' = [b \in Bookings |-> IF b = q.booking
                                    THEN [booking[b] EXCEPT !.status = "converted"]
                                    ELSE booking[b]]
  /\ converted' = converted \cup
       {l \in Leads : q.booking # None /\ booking[q.booking].lead = l}
  /\ SetStatus(q.unit, "sold", "service")
  /\ Goto(r, Idle)

SellReject(r) ==
  /\ req[r].step = "sell_owner"
  /\ SaleRejected(req[r])
  /\ Goto(r, Idle)
  /\ UNCHANGED <<unit, history, booking, sale, own, listing, converted>>

EndSaleRead(r, s, to) ==
  /\ req[r] = Idle
  /\ sale[s].status = "active" /\ to \in {"cancelled", "reversed"}
  /\ Goto(r, [Idle EXCEPT !.step = "end_sale", !.row = s, !.to = to])
  /\ UNCHANGED <<unit, history, booking, sale, own, listing, converted>>

\* The ownership the sale produced is left alone.
EndSaleWrite(r) ==
  /\ req[r].step = "end_sale"
  /\ sale' = [sale EXCEPT ![req[r].row].status = req[r].to]
  /\ Goto(r, Idle)
  /\ UNCHANGED <<unit, history, booking, own, listing, converted>>

-----------------------------------------------------------------------------
(* The ledger's own endpoints: reverse a record, list and withdraw a resale *)

ReverseRead(r, o) ==
  /\ req[r] = Idle
  /\ own[o].status = "active"
  /\ Goto(r, [Idle EXCEPT !.step = "reverse", !.row = o])
  /\ UNCHANGED <<unit, history, booking, sale, own, listing, converted>>

\* The end date stays as it was: a reversed record can still be the current one.
ReversedUnlinked(o) ==   \* (a mutant: takes the record out of its chain)
  [own[o] EXCEPT !.status = "reversed", !.prev = None]
ReversedAsSale(o) ==     \* (a mutant: writes the sale's enum)
  [own[o] EXCEPT !.status = "cancelled"]
Reversed(o) == [own[o] EXCEPT !.status = "reversed"]

ReverseWrite(r) ==
  LET o == req[r].row IN
  /\ req[r].step = "reverse"
  /\ ~OwnLocked(o)
  /\ own' = [own EXCEPT ![o] = Reversed(o)]
  /\ Goto(r, Idle)
  /\ UNCHANGED <<unit, history, booking, sale, listing, converted>>

ListRead(r, o) ==
  /\ req[r] = Idle
  /\ Exists(own, o) /\ own[o].end = None
  /\ Room(listing, {"list"})
  /\ Goto(r, [Idle EXCEPT !.step = "list", !.row = o])
  /\ UNCHANGED <<unit, history, booking, sale, own, listing, converted>>

NewListing(o) == [status |-> "open", own |-> o]

\* The insert share-locks the ownership row, so it waits for a sale that has
\* locked it; the unique index turns a second open listing away.
ListWrite(r) ==
  LET o == req[r].row IN
  /\ req[r].step = "list"
  /\ ~OwnLocked(o)
  /\ IF OpenListings(o) = {}
       THEN \E l \in Listings :
              /\ IsNext(listing, l)
              /\ listing' = [listing EXCEPT ![l] = NewListing(o)]
       ELSE UNCHANGED listing
  /\ Goto(r, Idle)
  /\ UNCHANGED <<unit, history, booking, sale, own, converted>>

WithdrawRead(r, l) ==
  /\ req[r] = Idle
  /\ listing[l].status = "open"
  /\ Goto(r, [Idle EXCEPT !.step = "withdraw", !.row = l])
  /\ UNCHANGED <<unit, history, booking, sale, own, listing, converted>>

WithdrawWrite(r) ==
  /\ req[r].step = "withdraw"
  /\ listing' = [listing EXCEPT ![req[r].row].status = "withdrawn"]
  /\ Goto(r, Idle)
  /\ UNCHANGED <<unit, history, booking, sale, own, converted>>

\* A dropped connection or any other exception: the session rolls back, and
\* nothing uncommitted was visible to anyone.
Abort(r) ==
  /\ req[r] # Idle
  /\ Goto(r, Idle)
  /\ UNCHANGED <<unit, history, booking, sale, own, listing, converted>>

-----------------------------------------------------------------------------
Start(r) ==
  \/ \E u \in Units, to \in {"hold", "reserved"} : ReserveRead(r, u, to)
  \/ \E u \in Units, b \in Bookings \cup {None}, d \in Dates : SellLockUnit(r, u, b, d)
  \/ \E b \in Bookings : CancelRead(r, b)
  \/ \E s \in Sales, to \in {"cancelled", "reversed"} : EndSaleRead(r, s, to)
  \/ \E o \in Sales : ReverseRead(r, o) \/ ListRead(r, o)
  \/ \E l \in Listings : WithdrawRead(r, l)

Continue(r) ==
  \/ ReserveWrite(r) \/ CancelUpdate(r) \/ CancelCommit(r)
  \/ SellLockBooking(r) \/ SellLockOwner(r) \/ SellCommit(r) \/ SellReject(r)
  \/ EndSaleWrite(r) \/ ReverseWrite(r) \/ ListWrite(r) \/ WithdrawWrite(r)

Next ==
  \/ \E u \in Units, s \in InitialStatuses : CreateProperty(u, s)
  \/ \E u \in Units, s \in DirectStatuses : DirectUpdate(u, s)
  \/ \E b \in Bookings, u \in Units, l \in Leads \cup {None} : CreateBooking(b, u, l)
  \/ \E r \in Requests : Start(r) \/ Continue(r) \/ Abort(r)

Spec == Init /\ [][Next]_vars

\* A request is running code: it goes on as soon as it can.  A row lock is
\* granted in queue order, so one that keeps coming free is eventually got.
FairSpec == Spec /\ \A r \in Requests : SF_vars(Continue(r))

-----------------------------------------------------------------------------
(* Properties *)

\* While create_sale is between its last lock and its commit, the ownership it
\* is about to close is still the only current one (and if it found none, none
\* has appeared): the row locks of sales/service.py make the unique index of
\* migration 023 a second line of defence that never has to act.
OwnerReadStaysCurrent ==
  \A r \in Requests : req[r].step = "sell_owner" =>
    CurrentOwnerships(req[r].unit) = {req[r].row} \ {None}

\* The ledger of a unit is a chain (023: previous_ownership_id "links a resale
\* row back"): nobody's title is followed twice; whoever follows does so on the
\* same unit and from the day the other's period ends; a period that ended
\* without a reversal is followed; and a title that follows nobody's is only
\* given when every earlier period of the unit has ended.
TitleChain ==
  \A s \in Sales : Exists(own, s) =>
    LET next == {t \in Sales : Exists(own, t) /\ own[t].prev = s} IN
    /\ Cardinality(next) <= 1
    /\ \A t \in next : /\ sale[t].unit = sale[s].unit
                       /\ own[t].start = own[s].end /\ own[s].start <= own[t].start
    /\ own[s].end # None /\ own[s].status = "active" => next # {}
    /\ \A t \in Sales : s < t /\ Exists(own, t) /\ own[t].prev = None
                         /\ sale[t].unit = sale[s].unit => own[s].end # None

\* The append-only status history and the sales table tell the same story
\* (034's trigger against create_sale): the service made one 'sold' entry per
\* sale of the unit, so every sale used up a reservation of its own.
Sold == [status |-> "sold", by |-> "service"]
HistoryMatchesSales ==
  \A u \in Units :
    LET sold == {i \in DOMAIN history[u] : history[u][i] = Sold} IN
    /\ Cardinality(sold) = Cardinality({s \in Sales : sale[s].unit = u})
    /\ \A i \in sold : i > 1 => history[u][i - 1].status \in {"hold", "reserved"}

\* A booking is used for at most one sale, of its own unit, and a booking
\* marked 'converted' has that sale (023: "this booking became a
\* property_sales row"), as has every lead marked 'converted' through one.
BookingSoldOnce ==
  LET salesOf(b) == {s \in Sales : Exists(sale, s) /\ sale[s].booking = b} IN
  /\ \A b \in Bookings :
       /\ Cardinality(salesOf(b)) <= 1
       /\ booking[b].status = "converted" => salesOf(b) # {}
       /\ \A s \in salesOf(b) : sale[s].unit = booking[b].unit
                                /\ booking[b].status # "active"
  /\ \A l \in converted : \E b \in Bookings : booking[b].lead = l /\ salesOf(b) # {}

\* The buyer of a unit's latest sale is its current owner, unless that record
\* was reversed, and nobody before the latest buyer still is.
LatestBuyerOwns ==
  \A s \in Sales : Exists(sale, s) /\ (\A t \in Sales : sale[t].unit = sale[s].unit => t <= s)
    => /\ own[s].end = None \/ own[s].status = "reversed"
       /\ CurrentOwnerships(sale[s].unit) \subseteq {s}

\* No sale is ever recorded on a booking that was already cancelled, however
\* the cancellation and the sale interleave (lock_booking_for_update).
CancelledNeverSold ==
  [][\A b \in Bookings, s \in Sales :
       /\ booking[b].status = "cancelled"
       /\ ~Exists(sale, s) /\ sale'[s].status # "absent"
       => sale'[s].booking # b]_vars

\* Of two racing reservations the second never overwrites the first, although
\* both may have read the unit as available (034: "Only 'available' properties
\* can be reserved"): while a unit is on hold or reserved, the service sells it
\* or frees it and writes nothing else.  A direct update may.
ReservationKept ==
  [][\A u \in Units : unit[u] \in {"hold", "reserved"}
       => \/ unit'[u] \in {unit[u], "sold", "available"}
          \/ \E s \in DirectStatuses : DirectUpdate(u, s)]_vars

\* The ledger implements the title register: row s of property_ownerships is
\* title s, and its chain column is the register's succession.
Register == INSTANCE TitleRegister WITH
  Titles  <- Sales,
  granted <- [u \in Units |-> {s \in Sales : Exists(own, s) /\ sale[s].unit = u}],
  holder  <- [u \in Units |-> IF CurrentOwnerships(u) = {} THEN None
                              ELSE CHOOSE s \in CurrentOwnerships(u) : TRUE],
  follows <- {p \in Sales \X Sales : Exists(own, p[2]) /\ own[p[2]].prev = p[1]}

ImplementsRegister == Register!Spec

\* A request that has read or locked something ends: no cycle of lock waits
\* among sales, resales, cancellations, reversals and listings.
RequestsEnd == \A r \in Requests : req[r] # Idle ~> req[r] = Idle

\* bookings/service.py:66 "Only cancellation of an 'active' booking is
\* allowed here": a converted booking stays converted.
ConvertedIsFinal ==
  [][\A b \in Bookings :
       booking[b].status = "converted" => booking'[b].status = "converted"]_vars

\* 023_ownership_ledger.sql:240-242 of ownership_end_date: "Set when this
\* ownership period ends (property resold, or the record reversed)".
ReversedIsEnded == \A s \in Sales : own[s].status = "reversed" => own[s].end # None

\* 023_ownership_ledger.sql:119-121 of a cancelled booking: "the reservation fell
\* through and the unit is free again", here of the only one still active.
CancelledBookingFreesUnit ==
  [][\A b \in Bookings :
       /\ booking[b].status = "active" /\ booking'[b].status = "cancelled"
       /\ \A c \in Bookings \ {b} : booking[c].unit = booking[b].unit
                                      => booking[c].status # "active"
       => unit'[booking[b].unit] \notin {"hold", "reserved"}]_vars

\* properties/service.py:241 promises the "full ownership chain" of a unit:
\* every unit that exists can be read.
UnitsReadable == \A u \in Units : unit[u] # "absent" => Readable(u)

=============================================================================
