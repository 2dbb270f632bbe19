------------------------------- MODULE LeadDesk -------------------------------
(***************************************************************************)
(* What staff and AI agents do for a lead: site visits under the exclusion *)
(* constraint of migration 013, hand-overs to a person with a click-to-    *)
(* call bridge, and the tool dispatcher whose idempotency keys cover the   *)
(* requests that create either.                                            *)
(*                                                                         *)
(* A request is one transaction.  A row it has written and not committed   *)
(* (`pending`) is invisible to reads but not to the constraint.            *)
(***************************************************************************)
EXTENDS Naturals, Sequences, FiniteSets

CONSTANTS
  Agents,      \* sales agents
  Users,       \* staff who accept hand-overs
  Requests,    \* concurrent requests
  Keys,        \* idempotency keys clients send
  Times,       \* start times, on some clock
  Lengths,     \* durations
  NewStatuses, \* statuses a client may set
  MaxVisits, MaxHandoffs,  \* bounds on the tables
  MaxRings                 \* bound: click-to-call requests placed

None == 0

ASSUME DeskAssumption ==
  /\ None \notin Agents \cup Users
  /\ Times \subseteq Nat /\ Lengths \subseteq Nat \ {0}
  /\ MaxVisits \in Nat /\ MaxHandoffs \in Nat /\ MaxRings \in Nat

VisitStatuses == {"pending", "confirmed", "completed", "cancelled", "rescheduled", "no_show"}
ASSUME StatusAssumption == NewStatuses \subseteq VisitStatuses
\* The server handles some requests at a time, and finitely many.
ASSUME RequestAssumption == IsFiniteSet(Requests) /\ Requests # {}

VARIABLES
  visit,     \* appointments
  handoff,   \* sales_handoffs
  answer,    \* operation_idempotency_keys: the row the stored response names
  made,      \* rows whose creation was committed under each key (history)
  rung,      \* per hand-over and click-to-call request: was it accepted by then (history)
  connected, \* staff whose bridge the provider did send (history)
  req        \* what each request has read or written so far

vars == <<visit, handoff, answer, made, rung, connected, req>>

Visits   == 1..MaxVisits
Handoffs == 1..MaxHandoffs
Tools    == {"schedule_site_visit", "request_sales_agent_transfer"}
\* The unique constraint: one response per key and operation.
Operations == Keys \X Tools
NoKey == <<None, "none">>

\* stamped: cancelled_at is set.
VisitRow == [status : VisitStatuses, agent : Agents \cup {None}, at : Times,
             len : Lengths, stamped : BOOLEAN]
NoVisit   == [status |-> "absent"]
HandoffRow == [status : {"absent", "requested", "accepted"}, user : Users \cup {None}]

\* id is a visit or a hand-over, by step; row is the pending row of a visit.
Idle == [step |-> "idle", op |-> NoKey, id |-> None, user |-> None, row |-> NoVisit]
ReqRow == [step : {"idle", "scheduling", "transferring", "booked", "moved", "requested",
                   "cancelling", "accepting", "rung"},
           op : Operations \cup {NoKey}, id : Nat, user : Users \cup {None},
           row : VisitRow \cup {NoVisit}]

TypeOK ==
  /\ visit \in [Visits -> VisitRow \cup {NoVisit}]
  /\ handoff \in [Handoffs -> HandoffRow]
  /\ answer \in [Operations -> Nat]
  /\ made \in [Operations -> SUBSET Nat]
  /\ rung \in [Handoffs -> Seq(BOOLEAN)]
  /\ connected \in [Handoffs -> SUBSET Users]
  /\ req \in [Requests -> ReqRow]

Init ==
  /\ visit = [v \in Visits |-> NoVisit]
  /\ handoff = [h \in Handoffs |-> [status |-> "absent", user |-> None]]
  /\ answer = [o \in Operations |-> None]
  /\ made = [o \in Operations |-> {}]
  /\ rung = [h \in Handoffs |-> <<>>]
  /\ connected = [h \in Handoffs |-> {}]
  /\ req = [r \in Requests |-> Idle]

-----------------------------------------------------------------------------
(* Rows and the exclusion constraint *)

\* The rows with a version that is not committed yet.
Writing(r) == req[r].step \in {"booked", "moved"}
RowLocked(v) == \E r \in Requests : Writing(r) /\ req[r].id = v

\* Ids are drawn in order.
Unused(v) == visit[v] = NoVisit /\ ~RowLocked(v)
NextVisit(v) == Unused(v) /\ \A w \in Visits : w < v => ~Unused(w)

Active(row) == row # NoVisit /\ row.status \notin {"cancelled", "rescheduled"}

Overlap(a, b) == a.at < b.at + b.len /\ b.at < a.at + a.len

Clash(a, b) == /\ Active(a) /\ Active(b)
               /\ a.agent = b.agent /\ a.agent # None
               /\ Overlap(a, b)

\* Another transaction's pending row makes the insert or update wait; once that
\* commits, the clash is with a committed row, and the request fails (Abort).
FreeOfCommitted(v, row) == \A w \in Visits \ {v} : ~Clash(row, visit[w])  \* (a mutant)
SlotFree(v, row) ==
  /\ \A w \in Visits \ {v} : ~Clash(row, visit[w])
  /\ \A r \in Requests : Writing(r) => ~Clash(row, req[r].row)

-----------------------------------------------------------------------------
(* The tool dispatcher *)

LookupMisses(o) == TRUE                       \* (a mutant: the answer is not looked up)
Unanswered(o) == o \in Operations => answer[o] = None

\* A tool call with a key, or an endpoint or workflow without one.  With a
\* stored answer there is nothing to do.
Call(r, o, step) ==
  /\ req[r] = Idle /\ Unanswered(o)
  /\ req' = [req EXCEPT ![r] = [Idle EXCEPT !.step = step, !.op = o]]
  /\ UNCHANGED <<visit, handoff, answer, made, rung, connected>>

Schedule(r) == \E o \in (Keys \X {"schedule_site_visit"}) \cup {NoKey} :
                 Call(r, o, "scheduling")
Transfer(r) == \E o \in (Keys \X {"request_sales_agent_transfer"}) \cup {NoKey} :
                 Call(r, o, "transferring")

\* The response of a call that succeeded is saved, unless a racing call with the
\* key saved first; it commits with the row itself.
ScopeOfKey(o) == {p \in Operations : p[1] = o[1]}   \* (a mutant: operation_type ignored)
Scope(o) == {o}
Commit(r) ==
  /\ answer' = [o \in Operations |->
                  IF o \in Scope(req[r].op) /\ answer[o] = None THEN req[r].id ELSE answer[o]]
  /\ made' = [o \in Operations |->
                IF o = req[r].op THEN made[o] \cup {req[r].id} ELSE made[o]]
  /\ req' = [req EXCEPT ![r] = Idle]

-----------------------------------------------------------------------------
(* Site visits *)

NewVisit(agent, at, len) ==
  [status |-> "pending", agent |-> agent, at |-> at, len |-> len, stamped |-> FALSE]

\* book_site_visit.  Its advisory lock only turns a wait into a refusal.
Book(r, v, agent, at, len) ==
  LET row == NewVisit(agent, at, len) IN
  /\ req[r].step = "scheduling"
  /\ NextVisit(v) /\ SlotFree(v, row)
  /\ req' = [req EXCEPT ![r].step = "booked", ![r].id = v, ![r].row = row]
  /\ UNCHANGED <<visit, handoff, answer, made, rung, connected>>

BookCommit(r) ==
  /\ req[r].step = "booked"
  /\ visit' = [visit EXCEPT ![req[r].id] = req[r].row]
  /\ Commit(r)
  /\ UNCHANGED <<handoff, rung, connected>>

\* PATCH and the rescheduling tool: any field, in any status.
Move(r, v, agent, at, len, status) ==
  LET row == [visit[v] EXCEPT !.status = status, !.agent = agent, !.at = at, !.len = len] IN
  /\ req[r] = Idle
  /\ visit[v] # NoVisit /\ ~RowLocked(v)
  /\ SlotFree(v, row)
  /\ req' = [req EXCEPT ![r] = [Idle EXCEPT !.step = "moved", !.id = v, !.row = row]]
  /\ UNCHANGED <<visit, handoff, answer, made, rung, connected>>

MoveCommit(r) ==
  /\ req[r].step = "moved"
  /\ visit' = [visit EXCEPT ![req[r].id] = req[r].row]
  /\ req' = [req EXCEPT ![r] = Idle]
  /\ UNCHANGED <<handoff, answer, made, rung, connected>>

\* The service checks the status it read; the UPDATE checks the one it finds.
AnyStatus(v) == visit[v] # NoVisit                                          \* (a mutant)
Cancellable(v) == visit[v] # NoVisit /\ visit[v].status \notin {"cancelled", "completed"}

CancelledRow(row) == [row EXCEPT !.status = "cancelled", !.stamped = TRUE]

CancelRead(r, v) ==
  /\ req[r] = Idle
  /\ visit[v] # NoVisit /\ visit[v].status \notin {"cancelled", "completed"}
  /\ req' = [req EXCEPT ![r] = [Idle EXCEPT !.step = "cancelling", !.id = v]]
  /\ UNCHANGED <<visit, handoff, answer, made, rung, connected>>

CancelWrite(r) ==
  LET v == req[r].id IN
  /\ req[r].step = "cancelling"
  /\ ~RowLocked(v) /\ Cancellable(v)
  /\ visit' = [visit EXCEPT ![v] = CancelledRow(@)]
  /\ req' = [req EXCEPT ![r] = Idle]
  /\ UNCHANGED <<handoff, answer, made, rung, connected>>

-----------------------------------------------------------------------------
(* Hand-overs *)

UnusedHandoff(h) == /\ handoff[h].status = "absent"
                    /\ \A r \in Requests : req[r].step = "requested" => req[r].id # h
NextHandoff(h) == UnusedHandoff(h) /\ \A g \in Handoffs : g < h => ~UnusedHandoff(g)

RequestHandoff(r, h) ==
  /\ req[r].step = "transferring"
  /\ NextHandoff(h)
  /\ req' = [req EXCEPT ![r].step = "requested", ![r].id = h]
  /\ UNCHANGED <<visit, handoff, answer, made, rung, connected>>

RequestCommit(r) ==
  /\ req[r].step = "requested"
  /\ handoff' = [handoff EXCEPT ![req[r].id].status = "requested"]
  /\ Commit(r)
  /\ UNCHANGED <<visit, rung, connected>>

Exists(h) == handoff[h].status # "absent"     \* (a mutant: the status is not checked)
OpenHandoff(h) == handoff[h].status = "requested"

AcceptRead(r, h, u) ==
  /\ req[r] = Idle
  /\ OpenHandoff(h)
  /\ req' = [req EXCEPT ![r] = [Idle EXCEPT !.step = "accepting", !.id = h, !.user = u]]
  /\ UNCHANGED <<visit, handoff, answer, made, rung, connected>>

Rings == UNION {{h} \X DOMAIN rung[h] : h \in Handoffs}

\* click_to_call answers with 200; whether its sentSuccess is true is not looked
\* at.
Ring(r, sent) ==
  LET h == req[r].id u == req[r].user IN
  /\ req[r].step = "accepting" /\ Cardinality(Rings) < MaxRings
  /\ rung' = [rung EXCEPT ![h] = Append(@, handoff[h].status = "accepted")]
  /\ connected' = IF sent THEN [connected EXCEPT ![h] = @ \cup {u}] ELSE connected
  /\ req' = [req EXCEPT ![r].step = "rung"]
  /\ UNCHANGED <<visit, handoff, answer, made>>

\* It raises: refused, unreachable, or timed out with the bridge placed.
RingFails(r, sent) ==
  LET h == req[r].id u == req[r].user IN
  /\ req[r].step = "accepting" /\ Cardinality(Rings) < MaxRings
  /\ rung' = [rung EXCEPT ![h] = Append(@, handoff[h].status = "accepted")]
  /\ connected' = IF sent THEN [connected EXCEPT ![h] = @ \cup {u}] ELSE connected
  /\ req' = [req EXCEPT ![r] = Idle]
  /\ UNCHANGED <<visit, handoff, answer, made>>

AcceptWrite(r) ==
  LET h == req[r].id IN
  /\ req[r].step = "rung"
  /\ handoff' = IF OpenHandoff(h)
                THEN [handoff EXCEPT ![h] = [status |-> "accepted", user |-> req[r].user]]
                ELSE handoff
  /\ req' = [req EXCEPT ![r] = Idle]
  /\ UNCHANGED <<visit, answer, made, rung, connected>>

-----------------------------------------------------------------------------
\* A refusal, an error or a crash: everything uncommitted is rolled back.
Abort(r) ==
  /\ req[r] # Idle
  /\ req' = [req EXCEPT ![r] = Idle]
  /\ UNCHANGED <<visit, handoff, answer, made, rung, connected>>

VisitStep(r) ==
  \/ Schedule(r) \/ BookCommit(r) \/ MoveCommit(r) \/ CancelWrite(r)
  \/ \E v \in Visits : CancelRead(r, v)
  \/ \E v \in Visits, agent \in Agents \cup {None}, at \in Times, len \in Lengths :
       \/ Book(r, v, agent, at, len)
       \/ \E status \in NewStatuses : Move(r, v, agent, at, len, status)

HandoffStep(r) ==
  \/ Transfer(r) \/ RequestCommit(r) \/ AcceptWrite(r)
  \/ \E h \in Handoffs : RequestHandoff(r, h)
  \/ \E h \in Handoffs, u \in Users : AcceptRead(r, h, u)
  \/ \E sent \in BOOLEAN : Ring(r, sent) \/ RingFails(r, sent)

Next == \E r \in Requests : VisitStep(r) \/ HandoffStep(r) \/ Abort(r)

Spec == Init /\ [][Next]_vars

-----------------------------------------------------------------------------
(* Properties *)

\* "No agent can have two overlapping active appointments" (migration 013),
\* whatever bookings, moves and revivals of cancelled visits run at once.
Occupied(v) == IF Active(visit[v]) /\ visit[v].agent # None
               THEN {visit[v].agent} \X (visit[v].at .. visit[v].at + visit[v].len - 1)
               ELSE {}
NoDoubleBooking ==
  \A v, w \in Visits : v # w => Occupied(v) \cap Occupied(w) = {}

\* cancelled_at is never put on a visit that has meanwhile been completed, or
\* cancelled by somebody else, since the cancelling request read it.
CancelSparesCompleted ==
  [][\A v \in Visits :
       /\ visit[v] # NoVisit /\ ~visit[v].stamped /\ visit'[v].stamped
       => visit[v].status \notin {"cancelled", "completed"}]_vars

\* A stored response names a row that was created under its key, and a row
\* created under a key has left a response: a crash or a refusal never leaves
\* one without the other.
AnswerMatchesEffect ==
  \A o \in Operations : IF answer[o] = None THEN made[o] = {} ELSE answer[o] \in made[o]

\* "preventing duplicate side effects across tool calls and API retries"
\* (022_call_lifecycle_hardening.sql:9-10): a key creates one row. It does not:
\* the answer is looked up before the row is written and saved after it, so two
\* calls that run at once both write one.
OneEffectPerKey == \A o \in Operations : Cardinality(made[o]) <= 1

\* What the key does bound: at most as many rows as calls with it were running at
\* once. A retry that starts after a commit finds the answer, and only calls that
\* looked before it may create another row.
KeyRacesOnly ==
  \A o \in Operations : Cardinality(made[o]) <= Cardinality(Requests)

\* "A double-accept race is a clean no-op, not a silent overwrite"
\* (accept_sales_handoff): who accepted first stays the assignee.
AssigneeStays ==
  [][\A h \in Handoffs : handoff[h].status = "accepted" => handoff'[h] = handoff[h]]_vars

\* Once a hand-over is accepted, staff are rung for it at most once for each
\* other request that was accepting it by then: nobody starts anew.
LateRingsBounded ==
  \A h \in Handoffs : Cardinality({i \in DOMAIN rung[h] : rung[h][i]}) < Cardinality(Requests)

\* handoff_service.py:121 "a failed bridge must not leave the system believing
\* a human was connected".
AcceptedMeansConnected ==
  \A h \in Handoffs : handoff[h].status = "accepted" => handoff[h].user \in connected[h]

===============================================================================
