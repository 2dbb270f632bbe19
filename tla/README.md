# Specifications of the real-estate CRM

TLA+ models of the backend in `src/backend/app` (FastAPI services over
PostgreSQL, Redis and a telephony provider) and of the SQL in
`src/supabase/migrations` that its transactions rely on. `tlc` checks the
models on small instances; `tlapm` proves the theorems for every value of the
constants.

## The system

The program is a multi-tenant CRM for property sales. Every HTTP request, every
webhook and every job of the background worker gets one database session
(`db/session.py`), that is, one READ COMMITTED transaction, committed at the
end or rolled back on an exception. Components call each other as Python
objects that share this session; they meet other requests only in the tables.
So the hard behaviour is what concurrent transactions do between a read and a
later write, what a row lock or a unique index does about it, and what the
outside world (telephony, WhatsApp, Redis, the process itself) does in between.

| Part | State it keeps | Operations | Hard behaviour | Correct when |
|---|---|---|---|---|
| properties | unit status, append-only status history | create, reserve or hold, read with current owner | two reservations, reservation against sale | a reservation is never overwritten; history and sales agree |
| bookings | booking status | create, cancel, (converted by a sale) | cancellation against sale; the unit's status is another row | a booking is sold once, and a cancelled one never |
| sales | sale, and all ledger tables in one transaction | create (three row locks), cancel, reverse | lock order, two sales of a unit, resale | one chain of ownership per unit |
| ownership ledger | ownership periods, chain, co-owners | reverse, verify, add and remove co-owners | reversal against resale; share sums | one current owner; shares at most 100 as far as a trigger can see |
| resale listings | listing status | open, withdraw, (converted by a resale) | listing against resale | open only on a current period |
| sale payments | payment status, balance view | record, correct | none: rows and a view | balance is amount less discount less received |
| call jobs | job status, attempts | create, prepare, start, complete, reconcile | dial inside a transaction, retries, limits, a lead deleted meanwhile | one dial per attempt, attempts bounded, jobs that can be prepared end |
| call scheduler | Redis lock, batch in memory | tick, dispatch, reconcile | lock TTL shorter than a tick, crash | no job dispatched twice |
| do-not-call | customer flag, contact preference | set, check | set after queueing | no call once set |
| contact, lead, conversation resolution | customers, leads, open conversations | find or create | two first messages | a newcomer gets one contact, one lead, one open thread |
| WhatsApp webhook and AI turn | event log, messages, what the turn did | deduplicate, store, decide, act, reply | redelivery, batches, rollback after a reply went out | a message taken as seen is stored, and answered once |
| Superfone webhooks | event log, calls | deduplicate, correlate, update status | early, repeated, reordered events under two ids | each event handled once |
| voice sessions | transcript, summary, hand-over, outcome | talk, persist lines, summarise, record | late writes, a second socket, model failure, crash | an outcome whole or not at all, one per dial |
| media room (LiveKit) | room and its two legs | prewarm, join, leave, delete | reconnecting socket, half-made bridge, failed deletion | nothing left behind, no customer cut off but by a twin, the room goes |
| assignment, interests, follow-ups | primary flags, open follow-ups, tasks | assign, add, drop, move, cancel | clear-then-insert without an index | what one-by-one requests keep unique is broken by races only |
| hand-overs, appointments | status, assignee, slot | request, accept, book, move, cancel | two acceptances, two bookings | one assignee, no overlap |
| agent tools | idempotency keys | run a tool once per key | retry while running | only calls of a key that ran at once repeat its effect |
| roles and grants | roles, permissions, grants | create, edit, replace, grant, withdraw | permissions read before a withdrawal | delegation never leaves the tenant's permissions |
| tenants, users, tokens, projects, locations, events | reference data and logs | administration | none | plain records |

`PROJECT.json` lists every component with its status, and every hazard with the
line of code where it bites.

## Modules

| Module | Models | Notes |
|---|---|---|
| `TitleRegister` | what the ledger promises | abstract: at most one current title per unit; a title stays in the register, though it may be annulled; a new title replaces the current one |
| `DealPipeline` | properties, bookings, sales, ownerships, listings | one module because `create_sale` writes all of them in one transaction; refines `TitleRegister` |
| `CallJobs` | call jobs, attempts, gateway, scheduler, do-not-call | |
| `LeadDesk` | site visits, hand-overs with their click-to-call bridge, idempotency keys of the tools that create them | |
| `Inbox` | WhatsApp deliveries, contact, lead and conversation resolution, the AI turn, public enquiries, the dashboard trigger | one module because one transaction does all of it |
| `Phone` | one call job on the line: dials, provider events, media sockets, transcript, outcome, CRM events | composes a reduced call job with webhooks and voice sessions |
| `VoiceRoom` | the LiveKit room of one call attempt | what `Phone` calls a socket, seen from the media side |
| `LeadFile` | one lead's assignments, requirement history, interests, follow-ups, staff tasks | |
| `Office` | roles, permissions, grants; co-owner shares | two registers of one tenant's staff, which share the permission check |
| `DealPipelineProofs`, `CallJobsProofs`, `LeadDeskProofs`, `InboxProofs`, `PhoneProofs`, `VoiceRoomProofs`, `LeadFileProofs`, `OfficeProofs` | theorems about each | every component has one |
| `MC...` | symmetry sets, small constants and the bounds of the runs | |

A definition marked `(a mutant...)` is not the code's: it is the plausible bug that
a property is measured against, and no specification uses it.

### DealPipeline

A request (`req[r]`) is an HTTP request in progress: its `step` says how far it
is, the other fields what it has read. A service method that reads, decides and
writes without a lock is two actions, read and write (`EndSaleRead`,
`EndSaleWrite`); the write keeps only the conditions of the SQL statement, and a
method's early returns are the guards of its read. Cancelling a booking is three
(`CancelRead`, `CancelUpdate`, `CancelCommit`), since its UPDATE keeps the row's
lock until the commit. `create_sale` is four: a lock on the unit, on the booking
and on the current ownership, then all writes and the commit at once, since
nothing uncommitted is visible. Row locks are not variables: `UnitLocked`,
`BookingLocked` and `OwnLocked` derive them from the steps, and foreign-key share
locks make bookings and listings wait as well. `SaleRejected` is what the
constraints of migration 023 refuse (a period that ends before it starts, a second
current owner). `SetStatus` is the trigger of migration 034: only a change is
recorded; `by` is a history variable that says whether the service or a direct
update made the entry. `DirectUpdate` is that direct update: the row-level
policies (010_rls_policies.sql:223-228, 018_superadmin_access.sql:362-375) let an
authorized user write any status, also a reserved unit back to available. No
endpoint makes a sold unit available, yet `create_sale` has a branch for resales:
this is the only road to it.

Row ids are numbers in insertion order; a row that does not exist yet is
`"absent"`. The ownership a sale produced has the sale's id.

### CallJobs

`txn[w]` is the transaction of a scheduler process or an HTTP client. The steps
are `claimed` (row locked with SKIP LOCKED, context being prepared), `orphaned`
(claimed, but the lead is deleted, so no context will be found), `checked`
(Do-Not-Call, calling window and limit passed), `dialled` (the provider has the
call). The committed row changes only at the end, so `preparing`, which is
written and overwritten inside one transaction, never shows; `scheduled` is a
status of the enum that no code writes. `attempt[j]` is the sequence of attempt
statuses, its length is `attempt_count`, and `dials[j]` is what the provider
saw. A failed transaction commits the status it left (scheduler and agent
tools do) or rolls back (HTTP endpoints do): `Fail`.

`gone` holds the leads whose `deleted_at` is set, which a direct update does
(`MarkDeleted`). The context of a call needs a live lead (repository.py:139); the
queue's query (orchestrator.py:158-165) does not look. So `PrepareFails` is no
accident: it fails every time, counts no attempt, and the job is offered again at
every tick, for ever. As many such jobs as a batch takes (`BatchSize`), at the
head of the queue, keep every other job from being dispatched. `PrepareBreaks` is
any other error while the context is built, and bounded by `MaxFaults`.
`DialFails` is an exception from the provider's client, which a timeout or an
unreadable answer raises too (integrations/superfone/client.py:101-127): the call
may have been placed all the same, and the retry rings the customer again.

Time is not modelled. The lock TTL (`Expire`), the reconciliation timeout
(`Reconcile`), the scheduled time (`ComeDue`) and the calling window (`Hours`)
may each happen at any moment. The retry delay is not there because the queue
query does not read it. Job ids follow the order of the queue query. Nothing
calls `record_call_completed` on hangup, so an unanswered call ends only by
reconciliation, and its attempt stays in progress.

### LeadDesk

`req[r]` is a request's transaction; its `step` says which statement it has run.
The exclusion constraint of migration 013 is `SlotFree`: PostgreSQL checks it
when a row is written, against committed rows and against the rows that other
transactions have written and not committed. On such a row it waits, and fails
if the other commits; so a clash never writes, and a request that would wait for
ever, or is refused, is an `Abort`. `Book` and `Move` therefore leave a pending
row in the request and `BookCommit`, `MoveCommit` publish it. `Move` is the
PATCH endpoint and the rescheduling tool, which check no status at all, so it
may revive a cancelled visit or move a completed one. The advisory lock of
`book_site_visit` turns a wait into a refusal and changes nothing else; its
checks of customer, lead and project only refuse. Cancelling is a read and an
UPDATE with the same condition.

A hand-over is accepted in three steps (`AcceptRead`, `Ring` or `RingFails`,
`AcceptWrite`), and the provider is called between the read and the write.
`sent` is whether the provider placed the bridge, which the code is told but
does not look at. `Call` is the dispatcher: it looks a key up, runs the tool
and saves the response, which commits with the row (`Commit`). `made`, `rung` and
`connected` are history variables: the rows created under a key, the
click-to-call requests of a hand-over, the staff the provider connected. No
code sets a hand-over to `queued`, `assigned`, `completed` or `cancelled`.

### Inbox

A request is one transaction; a row carries the request that wrote it until it
commits (`Saved`), so others do not see it and wait for it where a unique index
makes them (`Waits`). A delivery is a batch of events. Each is recorded
(`RecordEvent`, the dedup insert), its sender resolved (`ResolveContact`), a lead
found or opened (`MatchLead`, `OpenLead`), the message stored on the open thread
(`Store`); then the AI's turn (`Understand`, `Act`, `Reply`) whose exceptions are
swallowed, and the next event. All of a batch commits or nothing: the webhook
answers 200 either way, so an event comes back (`due`) only as Meta's own
duplicate or after a crash, when there was no answer. `NextAction` is the decision
table of `nodes.py`; what the model extracts is any record of `Readings`.
`outside` counts replies and calls the provider took, which no rollback takes
back; `undone` counts the handlings that were rolled back. `Enquire` and `Trigger`
are the public form and the dashboard, which resolve contacts the same way.
`ChangeStatus` is staff closing or reopening a lead. `broken` is a transaction
that PostgreSQL has aborted though the Python code caught the exception: its
commit will fail.

### Phone

`call[c]` is the c-th dial of the job; `job` has what the other parts look at. A
dial that the provider took is `dialling` until `start_call` commits and `orphan`
if it never does (`CommitDial`, `LoseDial`). A webhook request records its event
under the call's id or the request's (`Id`), waits for another open request with
the same id (`Insertable`), looks the call up (`FindCall`), gives it the call's id
if it has the request's (`NormalizeCall`, which passes a dict that the driver may
refuse: `TakesDicts`), and writes (`HandleEvent`) or rolls back (`EventFails`); an
answer offers the stream whatever became of it. A socket (`stream[s]`) looks its
call up, talks (`Speak`), has its lines written by tasks of their own (`Persist`),
closes, waits for them, summarises and records. `Record` is one transaction with
the gateway's completion as its last step; `NotRecorded` is any refusal. `broke`
is the truth about the model's failures and `degraded` the agent's flag. The
calls between people (`cdr`) live apart: no code inserts their row.

### VoiceRoom

Room and legs belong to LiveKit; `stage[s]` is how far the handler of a socket is.
The room's name is derived from the attempt, so two sockets of a call share it,
and each identity is held by one participant: a second one puts the first out
(`Join`). The room may be made by the prewarm task, by any socket, or by LiveKit
itself when a participant joins (`AutoCreates`, a server setting). `half` holds
the bridges that joined and raised before they kept the connection. A dead
process leaves its legs until LiveKit notices (`DropLeg`); an empty room times
out (`EmptyTimeout`). In a browser test the tester is the customer.
`DeleteRoom` may fail, which the handler swallows: the room is then left to the
timeout.

### LeadFile

A request runs one service method, statement by statement (`at`), and keeps what
it has read (`saw`) and written until `Commit`. Statements wait for rows that
another request has written (`Held`, `LeadFree`). Assigning retires the old
primary and inserts a new row, then updates the lead; interests are cleared and
upserted likewise; a follow-up looks for a near one (900 seconds, `Near`) and moves
it, or inserts. Cancelling a follow-up cancels every waiting job of the lead. A
PATCH of the lead may set the assignee and writes no assignment row, hence
`byDesk`. `task` is the staff's own follow-up table, which knows no transitions.
Two fields of a stored row are history variables: `saw`, the rows its transaction
could see, and for interests `follows`, the rows whose last write came before this
row's last write (an upsert that hits a row writes it anew).

### Office

`Begin` reads the caller's permissions, which the rest of the request uses; each
later statement sees what is committed and waits for uncommitted rows. Replacing
a role's permissions is a read, a delete of what was read and inserts
(`ScanCodes`, `DeleteCodes`, `InsertCodes`); two replacements may leave the union
or hit the primary key (`Fail`). Co-owner shares are checked by the trigger of
migration 023, which sums the rows it sees (`TriggerAllows`); `saw` remembers
them. The trigger fires for deletions too, so a removal may be refused.

## Runs

| Run | Instance | Shows |
|---|---|---|
| `deal_chain` | 1 unit, 2 racing requests, 1 booking, 2 sales, 1 listing, 2 dates, direct updates to 3 statuses | all ledger invariants and refinement of `TitleRegister` through a sale, reversals and a resale |
| `deal_locks` | 2 units, 1 booking of a lead or of nobody, 2 sales (of two units or of one), reversals, direct updates to hold, fairness | a booking is used for its own unit, once; no cycle of the three locks of a sale and a resale and of what waits for them |
| `deal_readable` | 1 unit, 2 sales | violated: a resold unit cannot be read |
| `calls_safety` | 2 schedulers, 1 client, 2 jobs, 2 attempts, 1 fault | retry budget, dials, ended jobs, Do-Not-Call and the lock, with the Redis lock expiring at any time |
| `calls_bound` | 1 scheduler, 1 client, 3 jobs, limit 1, a lead that may be deleted | the limit is passed by at most one call per transaction that counted at the same time |
| `calls_end` | 1 scheduler, 2 jobs, 2 attempts, batches of 2, 1 fault, 2 leads of which 1 may be deleted, fairness | every job that can be prepared ends, beside one that cannot |
| `desk` | 1 agent or none, 2 staff, 2 requests, 2 visits, 3 start times, length 2, 3 hand-overs, 3 rings, 1 key | no double booking, completed visits not cancelled, answers and rows together, keys repeat only what raced, first acceptance stays, late rings bounded |
| `inbox` | 1 newcomer, 2 messages, 2 requests, batches of 2, 2 deliveries each, 2 leads, 1 crash | recorded means stored, answered once, one lead per newcomer |
| `phone` | 2 dials, 2 sockets, 2 handlers, 2 events, 2 lines, 1 fault | outcome whole, once per dial, after the transcript; failures handed over; events once |
| `leadfile` | 2 requests, 2 agents, 2 values, 2 places, 3 times, 3 rows | only races break the primary flags of assignments and of interests, and the follow-up window |
| `office` | 2 requests, 2 users, 1 role of the tenant, 3 co-owners, shares 0, 40, 60 | delegation stays in the tenant; shares within 100 as seen |
| `voice_room` | 3 sockets, a browser, a prewarm, fairness | nothing left behind, only twins part, the room goes |

`deal_readable` is the finding: its property is a sentence of the code's own
documentation, quoted beside the definition and in `PROJECT.json`. Other sentences
that the code breaks are listed under "Where code and words part". The passing
properties assert none of them and deny none of them:

- `TitleChain`, `LatestBuyerOwns` and the register hold whether or not a reversal ends
  the period (migration 023 says it does, the code does not do it).
- `ReservationKept` allows the service to free a reserved unit, and any direct update; what it
  forbids is that one reservation overwrites another, or a sale.
- `KeyRacesOnly` says which effects of a key are repeated, namely those of calls that
  ran at once; that none should be is `OneEffectPerKey`.

Bounds. Two sales are the least with a resale, two requests the least that race,
two dates let a resale be dated before, on or after the sale. `MaxHistory` bounds
direct updates: one is made only while the unit has fewer changes of status than
that, so two give a sale, a direct update back to hold or available, and the
resale; `DirectStatuses` are the statuses that matter to the pipeline. The
service's own changes are not bounded by it. One unit is enough in `deal_chain`,
since rows of different units meet only through a booking, which is `deal_locks`.
That run has no listings, to keep it small: a listing waits for an owner's row as
a reversal does (`OwnLocked`), and the theorem `LockWaitsEnd` covers both. For
calls, three jobs are as many as a limit of one and two transactions beyond it
could start; two attempts give a first, a last and an exhausted job; one fault is
a crash anywhere. `Deletable` is empty in `calls_safety`, to keep it small: a
deleted lead only makes a preparation fail, which leaves no trace but a retry; the
theorems hold for every `Deletable`. In `calls_end` a batch holds two jobs, one of
which may be unable to be prepared, and nobody is put on Do-Not-Call (`OptOuts` is
empty), which would only end jobs sooner or take them out of the property. At the
desk, three start times and length two give visits that coincide, overlap in part
and only touch; two visits and two requests give a pending and a committed row, or
two pending ones; clients set one active status and `completed`, and cancelling
gives an inactive one; three hand-overs are one more than the two requests that
can race, so a key that was not looked up would create the third; the third ring
is the second late one. In the inbox one sender is enough, since contacts meet in
no row; two messages delivered twice give a batch, a repeat and a redelivery of
each. On the phone two dials give a late outcome of the first against the second;
two sockets a first one and its reconnection. A lead needs three rows per table
for a retired, a current and a racing one; times 0, 10 and 20 are near, near and
apart. 40 and 60 fill a property exactly and 60 twice is too much. Three sockets
give a twin of a twin.

Five runs bound the reachable states with a constraint that keeps apart what
cannot influence each other, and are named in the MC module: `Apart` (visits and
hand-overs, which meet in the keys only), and `Focus` in `MCInbox` (one message
with everything that may go wrong, or two messages without crashes), `MCPhone`
(events on one call; talk after one answer; CRM events), `MCLeadFile` (one table
at a time) and `MCOffice` (roles or shares). TLC checks the states at the edge of
a constraint and does not go on from them; combinations beyond these bounds
have not been explored by the runs. The theorems know no such bound.

Symmetry is used over processes, units, leads and people, and in no run with a
liveness property. Where deadlock checking is off the cfg says why: ids are used
up or everything is over.

Fairness. `DealPipeline`: a request that can go on does, strongly, because
PostgreSQL grants a row lock in queue order. Requests need not start. Without
that, `RequestsEnd` says nothing of deadlocks; with it, a cycle of lock waits
would be a counterexample, since `Abort` is never forced: a cancellation that
locked its booking and then updated the unit would make one with a sale (the
mutant of `deal_locks`). `CallJobs`: processes run and timers fire (weak); ticks and
reconciliation recur (strong: the lock and the row keep coming free). `JobsEnd`
assumes that the calling window is open, that faults are bounded and that no HTTP
client keeps taking the job's row (`calls_end` has none: a client in a loop
could), and nothing about calls being answered. It leaves out jobs of a deleted
lead, which do not end, and says nothing while as many of them wait as fill a
batch: then nobody's job need end. `VoiceRoom`: a handler's own code runs
(`Advance`), LiveKit notices participants that are gone and removes empty rooms,
and a tester who is alone in a room leaves; all weak. Nothing makes a customer
hang up, so `RoomGoes` promises only a room that somebody still talks in.

## Proofs

Each component has an inductive invariant, a theorem that it always holds, and
corollaries for the properties the runs check. TLC checked each invariant, or
the part of it that is new, on a small instance first.

`DealPipelineProofs`. `LedgerInv` is about requests and locks: types; for each
request in progress, that what it read exists and has the right sort; no two sales
hold the same unit, no two requests the same booking (`LockExclusive`,
`BookingExclusive`); an ownership has its sale; at most one ownership of a unit is
current; and between the last lock and the commit the ownership read is the
current one (`OwnerReadStaysCurrent`). The last two need each other: the commit
keeps the first because it ends exactly the row the second speaks of, and the
second survives other requests because `LockExclusive` keeps their commits off the
unit. `OneRequestMoves` reduces every step that inserts no row to the request that
moved, so only the commit needs the whole argument (`CommitInv`).

`DealInv` adds what the rows say of each other. `TitleChain` counts, and counts
are no use as a hypothesis, so `ChainInv` says the same with rows: a title that
follows another starts on the same unit when that one ends (`LinkedBack`), no two
follow the same one or are both the first (`NoForks`), there is a first and
whatever ended is followed (`Unbroken`), and a unit that was sold has a current
row no older than any of its sales (`LatestOwns`). This is more than the
properties say, since it is about the code as it is, where a reversal ends no
period; `TitleChain` and `LatestBuyerOwns`, of which `OwnerCorrect` is the
theorem, promise the owner only of records that are not reversed. A commit appends
to this chain because of `OwnerReadStaysCurrent`. `RequestKnows` is what a request
relies on although it read it in an earlier step: the unit can be sold as long as
it is locked (a direct update waits for the lock), the booking can be converted as
long as it is. From it follow `SoldBookings` (`BookingSoldOnce`,
`CancelledNeverSold`) and, with `HistoryEnds`, that every sale adds one entry
"sold" of the service's after a reservation (`HistoryMatchesSales`).
`RegisterImplemented` is the refinement of `TitleRegister`: under the mapping of
`DealPipeline` the initial state is the register's, a commit of `create_sale` is a
transfer (a first title or a succession), and everything else stutters; the
register's `Annul` is what the documented end of a reversed record would be.

`CallJobsProofs`. `CallInv` is about rows and their locks: types; a transaction
past idle holds a job that may be dispatched, with an attempt left (`TxnInv`);
the budget (`AttemptBudget`); no two transactions hold one job
(`JobExclusive`). `JobExclusive` comes from the row lock alone: the Redis lock
occurs nowhere in the proof, so its expiry cannot matter. `TerminalStays` is an
action property proved from `CallInv`.

`CallsInv` adds the counts. `JobDials` says which attempt a dial may be of: of the
recorded ones, or of the next one while a worker is about to commit it; a
crash there costs one of `faults`, which is why `calls <= 1 + faults` is the
bound. `LimitInv` counts calls in progress and workers past the check
together: a worker that passes the check was within the limit by its own
reading, so the others past it are all the excess there can be.
`DoNotCallKept` is an action property over the calls a lead has been placed;
it needs that a transaction's lead is its row's (`LeadInv`).

`LeadDeskProofs`. `DeskInv` is about visits and locks: types; what each request
has found (`Legal`); no clash between committed rows (`CommittedApart`), which
needs that a pending row clashes with no committed row but the one it replaces,
and with no other pending row (`PendingApart`); a hand-over being inserted is not
there yet and inserted by one request (`InsertedOnce`); and `AnswerMatchesEffect`.
Three lemmas say what a step does to it: `RequestMoves` (no row is written),
`RequestWrites` (a row passes the constraint) and `VersionCommitted` (a pending
row replaces the committed one). `NobodyDoubleBooked` follows from
`CommittedApart`: `ApartNotOccupied` turns ranges that do not overlap into moments
nobody shares. `FirstAcceptStays` is an action property that uses `InsertedOnce`.

`CountInv` adds tokens: the rows made under a key and the calls still running
under it fit in the requests there are (`KeysInv`), since a call that starts
after a commit finds the answer; the late rings of an accepted hand-over and the
requests still accepting it are fewer than the requests, one of which is the one
that accepted (`RingsInv`). `StampsInv` says that a pending version of a visit
carries the stamp of the row it replaces, so publishing it stamps nothing
(`CompletedSpared`).

`InboxProofs`. `InboxInv` says, row by row, what an open request still owes. A
request has written the row of the message it handles, not answered it, and
holds a contact and a lead it can see (`RequestSound`); a message is on a lead of
its sender once the request that wrote it has gone on (`MessageSound`); an
uncommitted lead is open and held by nobody else (`LeadSound`); the contact a
request wrote comes with a lead, or will (`ContactSound`). `DedupStored` is what
`MessageSound` says of committed rows, `AnswersBounded` what it says of `outside`
and `undone`. `OneLeadPerNewcomer` is a statement about committed leads and
becomes inductive as `PairSound`: of two leads resolved for a newcomer, the later
was opened because some lead had been closed, or because the same request was
about to close it. The hard step is the end of a transaction (`EndsStep`), which
rewrites every table. `EscalatesFirst` has an invariant of its own on top
(`EscalationInv`: nothing is done for a message before the decision, and the plan
of a request that acts says of a person what the message's row says).

`PhoneProofs`. `PhoneInv` is inductive: types; a request at work has an event
(`Received`, without which the row it writes has no type); `SocketInv`; and
`OutcomeDue`. `OutcomesMatchDials` alone is not inductive: a second report must
find the job no longer being called, so the invariant says that an outcome is
still missing while it is. `SeenMoves` and `OutcomeMoves` reduce every step to
what it does to the two counts. `SocketInv` has what each socket owes: it talks on
a committed dial, the agent's flag remembers every failure, the summary says what
the flag said, and nothing is being written once the writes were awaited; and
what it leaves. Nothing is known of a dial that is not committed
(`NothingBeforeDial`), so a commit that opens an attempt cannot undo a completed
one. `OneSocketMoves` and `OthersKeepSockets` carry all steps but the recording
itself, which is `RecordKeeps`. `EventsOnce` needs `EventsApart`: requests open at
the same time handle different ids, none of them handled before. `LinesKept` is
the action property `TranscriptKept`.

`VoiceRoomProofs`. `RoomInv` is inductive: types; a half-made bridge is being torn
down (`HalfMade`); a browser test has no bridge; `NothingLeftBehind`; and a socket
that is the only one holds what it joined (`LegsHeld`). The steps that put
somebody out need the second and the third.

`LeadFileProofs`. A request that has looked and has not inserted yet breaks
nothing by itself, so `FileInv` says what it may rely on meanwhile (`Known`): what
it saw and has not cleared it holds the row of, and of the follow-ups it saw none
is near. The unique index on interests gives `InsertersApart` and `PlaceUnique`;
`RowsSaw` keeps a writer's sight to older rows. With them `PrimariesRaced`,
`PrimaryInterestsRaced`, `AssigneeIsCurrent` and `OpenFollowUpsRaced` are inductive
together. `PrimaryInterestsRaced` (theorem `InterestsOnlyRace`) goes by the order of
the writes and not of the ids, because an upsert may make an old row the newer one.

`OfficeProofs`. `OfficeInv` adds to `TenantRolesStayTenant` that every request in
progress is about to write only what its check allowed (`Checked`) and that nobody
of the tenant holds the platform's role (`NobodySuper`). The permissions a request
was checked against may be withdrawn since, but they were a tenant's when read:
`PermittedIsTenants` says that no grant in the tenant could have given others.

`SharesStayInSight` is about a sum over a set, which the trigger computes and the
model folds. The induction this needs is over the parts of a finite set:
`LeastPart` (from the library's `WFMin`, on the strict subset order) gives a
smallest part for which a statement fails, and the lemmas under "Sums over finite
sets" refute it. They say that a sum exists and is unique, that it does not depend
on the order of the addition (`SumTakes`), and that it grows with its set
(`SumMonotonic`); `TotalIsSum` says that `Total` is one. On this rests `ShareInv`:
co-owners saw only rows that are still there; a pending insert fits what it saw
(`AddFits`), although rows may have left meanwhile; no two requests have written
the same row (`OneWriter`); and `SightSums`, which is `SharesSeen` itself. When an
insert commits, nobody has seen its row yet, so whoever is in sight of it was seen
by it: the sum is within the one its trigger checked.

The proofs assume what the modules' ASSUMEs say: ids and times are numbers, None
is nobody's id, a request is not one of the marks of `Inbox` rows, a limit, a
budget and a length are positive, an agent is not a requirement, calls are
finitely many. The theorems that count assume finitely many processes
(`WorkerAssumption`, `RequestAssumption`), which is what a server runs. Nothing
else is assumed about the sizes of sets.

Model-checked only. Liveness (`RequestsEnd`, `JobsEnd`, `RoomGoes`) and what
enables a step are out of the prover's reach. What is proved is the safety each of
them rests on: that nothing gets into a state from which no step would take it.

- `LockWaitsEnd`, for `RequestsEnd`: locks are taken in one order (unit, booking,
  owner), and whoever waits, some sale or cancellation that holds locks can go on. A sale that
  holds its unit waits for a booking at most; it never waits for the owner's row,
  because a sale that has locked that row has locked its unit too
  (`OwnerReadStaysCurrent` and `LockExclusive`); and a cancellation that has locked
  its booking commits without another lock. The theorem also ties `Waits` to
  the guards of the actions: a request that waits takes no step.
- `NoJobIsLost`, for `JobsEnd`: a job that has not ended is in a transaction, or the
  reconciliation looks for its status, or it is not due, or its customer is on
  Do-Not-Call, or the scheduler's query returns it (which is not to say that it can
  be prepared). Besides the budget it needs that
  no row is ever 'scheduled' (`NeverParked`), a status that the transition matrix has
  and the query leaves out.
- `NobodyIsStuck`, for `RoomGoes`: whoever is in the room leaves it, or LiveKit drops
  the connection.

TLC checked each on the instance of the run that checks its liveness property
before it was proved.

`LeadFile!TypeOK` has a conjunct that no theorem states, the bound `MaxRows` on the
lengths of its tables: it is the model's and not the code's, no property needs it,
and `FileInv` has the types without it (`Typed`). TLC finds `TypeOK` to hold when it
is added to `MCLeadFile_safety.cfg`.

## Where code and words part

Besides `UnitsReadable`, the property of `deal_readable`, the modules state some
more sentences of the code's comments, as definitions that no run lists because
the model, like the code, breaks them. TLC finds each counterexample when the
definition is added to a cfg of its module.

| Definition | Says | How it breaks |
|---|---|---|
| `DealPipeline!ConvertedIsFinal` | bookings/service.py:66, only an active booking is cancelled | a sale commits between the read and the UPDATE, which has no status condition |
| `DealPipeline!ReversedIsEnded` | 023_ownership_ledger.sql:240-242, the end date is set when the property is resold or the record reversed | reversing sets the status only (ownerships/repository.py:290): the reversed record stays the current one, and the next resale is chained to it |
| `DealPipeline!CancelledBookingFreesUnit` | 023_ownership_ledger.sql:119-121 and 55, a cancelled booking leaves the unit free | cancelling writes the booking only (bookings/service.py:95): the unit stays on hold or reserved, and no endpoint frees it |
| `CallJobs!ConcurrencyLimit` | gateway.py:232, the tenant's limit | calls are counted without a lock (`CallsBounded` says by how much) |
| `CallJobs!TransitionsValid` | orchestrator.py:17, the transition matrix | reconciliation moves `ready` to `retry_pending` |
| `LeadDesk!AcceptedMeansConnected` | handoff_service.py:121, no human believed connected after a failed bridge | only an exception counts as failure |
| `LeadDesk!OneEffectPerKey` | 022_call_lifecycle_hardening.sql:9-10, the keys prevent duplicate side effects across retries | a retry that starts while the first call is open finds no answer either, and runs the tool (agent/tools/__init__.py:116): two rows for one key |
| `Inbox!NeverSilenced` | webhook docstring: the record never depends on the AI layer | an error swallowed in the AI turn has aborted the transaction; its COMMIT rolls back and raises nothing |
| `Inbox!SpeechlessEscalates` | `WhatsAppAgent.compose`: no words, so a person takes over | the missing reply is noted and nothing else happens |
| `LeadFile!OneCurrentAssignment` | 007_sales.sql:39-41, one primary | two assignments race |
| `Office!SharesWithin100` | 023_ownership_ledger.sql, the sum never exceeds 100 | each of two triggers sees its own row |
| `Phone!SummaryHasTranscript` | agent.py:195-197, no summary without its transcript | a failed line is swallowed; a reconnected socket numbers from 1 and its lines are dropped |
| `Phone!SocketFindsCall` | `build_stream_response`, the URL's id is the row's | the answer puts the request's id in the URL while the row gets the call's |
| `Phone!DegradedEndsWithHandoff` | `respond`, a failure ends in a hand-over | it is rolled back with an outcome that somebody else reported first |
| `VoiceRoom!TalkersHaveRoom` | livekit_gateway.py:212-213, a reconnecting stream re-enters the room | the first socket's teardown deletes it |

Two more hold, are in no run and are proved: `Inbox!EscalationFirst` (a message
that wants a person makes the AI do nothing else) and `Phone!TranscriptKept` (a
line of the transcript is never replaced). Other behaviour worth knowing, with no
promise against it: a job of a deleted lead is retried at every tick and never
ends; an answer event after the hangup reopens a call; an event that precedes its
call row is marked processed for good; a late outcome of attempt 1 completes the
job that attempt 2 is calling; rescheduling revives a cancelled follow-up;
deactivating a role races a grant of it; two users may withdraw each other's last
role.

## What is left

Liveness stays with TLC. An open listing on an ended period
(`create_listing` reads, then inserts) is in the model of `DealPipeline`, and a
call reopened by a late answer is in `Phone`; no run states them, since nothing in
the code promises otherwise.

## Not modelled

What a language model answers, audio frames, HTTP clients, search and listing
endpoints, analytics views, middleware, logging, configuration and field
validation. Delivery statuses of WhatsApp messages are written as they arrive, so
a late `delivered` overwrites `read`; nothing reads them for a decision. Sale
payments are rows and a view over them. Row-level policies are declarative; what
they let users write past the services is modelled where a component depends on
it: a unit's status (`DirectUpdate`) and a lead's `deleted_at` (`MarkDeleted`).
`projects`, `locations`, `tenants`, `users`, tokens, `events` and the rest of
`customers` are records without a protocol. The rate limiter of the public form (a
Redis INCR and, separately, its EXPIRE) only refuses.
