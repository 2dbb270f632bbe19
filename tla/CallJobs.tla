------------------------------- MODULE CallJobs -------------------------------
(***************************************************************************)
(* The outbound call queue of one tenant: call_jobs and call_attempts, the *)
(* background scheduler with its Redis lock, the HTTP endpoints and agents *)
(* that dispatch the same jobs, completion, reconciliation of stuck jobs,  *)
(* follow-up cancellation and Do-Not-Call.                                 *)
(*                                                                         *)
(* A dispatch is one transaction: it claims the job row with SKIP LOCKED,  *)
(* checks, dials the customer through the telephony provider, and commits  *)
(* only then.  What it wrote before that is seen by nobody else, so its    *)
(* step stands for it, and the row lock is the step.                       *)
(***************************************************************************)
EXTENDS Naturals, Sequences, FiniteSets

CONSTANTS
  Leads,          \* each with the customer behind it
  Schedulers,     \* app processes that run the scheduler loop
  Clients,        \* HTTP requests and agent sessions that place calls
  Jobs,           \* ids, in the order the queue query sorts its rows
  MaxAttempts,    \* call_jobs.max_attempts
  MaxConcurrent,  \* calls a tenant may have in progress
  BatchSize,      \* jobs a scheduler tick takes
  Hours,          \* what the calling-window check may answer
  MaxFaults,      \* bound: crashes, and preparations that fail by accident
  OptOuts,        \* bound: the leads that may be put on Do-Not-Call
  Deletable       \* bound: the leads that may be deleted

None == 0

ASSUME JobAssumption == Jobs \subseteq Nat \ {None} /\ None \notin Leads
ASSUME LimitAssumption ==
  /\ MaxAttempts \in Nat \ {0} /\ MaxConcurrent \in Nat \ {0}
  /\ BatchSize \in Nat /\ MaxFaults \in Nat
ASSUME LeadAssumption == OptOuts \subseteq Leads /\ Deletable \subseteq Leads
ASSUME HourAssumption == Hours \subseteq BOOLEAN
\* A deployment runs finitely many processes and requests at a time.
ASSUME WorkerAssumption ==
  IsFiniteSet(Schedulers) /\ IsFiniteSet(Clients) /\ None \notin Schedulers

VARIABLES
  job,      \* call_jobs: committed rows
  attempt,  \* call_attempts.status by attempt_number; attempt_count is the length
  dials,    \* the attempt number of each call the provider placed, in order
  dnc,      \* where the customer's Do-Not-Call is recorded, if anywhere
  gone,     \* leads whose deleted_at is set
  lock,     \* holder of the scheduler's Redis lock
  batch,    \* jobs a scheduler has read and not dispatched yet
  ticking,  \* schedulers inside a tick
  txn,      \* the transaction each worker is in
  faults

vars == <<job, attempt, dials, dnc, gone, lock, batch, ticking, txn, faults>>

Workers == Schedulers \cup Clients

Waiting  == {"queued", "scheduled", "retry_pending"}
Terminal == {"completed", "failed", "cancelled"}
Statuses == Waiting \cup Terminal \cup {"ready", "calling"}
\* 'preparing' is written and overwritten inside one transaction, so no
\* committed row ever shows it.

JobRow == [status : Statuses \cup {"absent"}, due : BOOLEAN, lead : Leads \cup {None}]
\* claimed: the row is locked and the lead read for its context; orphaned: it is
\* locked and there was no lead; checked: start_call is about to dial; dialled:
\* the provider took the call.
TxnRow == [step : {"idle", "claimed", "orphaned", "checked", "dialled"},
           job : Jobs \cup {None}, lead : Leads \cup {None}]
Idle == [step |-> "idle", job |-> None, lead |-> None]

TypeOK ==
  /\ job \in [Jobs -> JobRow]
  /\ attempt \in [Jobs -> Seq({"in_progress", "completed"})]
  /\ dials \in [Jobs -> Seq(Nat)]
  /\ dnc \in [Leads -> {"no", "customer", "preference"}]
  /\ gone \subseteq Deletable
  /\ lock \in Schedulers \cup {None}
  /\ batch \in [Schedulers -> SUBSET Jobs]
  /\ ticking \subseteq Schedulers
  /\ txn \in [Workers -> TxnRow]
  /\ faults \in Nat

Init ==
  /\ job = [j \in Jobs |-> [status |-> "absent", due |-> TRUE, lead |-> None]]
  /\ attempt = [j \in Jobs |-> <<>>]
  /\ dials = [j \in Jobs |-> <<>>]
  /\ dnc \in {f \in [Leads -> {"no", "customer"}] : \A l \in Leads \ OptOuts : f[l] = "no"}
  /\ gone = {}
  /\ lock = None
  /\ batch = [d \in Schedulers |-> {}]
  /\ ticking = {}
  /\ txn = [w \in Workers |-> Idle]
  /\ faults = 0

-----------------------------------------------------------------------------
(* Rows, locks and the queue *)

NeverLocked(j) == FALSE   \* (a mutant: a plain SELECT claims the job)
Locked(j) == \E w \in Workers : txn[w].job = j

\* An id for a row to insert, never drawn before.
Free(j) == job[j].status = "absent" /\ ~Locked(j) /\ dials[j] = <<>>

Row(status, due, lead) == [status |-> status, due |-> due, lead |-> lead]

Calling == {j \in Jobs : job[j].status = "calling"}

\* Only customers.do_not_call is looked at here; the preference is left to
\* start_call.
Eligible == {j \in Jobs : /\ job[j].status \in {"queued", "retry_pending"} /\ job[j].due
                          /\ Len(attempt[j]) < MaxAttempts
                          /\ dnc[job[j].lead] # "customer"}

\* The rows one tick takes: LIMIT of ORDER BY.
NextBatch == {j \in Eligible : Cardinality({k \in Eligible : k < j}) < BatchSize}

\* What the retry policy makes of a call that did not get through, given how
\* many attempts were made.
RetriesForever(n) == "retry_pending"                                     \* (a mutant)
AfterFailure(n) == IF n < MaxAttempts THEN "retry_pending" ELSE "failed"

\* A dispatch locks its job and reads the lead: no context is built without a
\* live one, though the queue's query returns the job all the same.
Claim(j, l) == [step |-> IF l \in gone THEN "orphaned" ELSE "claimed", job |-> j, lead |-> l]

\* The transaction of w ends, leaving its job's row in `status`.
Finish(w, status) ==
  /\ job' = [job EXCEPT ![txn[w].job] = Row(status, @.due, txn[w].lead)]
  /\ txn' = [txn EXCEPT ![w] = Idle]
Rollback(w) ==
  /\ txn' = [txn EXCEPT ![w] = Idle]
  /\ UNCHANGED job

-----------------------------------------------------------------------------
(* Jobs come and go without a dispatch *)

\* POST /call-jobs and schedule_call; a Do-Not-Call customer's job is parked.
CreateJob(j, l, due) ==
  /\ Free(j)
  /\ job' = [job EXCEPT ![j] = Row(IF dnc[l] = "no" THEN "queued" ELSE "cancelled", due, l)]
  /\ UNCHANGED <<attempt, dials, dnc, gone, lock, batch, ticking, txn, faults>>

\* scheduled_at passes.
ComeDue(j) ==
  /\ ~job[j].due /\ ~Locked(j)
  /\ job' = [job EXCEPT ![j].due = TRUE]
  /\ UNCHANGED <<attempt, dials, dnc, gone, lock, batch, ticking, txn, faults>>

SetDoNotCall(l, where) ==
  /\ dnc[l] # where
  /\ dnc' = [dnc EXCEPT ![l] = where]
  /\ UNCHANGED <<job, attempt, dials, gone, lock, batch, ticking, txn, faults>>

\* A direct update of the lead sets deleted_at, or clears it.  Here only the
\* preparation of a call looks at it.
MarkDeleted(l) ==
  /\ gone' = IF l \in gone THEN gone \ {l} ELSE gone \cup {l}
  /\ UNCHANGED <<job, attempt, dials, dnc, lock, batch, ticking, txn, faults>>

\* Cancelling a follow-up cancels the lead's jobs that are not being called.
\* The UPDATE waits for rows a dispatch has locked and looks at them again.
CancelFollowUp(l) ==
  LET jobs == {j \in Jobs : job[j].lead = l /\ job[j].status \in Waiting \cup {"ready"}} IN
  /\ jobs # {} /\ \A j \in jobs : ~Locked(j)
  /\ job' = [j \in Jobs |-> IF j \in jobs THEN [job[j] EXCEPT !.status = "cancelled"]
                            ELSE job[j]]
  /\ UNCHANGED <<attempt, dials, dnc, gone, lock, batch, ticking, txn, faults>>

\* A job that sat in an active status past the timeout.  Time is not modelled:
\* any such job may have.  Its attempt stays in progress.
CallingOnly == {"calling"}   \* (a mutant: stranded 'ready' jobs forgotten)
ActiveStatuses == {"ready", "calling"}
Reconcile(j) ==
  /\ job[j].status \in ActiveStatuses /\ ~Locked(j)
  /\ job' = [job EXCEPT ![j].status = AfterFailure(Len(attempt[j]))]
  /\ UNCHANGED <<attempt, dials, dnc, gone, lock, batch, ticking, txn, faults>>

\* The outcome of attempt n is recorded, by the voice agent or over HTTP, and
\* the job moves on, whether or not n is its latest attempt.
CompletableUnchecked(j) == job[j].status # "absent"   \* (a mutant: not validated)
Completable(j) == job[j].status = "calling"
Complete(j, n, through) ==
  /\ Completable(j) /\ ~Locked(j)
  /\ n \in DOMAIN attempt[j]
  /\ attempt' = [attempt EXCEPT ![j][n] = "completed"]
  /\ job' = [job EXCEPT ![j].status =
               IF through THEN "completed" ELSE AfterFailure(Len(attempt[j]))]
  /\ UNCHANGED <<dials, dnc, gone, lock, batch, ticking, txn, faults>>

\* POST /calls/prepare, a transaction of its own, rolled back when it fails.
HttpPrepare(w, j) ==
  /\ txn[w] = Idle
  /\ job[j].status \in Waiting /\ ~Locked(j)
  /\ job[j].lead \notin gone
  /\ job' = [job EXCEPT ![j].status = "ready"]
  /\ UNCHANGED <<attempt, dials, dnc, gone, lock, batch, ticking, txn, faults>>

-----------------------------------------------------------------------------
(* The scheduler *)

\* SET NX PX, then the queue is read.
Tick(d) ==
  /\ d \notin ticking /\ lock = None
  /\ TRUE \in Hours /\ Eligible # {}
  /\ lock' = d /\ ticking' = ticking \cup {d}
  /\ batch' = [batch EXCEPT ![d] = NextBatch]
  /\ UNCHANGED <<job, attempt, dials, dnc, gone, txn, faults>>

\* The next job of the batch, as it is now: one that is locked or has moved on
\* since the queue was read is skipped.
Dispatch(d) ==
  /\ txn[d] = Idle
  /\ \E j \in batch[d] :
       /\ \A k \in batch[d] : j <= k
       /\ batch' = [batch EXCEPT ![d] = @ \ {j}]
       /\ IF job[j].status \in Waiting /\ ~Locked(j)
            THEN txn' = [txn EXCEPT ![d] = Claim(j, job[j].lead)]
            ELSE UNCHANGED txn
  /\ UNCHANGED <<job, attempt, dials, dnc, gone, lock, ticking, faults>>

\* The lock is deleted only if it is still this scheduler's.
ReleaseAny(d) == None                                \* (a mutant: plain DEL)
Release(d) == IF lock = d THEN None ELSE lock

EndTick(d) ==
  /\ d \in ticking /\ batch[d] = {} /\ txn[d] = Idle
  /\ ticking' = ticking \ {d} /\ lock' = Release(d)
  /\ UNCHANGED <<job, attempt, dials, dnc, gone, batch, txn, faults>>

\* The TTL does not know whether the tick is over.
Expire ==
  /\ lock # None /\ lock' = None
  /\ UNCHANGED <<job, attempt, dials, dnc, gone, batch, ticking, txn, faults>>

-----------------------------------------------------------------------------
(* A dispatch: claim, check, dial, commit *)

\* make_instant_call without a job inserts one, unseen until it commits.
InstantCall(c, j, l) ==
  /\ txn[c] = Idle /\ Free(j)
  /\ IF dnc[l] = "no"
       THEN /\ txn' = [txn EXCEPT ![c] = Claim(j, l)]
            /\ UNCHANGED job
       ELSE /\ job' = [job EXCEPT ![j] = Row("cancelled", TRUE, l)]
            /\ UNCHANGED txn
  /\ UNCHANGED <<attempt, dials, dnc, gone, lock, batch, ticking, faults>>

\* POST /calls/start on a prepared job; the lead is not looked at again.
HttpStart(c, j) ==
  /\ txn[c] = Idle
  /\ job[j].status = "ready" /\ ~Locked(j)
  /\ txn' = [txn EXCEPT ![c] = [step |-> "claimed", job |-> j, lead |-> job[j].lead]]
  /\ UNCHANGED <<job, attempt, dials, dnc, gone, lock, batch, ticking, faults>>

\* An exception leaves `status` behind if the caller commits all the same, as
\* the scheduler and the agents' tools do; an HTTP endpoint rolls back.
Fail(w, status) == Finish(w, status) \/ (w \in Clients /\ Rollback(w))

PrepareAborts(w) ==      \* (a mutant: the error ends the tick)
  /\ txn[w].step = "orphaned"
  /\ Fail(w, "retry_pending")
  /\ batch' = [d \in Schedulers |-> IF d = w THEN {} ELSE batch[d]]
  /\ UNCHANGED <<attempt, dials, dnc, gone, lock, ticking, faults>>
\* No attempt is counted, so the queue offers the job again; the rest of the
\* batch is dispatched all the same.
PrepareFails(w) ==
  /\ txn[w].step = "orphaned"
  /\ Fail(w, "retry_pending")
  /\ UNCHANGED <<attempt, dials, dnc, gone, lock, batch, ticking, faults>>

\* Any other error while the context is built.
PrepareBreaks(w) ==
  /\ txn[w].step = "claimed" /\ job[txn[w].job].status # "ready"
  /\ faults < MaxFaults /\ faults' = faults + 1
  /\ Fail(w, "retry_pending")
  /\ UNCHANGED <<attempt, dials, dnc, gone, lock, batch, ticking>>

StartBlocked(w) ==
  /\ txn[w].step = "claimed"
  /\ dnc[txn[w].lead] # "no"
  /\ Finish(w, "cancelled")
  /\ UNCHANGED <<attempt, dials, dnc, gone, lock, batch, ticking, faults>>

\* Not an error: the job is committed as 'ready'.
StartOutsideHours(w) ==
  /\ txn[w].step = "claimed"
  /\ dnc[txn[w].lead] = "no" /\ FALSE \in Hours
  /\ Finish(w, "ready")
  /\ UNCHANGED <<attempt, dials, dnc, gone, lock, batch, ticking, faults>>

StartOverLimit(w) ==
  /\ txn[w].step = "claimed"
  /\ dnc[txn[w].lead] = "no" /\ TRUE \in Hours
  /\ Cardinality(Calling) >= MaxConcurrent
  /\ Fail(w, "ready")
  /\ UNCHANGED <<attempt, dials, dnc, gone, lock, batch, ticking, faults>>

\* The calls other transactions are about to start are not counted.
Callable(l) == Cardinality(Calling) < MaxConcurrent                    \* (a mutant)
CallableOneMore(l) == dnc[l] = "no" /\ Cardinality(Calling) <= MaxConcurrent \* (a mutant)
MayCall(l) == dnc[l] = "no" /\ Cardinality(Calling) < MaxConcurrent

StartPasses(w) ==
  /\ txn[w].step = "claimed"
  /\ MayCall(txn[w].lead) /\ TRUE \in Hours
  /\ txn' = [txn EXCEPT ![w].step = "checked"]
  /\ UNCHANGED <<job, attempt, dials, dnc, gone, lock, batch, ticking, faults>>

Dial(w) ==
  LET j == txn[w].job IN
  /\ txn[w].step = "checked"
  /\ dials' = [dials EXCEPT ![j] = Append(@, Len(attempt[j]) + 1)]
  /\ txn' = [txn EXCEPT ![w].step = "dialled"]
  /\ UNCHANGED <<job, attempt, dnc, gone, lock, batch, ticking, faults>>

\* A number is missing, the provider refuses, or its answer is late or cannot
\* be read: a technical failure, even if it has placed the call.
DialFails(w) ==
  LET j == txn[w].job IN
  /\ txn[w].step = "checked"
  /\ dials' \in {dials, [dials EXCEPT ![j] = Append(@, Len(attempt[j]) + 1)]}
  /\ attempt' = [attempt EXCEPT ![j] = Append(@, "completed")]
  /\ Finish(w, AfterFailure(Len(attempt[j]) + 1))
  /\ UNCHANGED <<dnc, gone, lock, batch, ticking, faults>>

CommitCall(w) ==
  LET j == txn[w].job IN
  /\ txn[w].step = "dialled"
  /\ attempt' = [attempt EXCEPT ![j] = Append(@, "in_progress")]
  /\ Finish(w, "calling")
  /\ UNCHANGED <<dials, dnc, gone, lock, batch, ticking, faults>>

\* The process dies, or the connection: the transaction rolls back, a call the
\* provider took goes on, and a scheduler's lock waits for its TTL.
Crash(w) ==
  /\ txn[w] # Idle \/ w \in ticking
  /\ faults < MaxFaults /\ faults' = faults + 1
  /\ Rollback(w)
  /\ ticking' = ticking \ {w}
  /\ batch' = [d \in Schedulers |-> IF d = w THEN {} ELSE batch[d]]
  /\ UNCHANGED <<attempt, dials, dnc, gone, lock>>

-----------------------------------------------------------------------------
\* What a transaction does next, without an accident.
Proceed(w) ==
  \/ PrepareFails(w)
  \/ StartBlocked(w) \/ StartOutsideHours(w) \/ StartOverLimit(w) \/ StartPasses(w)
  \/ Dial(w) \/ DialFails(w) \/ CommitCall(w)

Next ==
  \/ \E j \in Jobs, l \in Leads, due \in BOOLEAN : CreateJob(j, l, due)
  \/ \E j \in Jobs : ComeDue(j) \/ Reconcile(j)
  \/ \E j \in Jobs, n \in 1..MaxAttempts, through \in BOOLEAN : Complete(j, n, through)
  \/ \E l \in OptOuts, where \in {"no", "customer", "preference"} : SetDoNotCall(l, where)
  \/ \E l \in Leads : CancelFollowUp(l)
  \/ \E l \in Deletable : MarkDeleted(l)
  \/ \E d \in Schedulers : Tick(d) \/ Dispatch(d) \/ EndTick(d)
  \/ Expire
  \/ \E c \in Clients, j \in Jobs : HttpPrepare(c, j) \/ HttpStart(c, j)
  \/ \E c \in Clients, j \in Jobs, l \in Leads : InstantCall(c, j, l)
  \/ \E w \in Workers : Proceed(w) \/ PrepareBreaks(w) \/ Crash(w)

Spec == Init /\ [][Next]_vars

\* Processes run, the TTL is a timer, a scheduled time comes, and ticks and
\* the reconciliation recur for ever (each every few ticks).  Calls need not
\* be answered, completed or even end: only reconciliation is sure to come.
FairSpec ==
  /\ Spec
  /\ WF_vars(Expire)
  /\ \A d \in Schedulers : /\ WF_vars(Dispatch(d)) /\ WF_vars(EndTick(d))
                           /\ SF_vars(Tick(d))
  /\ \A w \in Workers : WF_vars(Proceed(w))
  /\ \A j \in Jobs : WF_vars(ComeDue(j)) /\ SF_vars(Reconcile(j))

-----------------------------------------------------------------------------
(* Properties *)

\* max_attempts is never exceeded, and a job that still waits for a call (or
\* is ready for one) has an attempt left, so no job waits in a queue whose
\* query (attempt_count < max_attempts) would never return it.
AttemptBudget ==
  \A j \in Jobs :
    /\ Len(attempt[j]) <= MaxAttempts
    /\ job[j].status \in Waiting \cup {"ready"} => Len(attempt[j]) < MaxAttempts

\* No attempt is dialled twice unless a crash came between the call and the
\* commit, and one that is in progress was dialled: whatever schedulers and
\* endpoints race for a job, an expired Redis lock included
\* (claim_job_for_update, "prevent double worker claiming").
AttemptsMatchDials ==
  \A j \in Jobs : \A n \in 1..MaxAttempts :
    LET calls == Cardinality({i \in DOMAIN dials[j] : dials[j][i] = n}) IN
    /\ calls <= 1 + faults
    /\ n \in DOMAIN attempt[j] /\ attempt[j][n] = "in_progress" => calls > 0

\* The count in start_call is read outside any lock, so the limit can be
\* passed, but only by the other transactions that counted at the same time.
CallsBounded ==
  Cardinality(Calling) + Cardinality({w \in Workers : txn[w].step \in {"checked", "dialled"}})
    < MaxConcurrent + Cardinality(Workers)

\* A job that has ended stays as it ended, whichever of completion,
\* reconciliation, cancellation and a dispatch comes late.
TerminalIsFinal ==
  [][\A j \in Jobs : job[j].status \in Terminal => job'[j].status = job[j].status]_vars

\* Once a customer is marked Do-Not-Call, no call to them is added to those
\* placed or past the check, whatever is queued, prepared or retried.
JobsOf(l) == {j \in Jobs : \/ job[j].lead = l
                           \/ \E w \in Workers : txn[w].job = j /\ txn[w].lead = l}
CallsTo(l) ==
  Cardinality(UNION {{j} \X DOMAIN dials[j] : j \in JobsOf(l)})
    + Cardinality({w \in Workers : txn[w].lead = l /\ txn[w].step = "checked"})
DoNotCallHonoured ==
  [][\A l \in Leads : dnc[l] # "no" => CallsTo(l)' <= CallsTo(l)]_vars

\* The scheduler lock leaves its holder by the holder's own release or crash
\* or by the TTL, never by another scheduler's late release
\* (call_scheduler.py: "only ever release a lock we still own").
LockLostByTtlOnly ==
  [][\A d \in Schedulers :
       lock = d /\ lock' # d => d \notin ticking' \/ ticking' = ticking]_vars

\* Every job the queue holds ends, unless its customer is put on Do-Not-Call or
\* its lead deleted, or so many jobs of deleted leads wait that they fill every
\* batch: jobs stranded in 'ready' or 'calling' are reconciled, retries run out,
\* and the jobs that can never be prepared, retried at every tick, do not keep
\* the others from being dispatched while they are fewer than a batch.
NeverPrepared == {j \in Jobs : job[j].status \in Waiting /\ job[j].lead \in gone}
JobsEnd ==
  \A j \in Jobs, l \in Leads : job[j].status \in Waiting /\ job[j].lead = l ~>
    \/ job[j].status \in Terminal \/ dnc[l] = "customer"
    \/ l \in gone \/ Cardinality(NeverPrepared) >= BatchSize

\* orchestrator.py:17 "Enforced Call Job State Transition Matrix": with no new
\* attempt, a row moves only along the matrix (a dispatch may make two moves).
Moves == [queued        |-> {"ready", "retry_pending", "cancelled"},
          scheduled     |-> {"ready", "retry_pending", "cancelled"},
          retry_pending |-> {"ready", "cancelled"},
          ready         |-> {"cancelled"},
          calling       |-> {"completed", "retry_pending", "failed", "cancelled"}]
TransitionsValid ==
  [][\A j \in Jobs :
       /\ job[j].status \in DOMAIN Moves /\ job'[j].status # job[j].status
       /\ attempt'[j] = attempt[j]
       => job'[j].status \in Moves[job[j].status]]_vars

\* gateway.py:232 "CHECK TENANT CONCURRENCY LIMITS": no more calls in progress
\* than the limit start_call names in its error.
ConcurrencyLimit == Cardinality(Calling) <= MaxConcurrent

===============================================================================
