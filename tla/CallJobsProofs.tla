---------------------------- MODULE CallJobsProofs ----------------------------
(***************************************************************************)
(* Theorems about CallJobs for any number of jobs, schedulers and clients. *)
(***************************************************************************)
EXTENDS CallJobs, FiniteSetTheorems, SequenceTheorems, TLAPS

USE DEF None

Marks == {"in_progress", "completed"}

\* What the row of a job being dispatched still looks like: nobody else can
\* have moved it since it was claimed, and it has an attempt left.
Dispatchable(j) ==
  /\ job[j].status \in Waiting \cup {"ready", "absent"}
  /\ Len(attempt[j]) < MaxAttempts

TxnInv(w) ==
  \/ txn[w] = Idle
  \/ txn[w].step # "idle" /\ txn[w].job \in Jobs /\ Dispatchable(txn[w].job)

\* The row lock: no two transactions dispatch one job.
JobExclusive ==
  \A v, w \in Workers : v # w /\ txn[v] # Idle /\ txn[w] # Idle
                        => txn[v].job # txn[w].job

\* A row not yet inserted has no attempts.
AbsentUntried == \A j \in Jobs : job[j].status = "absent" => attempt[j] = <<>>

CallInv ==
  /\ TypeOK
  /\ AttemptBudget
  /\ \A w \in Workers : TxnInv(w)
  /\ JobExclusive
  /\ AbsentUntried

-----------------------------------------------------------------------------
(* Lemmas about the operators the actions are built from *)

\* The retry policy gives a status a job may have after n attempts.
LEMMA AfterFailureFacts ==
  ASSUME NEW n \in Nat, n <= MaxAttempts
  PROVE  /\ AfterFailure(n) \in {"retry_pending", "failed"}
         /\ AfterFailure(n) = "retry_pending" => n < MaxAttempts
  BY LimitAssumption DEF AfterFailure

\* A job is locked exactly when a transaction in progress names it.
LEMMA LockedFacts ==
  ASSUME NEW j \in Jobs, NEW w \in Workers, txn[w].job = j
  PROVE  Locked(j)
  BY DEF Locked

\* An idle worker holds no job.
LEMMA IdleFacts == Idle \in TxnRow /\ Idle.job = None /\ Idle.step = "idle"
  BY DEF Idle, TxnRow

\* Only job rows that no transaction holds change, and no attempt is added:
\* the invariant then only has to be shown of the jobs that changed.
LEMMA RowsMove ==
  ASSUME CallInv, TypeOK', UNCHANGED txn,
         \A j \in Jobs : /\ Len(attempt'[j]) = Len(attempt[j])
                         /\ \/ job'[j].status = job[j].status
                            \/ /\ ~Locked(j) /\ job'[j].status # "absent"
                               /\ job'[j].status \in Waiting \cup {"ready"}
                                  => Len(attempt[j]) < MaxAttempts
  PROVE  CallInv'
<1>1. AttemptBudget'
  BY DEF AttemptBudget, CallInv
<1>2. ASSUME NEW w \in Workers PROVE TxnInv(w)'
  <2>1. CASE txn[w] = Idle
    BY <2>1 DEF TxnInv
  <2>2. CASE txn[w] # Idle
    <3>1. TxnInv(w)
      BY DEF CallInv
    <3>2. txn[w].step # "idle" /\ txn[w].job \in Jobs /\ Dispatchable(txn[w].job)
      BY <3>1, <2>2 DEF TxnInv
    <3>3. Locked(txn[w].job)
      BY <3>2 DEF Locked
    <3>4. Dispatchable(txn[w].job)'
      BY <3>2, <3>3 DEF Dispatchable
    <3> QED
      BY <3>2, <3>4 DEF TxnInv
  <2> QED
    BY <2>1, <2>2
<1>3. JobExclusive'
  BY DEF JobExclusive, CallInv
<1>4. AbsentUntried'
  <2>1. \A j \in Jobs : job'[j].status = "absent" => attempt[j] = <<>>
    BY DEF AbsentUntried, CallInv
  <2>2. \A j \in Jobs : attempt'[j] \in Seq(Marks) /\ (Len(attempt'[j]) = 0 => attempt'[j] = <<>>)
    BY EmptySeq DEF TypeOK, Marks
  <2> QED
    BY <2>1, <2>2 DEF AbsentUntried
<1> QED
  BY <1>1, <1>2, <1>3, <1>4 DEF CallInv

\* A transaction goes a step further, or ends and leaves its row behind.
LEMMA TxnMoves ==
  ASSUME CallInv, TypeOK', NEW w \in Workers,
         \A v \in Workers \ {w} : txn'[v] = txn[v],
         \A j \in Jobs : j # txn[w].job => job'[j] = job[j] /\ attempt'[j] = attempt[j],
         \/ /\ txn'[w] = Idle
            /\ txn[w].job \in Jobs =>
                 LET j == txn[w].job IN
                 /\ Len(attempt'[j]) <= MaxAttempts
                 /\ job'[j].status \in Waiting \cup {"ready"} => Len(attempt'[j]) < MaxAttempts
                 /\ job'[j].status = "absent" => attempt'[j] = <<>>
         \/ /\ txn[w] # Idle /\ txn'[w].step # "idle" /\ txn'[w].job = txn[w].job
            /\ job' = job /\ attempt' = attempt
  PROVE  CallInv'
<1>1. AttemptBudget'
  BY DEF AttemptBudget, CallInv
<1>2. AbsentUntried'
  BY DEF AbsentUntried, CallInv
<1>3. \A v \in Workers \ {w} : TxnInv(v)'
  <2> SUFFICES ASSUME NEW v \in Workers \ {w} PROVE TxnInv(v)'
    OBVIOUS
  <2>1. CASE txn[v] = Idle
    BY <2>1 DEF TxnInv
  <2>2. CASE txn[v] # Idle
    <3>1. txn[v].step # "idle" /\ txn[v].job \in Jobs /\ Dispatchable(txn[v].job)
      BY <2>2 DEF CallInv, TxnInv
    <3>2. txn[v].job # txn[w].job
      <4>1. CASE txn[w] = Idle
        BY <3>1, <4>1, IdleFacts, JobAssumption
      <4>2. CASE txn[w] # Idle
        BY <2>2, <4>2 DEF CallInv, JobExclusive
      <4> QED
        BY <4>1, <4>2
    <3>3. Dispatchable(txn[v].job)'
      BY <3>1, <3>2 DEF Dispatchable
    <3> QED
      BY <3>1, <3>3 DEF TxnInv
  <2> QED
    BY <2>1, <2>2
<1>4. TxnInv(w)'
  BY DEF TxnInv, CallInv, Dispatchable
<1>5. JobExclusive'
  BY DEF JobExclusive, CallInv
<1> QED
  BY <1>1, <1>2, <1>3, <1>4, <1>5 DEF CallInv

\* An idle worker claims a job nobody holds.
LEMMA TxnClaims ==
  ASSUME CallInv, TypeOK', UNCHANGED <<job, attempt>>, NEW w \in Workers, txn[w] = Idle,
         \A v \in Workers \ {w} : txn'[v] = txn[v],
         NEW j \in Jobs, ~Locked(j), Dispatchable(j),
         txn'[w].step # "idle", txn'[w].job = j
  PROVE  CallInv'
<1>1. AttemptBudget' /\ AbsentUntried'
  BY DEF AttemptBudget, AbsentUntried, CallInv
<1>2. \A v \in Workers \ {w} : TxnInv(v)'
  BY DEF TxnInv, CallInv, Dispatchable
<1>3. TxnInv(w)'
  BY DEF TxnInv, Dispatchable
<1>4. \A v \in Workers \ {w} : txn'[v].job # j
  BY DEF Locked
<1>5. JobExclusive'
  BY <1>4 DEF JobExclusive, CallInv
<1> QED
  BY <1>1, <1>2, <1>3, <1>5 DEF CallInv

-----------------------------------------------------------------------------
(* Type correctness *)

\* A transaction that ends leaves well-typed tables.
LEMMA FinishType ==
  ASSUME TypeOK, NEW w \in Workers, NEW status \in Statuses, Finish(w, status)
  PROVE  job' \in [Jobs -> JobRow] /\ txn' \in [Workers -> TxnRow]
<1>1. \A j \in Jobs : Row(status, job[j].due, txn[w].lead) \in JobRow
  BY DEF TypeOK, Row, JobRow, TxnRow
<1> QED
  BY <1>1, IdleFacts DEF Finish, TypeOK

\* A status written on a row is one the column allows.
LEMMA StatusType ==
  ASSUME TypeOK, NEW j \in Jobs, NEW status \in Statuses
  PROVE  [job[j] EXCEPT !.status = status] \in JobRow
  BY DEF TypeOK, JobRow

\* Every dispatch step keeps the types.
LEMMA ProceedType ==
  ASSUME CallInv, NEW w \in Workers,
         \/ Proceed(w) \/ PrepareBreaks(w) \/ Crash(w)
  PROVE  TypeOK'
<1> DEFINE j == txn[w].job
<1>0. TypeOK /\ (txn[w].step # "idle" => j \in Jobs /\ Dispatchable(j))
  BY IdleFacts DEF CallInv, TxnInv
<1>1. "cancelled" \in Statuses /\ "ready" \in Statuses /\ "calling" \in Statuses
      /\ "retry_pending" \in Statuses /\ "failed" \in Statuses
  BY DEF Statuses, Waiting, Terminal
<1>2. CASE StartBlocked(w)
  BY <1>0, <1>1, <1>2, FinishType DEF StartBlocked, TypeOK
<1>3. CASE StartOutsideHours(w)
  BY <1>0, <1>1, <1>3, FinishType DEF StartOutsideHours, TypeOK
<1>4. CASE StartOverLimit(w)
  BY <1>0, <1>1, <1>4, FinishType, IdleFacts DEF StartOverLimit, Fail, Rollback, TypeOK
<1>5. CASE StartPasses(w)
  <2>1. [txn[w] EXCEPT !.step = "checked"] \in TxnRow
    BY DEF CallInv, TypeOK, TxnRow
  <2> QED
    BY <1>0, <1>5, <2>1 DEF StartPasses, TypeOK
<1>6. CASE Dial(w)
  <2>1. [txn[w] EXCEPT !.step = "dialled"] \in TxnRow
    BY DEF CallInv, TypeOK, TxnRow
  <2>2. j \in Jobs
    BY <1>0, <1>6 DEF Dial
  <2>3. Append(dials[j], Len(attempt[j]) + 1) \in Seq(Nat)
    BY <1>0, <2>2 DEF TypeOK
  <2>4. dials' \in [Jobs -> Seq(Nat)]
    BY <1>0, <1>6, <2>3 DEF Dial, TypeOK
  <2> QED
    BY <1>0, <1>6, <2>1, <2>4 DEF Dial, TypeOK
<1>7. CASE DialFails(w)
  <2>1. j \in Jobs /\ Len(attempt[j]) \in Nat /\ Len(attempt[j]) + 1 <= MaxAttempts
    BY <1>0, <1>7, LimitAssumption DEF DialFails, TypeOK, Dispatchable
  <2>2. AfterFailure(Len(attempt[j]) + 1) \in Statuses
    BY <1>1, <2>1, AfterFailureFacts
  <2>3. attempt' \in [Jobs -> Seq({"in_progress", "completed"})]
    BY <1>0, <1>7, <2>1 DEF DialFails, TypeOK
  <2>4. Append(dials[j], Len(attempt[j]) + 1) \in Seq(Nat)
    BY <1>0, <2>1 DEF TypeOK
  <2>5. dials' \in [Jobs -> Seq(Nat)]
    BY <1>0, <1>7, <2>4 DEF DialFails, TypeOK
  <2> QED
    BY <1>0, <1>7, <2>2, <2>3, <2>5, FinishType DEF DialFails, TypeOK
<1>8. CASE CommitCall(w)
  <2>1. attempt' \in [Jobs -> Seq({"in_progress", "completed"})]
    BY <1>0, <1>8 DEF CommitCall, TypeOK
  <2> QED
    BY <1>0, <1>1, <1>8, <2>1, FinishType DEF CommitCall, TypeOK
<1>9. CASE PrepareFails(w) \/ PrepareBreaks(w)
  <2>1. /\ job' \in [Jobs -> JobRow] /\ txn' \in [Workers -> TxnRow]
    BY <1>0, <1>1, <1>9, FinishType, IdleFacts
       DEF PrepareFails, PrepareBreaks, Fail, Rollback, TypeOK
  <2>2. faults' \in Nat
    BY <1>0, <1>9 DEF PrepareFails, PrepareBreaks, TypeOK
  <2> QED
    BY <1>0, <1>9, <2>1, <2>2 DEF PrepareFails, PrepareBreaks, TypeOK
<1>10. CASE Crash(w)
  <2>1. /\ txn' \in [Workers -> TxnRow] /\ job' = job
    BY <1>0, <1>10, IdleFacts DEF Crash, Rollback, TypeOK
  <2>2. batch' \in [Schedulers -> SUBSET Jobs] /\ ticking' \subseteq Schedulers
    BY <1>0, <1>10 DEF Crash, TypeOK
  <2>3. faults' \in Nat
    BY <1>0, <1>10 DEF Crash, TypeOK
  <2> QED
    BY <1>0, <1>10, <2>1, <2>2, <2>3 DEF Crash, TypeOK
<1> QED
  BY <1>2, <1>3, <1>4, <1>5, <1>6, <1>7, <1>8, <1>9, <1>10 DEF Proceed

-----------------------------------------------------------------------------
(* The invariant is inductive *)

\* The steps of a dispatch.
LEMMA DispatchInv ==
  ASSUME CallInv, NEW w \in Workers,
         \/ Proceed(w) \/ PrepareBreaks(w) \/ Crash(w)
  PROVE  CallInv'
<1> DEFINE j == txn[w].job
<1>0. TypeOK' /\ TypeOK
  BY ProceedType DEF CallInv
<1>1. txn[w].step # "idle" => j \in Jobs /\ Dispatchable(j) /\ Len(attempt[j]) \in Nat
  BY <1>0, IdleFacts DEF CallInv, TxnInv, TypeOK
<1>2. ASSUME NEW status \in {"ready", "cancelled", "retry_pending"}, txn[w].step # "idle",
             Finish(w, status) \/ Rollback(w), UNCHANGED attempt
      PROVE CallInv'
  <2>1. /\ txn'[w] = Idle /\ \A v \in Workers \ {w} : txn'[v] = txn[v]
        /\ \A k \in Jobs : k # j => job'[k] = job[k]
    BY <1>0, <1>2 DEF Finish, Rollback, TypeOK
  <2>2. /\ job'[j].status \in {job[j].status, status}
    BY <1>0, <1>1, <1>2 DEF Finish, Rollback, TypeOK, Row
  <2>3. /\ Len(attempt[j]) < MaxAttempts
        /\ job'[j].status = "absent" => attempt[j] = <<>>
    BY <1>1, <1>2, <2>2 DEF Dispatchable, CallInv, AbsentUntried
  <2>4. Len(attempt[j]) <= MaxAttempts
    BY <1>1, <1>2, <2>3, LimitAssumption
  <2> QED
    BY <1>0, <1>2, <2>1, <2>3, <2>4, TxnMoves
<1>3. ASSUME NEW mark \in Marks, txn[w].step = "checked" \/ txn[w].step = "dialled",
             NEW status \in {"calling", "failed", "retry_pending"},
             status = "retry_pending" => Len(attempt[j]) + 1 < MaxAttempts,
             attempt' = [attempt EXCEPT ![j] = Append(@, mark)],
             Finish(w, status)
      PROVE CallInv'
  <2>1. /\ txn'[w] = Idle /\ \A v \in Workers \ {w} : txn'[v] = txn[v]
        /\ \A k \in Jobs : k # j => job'[k] = job[k] /\ attempt'[k] = attempt[k]
    BY <1>0, <1>3 DEF Finish, TypeOK
  <2>2. job'[j].status = status
    BY <1>0, <1>1, <1>3 DEF Finish, TypeOK, Row
  <2>3. attempt'[j] = Append(attempt[j], mark)
    BY <1>0, <1>1, <1>3 DEF TypeOK
  <2>4. Len(attempt'[j]) = Len(attempt[j]) + 1
    BY <1>0, <1>1, <1>3, <2>3 DEF TypeOK, Marks
  <2>5. Len(attempt'[j]) <= MaxAttempts
    BY <1>1, <1>3, <2>4, LimitAssumption DEF Dispatchable
  <2>6. /\ job'[j].status \in Waiting \cup {"ready"} => Len(attempt'[j]) < MaxAttempts
        /\ job'[j].status # "absent"
    BY <1>3, <2>2, <2>4 DEF Waiting
  <2> QED
    BY <1>0, <2>1, <2>5, <2>6, TxnMoves
<1>4. CASE StartBlocked(w)
  BY <1>2, <1>4 DEF StartBlocked
<1>5. CASE StartOutsideHours(w)
  BY <1>2, <1>5 DEF StartOutsideHours
<1>6. CASE StartOverLimit(w)
  BY <1>2, <1>6 DEF StartOverLimit, Fail
<1>7. CASE PrepareFails(w) \/ PrepareBreaks(w)
  BY <1>2, <1>7 DEF PrepareFails, PrepareBreaks, Fail
<1>8. CASE StartPasses(w)
  <2>1. /\ txn'[w] = [txn[w] EXCEPT !.step = "checked"]
        /\ \A v \in Workers \ {w} : txn'[v] = txn[v]
    BY <1>0, <1>8 DEF StartPasses, TypeOK
  <2>2. txn'[w].step = "checked" /\ txn'[w].job = j /\ txn[w] # Idle
    BY <1>0, <1>8, <2>1, IdleFacts DEF StartPasses, TypeOK, TxnRow
  <2> QED
    BY <1>0, <1>8, <2>1, <2>2, TxnMoves DEF StartPasses
<1>9. CASE Dial(w)
  <2>1. /\ txn'[w] = [txn[w] EXCEPT !.step = "dialled"]
        /\ \A v \in Workers \ {w} : txn'[v] = txn[v]
    BY <1>0, <1>9 DEF Dial, TypeOK
  <2>2. txn'[w].step = "dialled" /\ txn'[w].job = j /\ txn[w] # Idle
    BY <1>0, <1>9, <2>1, IdleFacts DEF Dial, TypeOK, TxnRow
  <2> QED
    BY <1>0, <1>9, <2>1, <2>2, TxnMoves DEF Dial
<1>10. CASE DialFails(w)
  <2>1. Len(attempt[j]) + 1 \in Nat /\ Len(attempt[j]) + 1 <= MaxAttempts
    BY <1>1, <1>10, LimitAssumption DEF DialFails, Dispatchable
  <2> QED
    BY <1>3, <1>10, <2>1, AfterFailureFacts DEF DialFails, Marks
<1>11. CASE CommitCall(w)
  BY <1>3, <1>11 DEF CommitCall, Marks
<1>12. CASE Crash(w)
  <2>1. CASE txn[w].step # "idle"
    BY <1>2, <1>12, <2>1 DEF Crash
  <2>2. CASE txn[w].step = "idle"
    <3>1. txn[w] = Idle
      BY <2>2 DEF CallInv, TxnInv
    <3>2. txn[w].job \notin Jobs
      BY <3>1, IdleFacts, JobAssumption
    <3>3. txn'[w] = Idle /\ \A v \in Workers \ {w} : txn'[v] = txn[v]
      BY <1>0, <1>12 DEF Crash, Rollback, TypeOK
    <3> QED
      BY <1>0, <1>12, <3>2, <3>3, TxnMoves DEF Crash, Rollback
  <2> QED
    BY <2>1, <2>2
<1> QED
  BY <1>4, <1>5, <1>6, <1>7, <1>8, <1>9, <1>10, <1>11, <1>12 DEF Proceed

\* Jobs come, go and move without a dispatch.
LEMMA RowInv ==
  ASSUME CallInv,
         \/ \E j \in Jobs, l \in Leads, due \in BOOLEAN : CreateJob(j, l, due)
         \/ \E j \in Jobs : ComeDue(j) \/ Reconcile(j)
         \/ \E j \in Jobs, n \in 1..MaxAttempts, through \in BOOLEAN : Complete(j, n, through)
         \/ \E l \in Leads : CancelFollowUp(l)
         \/ \E c \in Clients, j \in Jobs : HttpPrepare(c, j)
  PROVE  CallInv'
<1>0. TypeOK /\ \A j \in Jobs : Len(attempt[j]) \in Nat /\ Len(attempt[j]) <= MaxAttempts
  BY DEF CallInv, TypeOK, AttemptBudget
<1>1. {"queued", "cancelled", "ready", "completed", "retry_pending", "failed"} \subseteq Statuses
  BY DEF Statuses, Waiting, Terminal
<1>2. ASSUME NEW j \in Jobs, NEW l \in Leads, NEW due \in BOOLEAN, CreateJob(j, l, due)
      PROVE CallInv'
  <2>1. PICK status \in {"queued", "cancelled"} : job' = [job EXCEPT ![j] = Row(status, due, l)]
    BY <1>2 DEF CreateJob
  <2>2. Row(status, due, l) \in JobRow
    BY <1>1 DEF Row, JobRow
  <2>3. TypeOK'
    BY <1>0, <1>2, <2>1, <2>2 DEF CreateJob, TypeOK
  <2>4. Len(attempt[j]) < MaxAttempts
    BY <1>2, EmptySeq, LimitAssumption DEF CreateJob, Free, CallInv, AbsentUntried
  <2>5. \A k \in Jobs : job'[k].status = IF k = j THEN status ELSE job[k].status
    BY <1>0, <2>1 DEF TypeOK, Row
  <2> QED
    BY <1>2, <2>3, <2>4, <2>5, RowsMove DEF CreateJob, Free
<1>3. ASSUME NEW j \in Jobs, ComeDue(j) PROVE CallInv'
  <2>1. [job[j] EXCEPT !.due = TRUE] \in JobRow
    BY <1>0 DEF TypeOK, JobRow
  <2>2. TypeOK'
    BY <1>0, <1>3, <2>1 DEF ComeDue, TypeOK
  <2>3. \A k \in Jobs : job'[k].status = job[k].status
    BY <1>0, <1>3 DEF ComeDue, TypeOK, JobRow
  <2> QED
    BY <1>3, <2>2, <2>3, RowsMove DEF ComeDue
<1>4. ASSUME NEW j \in Jobs, Reconcile(j) PROVE CallInv'
  <2>1. PICK status \in {"retry_pending", "failed"} :
          /\ job' = [job EXCEPT ![j].status = status]
          /\ status = "retry_pending" => Len(attempt[j]) < MaxAttempts
    BY <1>0, <1>4, AfterFailureFacts DEF Reconcile
  <2>2. TypeOK'
    BY <1>0, <1>1, <1>4, <2>1, StatusType DEF Reconcile, TypeOK
  <2>3. \A k \in Jobs : job'[k].status = IF k = j THEN status ELSE job[k].status
    BY <1>0, <2>1 DEF TypeOK, JobRow
  <2> QED
    BY <1>4, <2>1, <2>2, <2>3, RowsMove DEF Reconcile, Waiting
<1>5. ASSUME NEW j \in Jobs, NEW n \in 1..MaxAttempts, NEW through \in BOOLEAN,
             Complete(j, n, through)
      PROVE CallInv'
  <2>1. PICK status \in {"completed", "retry_pending", "failed"} :
          /\ job' = [job EXCEPT ![j].status = status]
          /\ status = "retry_pending" => Len(attempt[j]) < MaxAttempts
    BY <1>0, <1>5, AfterFailureFacts DEF Complete
  <2>2. /\ [attempt[j] EXCEPT ![n] = "completed"] \in Seq(Marks)
        /\ Len([attempt[j] EXCEPT ![n] = "completed"]) = Len(attempt[j])
    <3>1. attempt[j] \in Seq(Marks) /\ n \in 1..Len(attempt[j])
      BY <1>0, <1>5 DEF Complete, TypeOK, Marks
    <3> QED
      BY <3>1, ExceptSeq DEF Marks
  <2>3. /\ attempt' \in [Jobs -> Seq({"in_progress", "completed"})]
        /\ \A k \in Jobs : Len(attempt'[k]) = Len(attempt[k])
    BY <1>0, <1>5, <2>2 DEF Complete, TypeOK, Marks
  <2>4. TypeOK'
    BY <1>0, <1>1, <1>5, <2>1, <2>3, StatusType DEF Complete, TypeOK
  <2>5. \A k \in Jobs : job'[k].status = IF k = j THEN status ELSE job[k].status
    BY <1>0, <2>1 DEF TypeOK, JobRow
  <2> QED
    BY <1>5, <2>1, <2>3, <2>4, <2>5, RowsMove DEF Complete, Waiting
<1>6. ASSUME NEW l \in Leads, CancelFollowUp(l) PROVE CallInv'
  <2>1. PICK jobs \in SUBSET Jobs :
          /\ \A j \in jobs : ~Locked(j)
          /\ job' = [j \in Jobs |-> IF j \in jobs THEN [job[j] EXCEPT !.status = "cancelled"]
                                    ELSE job[j]]
    BY <1>6 DEF CancelFollowUp
  <2>2. TypeOK'
    BY <1>0, <1>1, <1>6, <2>1, StatusType DEF CancelFollowUp, TypeOK
  <2>3. \A k \in Jobs : job'[k].status = IF k \in jobs THEN "cancelled" ELSE job[k].status
    BY <1>0, <2>1 DEF TypeOK, JobRow
  <2> QED
    BY <1>6, <2>1, <2>2, <2>3, RowsMove DEF CancelFollowUp, Waiting
<1>7. ASSUME NEW c \in Clients, NEW j \in Jobs, HttpPrepare(c, j) PROVE CallInv'
  <2>1. TypeOK'
    BY <1>0, <1>1, <1>7, StatusType DEF HttpPrepare, TypeOK
  <2>2. \A k \in Jobs : job'[k].status = IF k = j THEN "ready" ELSE job[k].status
    BY <1>0, <1>7 DEF HttpPrepare, TypeOK, JobRow
  <2>3. Len(attempt[j]) < MaxAttempts
    BY <1>7 DEF HttpPrepare, CallInv, AttemptBudget
  <2> QED
    BY <1>7, <2>1, <2>2, <2>3, RowsMove DEF HttpPrepare
<1> QED
  BY <1>2, <1>3, <1>4, <1>5, <1>6, <1>7

\* Steps that touch neither rows nor transactions: the scheduler's own, and
\* a customer's Do-Not-Call.
LEMMA AsideInv ==
  ASSUME CallInv,
         \/ \E l \in OptOuts, where \in {"no", "customer", "preference"} : SetDoNotCall(l, where)
         \/ \E l \in Deletable : MarkDeleted(l)
         \/ \E d \in Schedulers : Tick(d) \/ EndTick(d)
         \/ Expire
         \/ UNCHANGED vars
  PROVE  CallInv'
<1>1. UNCHANGED <<job, attempt, txn>>
  BY DEF SetDoNotCall, MarkDeleted, Tick, EndTick, Expire, vars
<1>2. TypeOK'
  <2>1. ASSUME NEW l \in Leads, NEW where \in {"no", "customer", "preference"},
               SetDoNotCall(l, where)
        PROVE TypeOK'
    BY <2>1 DEF SetDoNotCall, CallInv, TypeOK
  <2>2. ASSUME NEW d \in Schedulers, Tick(d) PROVE TypeOK'
    <3>1. NextBatch \in SUBSET Jobs
      BY DEF NextBatch, Eligible
    <3> QED
      BY <2>2, <3>1 DEF Tick, CallInv, TypeOK
  <2>3. ASSUME NEW d \in Schedulers, EndTick(d) PROVE TypeOK'
    BY <2>3 DEF EndTick, Release, CallInv, TypeOK
  <2>4. CASE Expire
    BY <2>4 DEF Expire, CallInv, TypeOK
  <2>5. CASE UNCHANGED vars
    BY <2>5 DEF vars, CallInv, TypeOK
  <2>6. ASSUME NEW l \in Deletable, MarkDeleted(l) PROVE TypeOK'
    BY <2>6 DEF MarkDeleted, CallInv, TypeOK
  <2> QED
    BY LeadAssumption, <2>1, <2>2, <2>3, <2>4, <2>5, <2>6
<1> QED
  BY <1>1, <1>2, RowsMove

\* A worker claims a job: from a batch read earlier, from an HTTP request, or
\* one it is inserting.
LEMMA ClaimInv ==
  ASSUME CallInv,
         \/ \E d \in Schedulers : Dispatch(d)
         \/ \E c \in Clients, j \in Jobs : HttpStart(c, j)
         \/ \E c \in Clients, j \in Jobs, l \in Leads : InstantCall(c, j, l)
  PROVE  CallInv'
<1>0. /\ TypeOK
      /\ \A j \in Jobs : job[j].status \in Waiting \cup {"ready", "absent"} => Dispatchable(j)
      /\ \A j \in Jobs : job[j].lead \in Leads \cup {None}
  <2>1. ASSUME NEW j \in Jobs, job[j].status = "absent" PROVE Len(attempt[j]) < MaxAttempts
    BY <2>1, EmptySeq, LimitAssumption DEF CallInv, AbsentUntried
  <2>2. \A j \in Jobs : job[j].lead \in Leads \cup {None}
    BY DEF CallInv, TypeOK, JobRow
  <2> QED
    BY <2>1, <2>2 DEF CallInv, AttemptBudget, Dispatchable
<1>1. ASSUME NEW d \in Schedulers, Dispatch(d) PROVE CallInv'
  <2>1. PICK j \in Jobs :
          /\ batch' = [batch EXCEPT ![d] = @ \ {j}]
          /\ IF job[j].status \in Waiting /\ ~Locked(j)
               THEN txn' = [txn EXCEPT ![d] = Claim(j, job[j].lead)]
               ELSE UNCHANGED txn
    BY <1>0, <1>1 DEF Dispatch, TypeOK
  <2>2. d \in Workers /\ batch' \in [Schedulers -> SUBSET Jobs]
    BY <1>0, <2>1 DEF Workers, TypeOK
  <2>3. /\ Claim(j, job[j].lead) \in TxnRow
        /\ Claim(j, job[j].lead).step # "idle" /\ Claim(j, job[j].lead).job = j
    BY <1>0 DEF TxnRow, Claim
  <2>4. TypeOK'
    BY <1>0, <1>1, <2>1, <2>2, <2>3 DEF Dispatch, TypeOK
  <2>5. CASE UNCHANGED txn
    <3>1. UNCHANGED <<job, attempt>>
      BY <1>1 DEF Dispatch
    <3> QED
      BY <2>4, <2>5, <3>1, RowsMove
  <2>6. CASE job[j].status \in Waiting /\ ~Locked(j)
    <3>1. /\ txn'[d].step # "idle" /\ txn'[d].job = j
          /\ \A v \in Workers \ {d} : txn'[v] = txn[v]
      BY <1>0, <2>1, <2>2, <2>3, <2>6 DEF TypeOK
    <3> QED
      <4>1. UNCHANGED <<job, attempt>> /\ txn[d] = Idle
        BY <1>1 DEF Dispatch
      <4>2. Dispatchable(j)
        BY <1>0, <2>6
      <4> QED
        BY <2>2, <2>4, <2>6, <3>1, <4>1, <4>2, TxnClaims
  <2> QED
    BY <2>1, <2>5, <2>6
<1>2. ASSUME NEW c \in Clients, NEW j \in Jobs, NEW l \in Leads \cup {None},
             txn[c] = Idle, ~Locked(j), Dispatchable(j),
             NEW step \in {"claimed", "orphaned"},
             txn' = [txn EXCEPT ![c] = [step |-> step, job |-> j, lead |-> l]],
             UNCHANGED <<job, attempt, dials, dnc, gone, lock, batch, ticking, faults>>
      PROVE CallInv'
  <2>1. [step |-> step, job |-> j, lead |-> l] \in TxnRow /\ c \in Workers
    BY DEF TxnRow, Workers
  <2>2. TypeOK'
    BY <1>0, <1>2, <2>1 DEF TypeOK
  <2>3. /\ txn'[c].step # "idle" /\ txn'[c].job = j
        /\ \A v \in Workers \ {c} : txn'[v] = txn[v]
    BY <1>0, <1>2, <2>1 DEF TypeOK
  <2> QED
    BY <1>2, <2>1, <2>2, <2>3, TxnClaims
<1>3. ASSUME NEW c \in Clients, NEW j \in Jobs, HttpStart(c, j) PROVE CallInv'
  BY <1>0, <1>2, <1>3 DEF HttpStart
<1>4. ASSUME NEW c \in Clients, NEW j \in Jobs, NEW l \in Leads, InstantCall(c, j, l)
      PROVE CallInv'
  <2>0. /\ txn[c] = Idle /\ ~Locked(j) /\ job[j].status = "absent"
        /\ UNCHANGED <<attempt, dials, dnc, gone, lock, batch, ticking, faults>>
    BY <1>4 DEF InstantCall, Free
  <2>1. CASE dnc[l] = "no"
    <3>1. /\ UNCHANGED job
          /\ \E step \in {"claimed", "orphaned"} :
               txn' = [txn EXCEPT ![c] = [step |-> step, job |-> j, lead |-> l]]
      BY <1>4, <2>1 DEF InstantCall, Claim
    <3>2. Dispatchable(j)
      BY <1>0, <2>0
    <3> QED
      BY <1>2, <2>0, <3>1, <3>2
  <2>2. CASE dnc[l] # "no"
    <3>1. Row("cancelled", TRUE, l) \in JobRow
      BY DEF Row, JobRow, Statuses, Terminal
    <3>2. job' = [job EXCEPT ![j] = Row("cancelled", TRUE, l)] /\ UNCHANGED txn
      BY <1>4, <2>2 DEF InstantCall
    <3>3. TypeOK'
      BY <1>0, <2>0, <3>1, <3>2 DEF TypeOK
    <3>4. \A k \in Jobs : job'[k].status = IF k = j THEN "cancelled" ELSE job[k].status
      BY <1>0, <3>2 DEF TypeOK, Row
    <3>5. "cancelled" \notin Waiting \cup {"ready", "absent"}
      BY DEF Waiting
    <3> QED
      BY <2>0, <3>2, <3>3, <3>4, <3>5, RowsMove
  <2> QED
    BY <2>1, <2>2
<1> QED
  BY <1>1, <1>3, <1>4

\* The empty tables satisfy the invariant.
LEMMA InitInv == Init => CallInv
<1> SUFFICES ASSUME Init PROVE CallInv
  OBVIOUS
<1>1. TypeOK
  <2>1. [status |-> "absent", due |-> TRUE, lead |-> None] \in JobRow
    BY DEF JobRow
  <2> QED
    BY <2>1, IdleFacts, EmptySeq DEF Init, TypeOK
<1>2. AttemptBudget
  <2>1. \A j \in Jobs : attempt[j] = <<>> /\ Len(attempt[j]) = 0
    BY EmptySeq DEF Init
  <2> QED
    BY <2>1, LimitAssumption DEF AttemptBudget
<1>3. \A w \in Workers : txn[w] = Idle
  BY DEF Init
<1>4. AbsentUntried
  BY DEF Init, AbsentUntried
<1> QED
  BY <1>1, <1>2, <1>3, <1>4 DEF CallInv, TxnInv, JobExclusive

\* Every step preserves the invariant.
LEMMA NextInv == CallInv /\ [Next]_vars => CallInv'
  BY RowInv, AsideInv, ClaimInv, DispatchInv DEF Next

\* The invariant holds of every reachable state.
THEOREM CallInvariant == Spec => []CallInv
  BY InitInv, NextInv, PTL DEF Spec

\* The tables keep to their columns, and 'preparing' is never committed.
THEOREM TypeCorrect == Spec => []TypeOK
<1>1. CallInv => TypeOK
  BY DEF CallInv
<1> QED
  BY <1>1, CallInvariant, PTL

\* No job is called more often than max_attempts, and none waits without an
\* attempt left.
THEOREM AttemptBudgetHolds == Spec => []AttemptBudget
<1>1. CallInv => AttemptBudget
  BY DEF CallInv
<1> QED
  BY <1>1, CallInvariant, PTL

\* Two transactions never dispatch the same job, with or without the Redis
\* lock: the row lock is enough.
THEOREM DispatchExclusive == Spec => []JobExclusive
<1>1. CallInv => JobExclusive
  BY DEF CallInv
<1> QED
  BY <1>1, CallInvariant, PTL

-----------------------------------------------------------------------------
(* Ended jobs stay as they ended *)

EndedStay == \A j \in Jobs : job[j].status \in Terminal => job'[j].status = job[j].status

\* A dispatch ends on a row that had not ended when it was claimed, and that
\* the row lock has kept so.
LEMMA DispatchKeepsEnded ==
  ASSUME CallInv, NEW w \in Workers,
         \/ Proceed(w) \/ PrepareBreaks(w) \/ Crash(w)
  PROVE  EndedStay
<1> DEFINE j == txn[w].job
<1>1. ASSUME NEW status \in Statuses, txn[w].step # "idle", Finish(w, status)
      PROVE EndedStay
  <2>1. j \in Jobs /\ job[j].status \notin Terminal
    BY <1>1, IdleFacts DEF CallInv, TxnInv, Dispatchable, Terminal, Waiting
  <2>2. \A k \in Jobs : k # j => job'[k] = job[k]
    BY <1>1 DEF Finish, CallInv, TypeOK
  <2> QED
    BY <2>1, <2>2 DEF EndedStay
<1>2. ASSUME UNCHANGED job PROVE EndedStay
  BY <1>2 DEF EndedStay
<1>3. {"cancelled", "ready", "calling", "retry_pending", "failed"} \subseteq Statuses
  BY DEF Statuses, Waiting, Terminal
<1>4. CASE StartBlocked(w)
  BY <1>1, <1>3, <1>4 DEF StartBlocked
<1>5. CASE StartOutsideHours(w)
  BY <1>1, <1>3, <1>5 DEF StartOutsideHours
<1>6. CASE StartOverLimit(w)
  BY <1>1, <1>2, <1>3, <1>6 DEF StartOverLimit, Fail, Rollback
<1>7. CASE StartPasses(w) \/ Dial(w)
  BY <1>2, <1>7 DEF StartPasses, Dial
<1>8. CASE DialFails(w)
  <2>1. AfterFailure(Len(attempt[j]) + 1) \in Statuses
    BY <1>3 DEF AfterFailure
  <2> QED
    BY <1>1, <1>8, <2>1 DEF DialFails
<1>9. CASE CommitCall(w)
  BY <1>1, <1>3, <1>9 DEF CommitCall
<1>10. CASE PrepareFails(w) \/ PrepareBreaks(w)
  BY <1>1, <1>2, <1>3, <1>10 DEF PrepareFails, PrepareBreaks, Fail, Rollback
<1>11. CASE Crash(w)
  BY <1>2, <1>11 DEF Crash, Rollback
<1> QED
  BY <1>4, <1>5, <1>6, <1>7, <1>8, <1>9, <1>10, <1>11 DEF Proceed

\* ... and every other step moves only rows that have not ended.
LEMMA NextKeepsEnded == CallInv /\ [Next]_vars => EndedStay
<1> SUFFICES ASSUME CallInv, [Next]_vars PROVE EndedStay
  OBVIOUS
<1>0. job \in [Jobs -> JobRow]
  BY DEF CallInv, TypeOK
<1>1. ASSUME NEW j \in Jobs,
             \/ \E l \in Leads, due \in BOOLEAN : CreateJob(j, l, due)
             \/ Reconcile(j)
             \/ \E n \in 1..MaxAttempts, through \in BOOLEAN : Complete(j, n, through)
             \/ \E c \in Clients : HttpPrepare(c, j)
             \/ \E c \in Clients, l \in Leads : InstantCall(c, j, l)
      PROVE EndedStay
  <2>1. CASE UNCHANGED job
    BY <2>1 DEF EndedStay
  <2>2. CASE ~UNCHANGED job
    <3>1. job[j].status \in Waiting \cup {"absent", "ready", "calling"}
      BY <1>1, <2>2 DEF CreateJob, Free, Reconcile, ActiveStatuses, Complete, Completable,
                       HttpPrepare, InstantCall
    <3>2. \A k \in Jobs : k # j => job'[k] = job[k]
      BY <1>0, <1>1 DEF CreateJob, Reconcile, Complete, HttpPrepare, InstantCall
    <3> QED
      BY <3>1, <3>2 DEF EndedStay, Waiting, Terminal
  <2> QED
    BY <2>1, <2>2
<1>2. ASSUME NEW j \in Jobs, ComeDue(j) PROVE EndedStay
  BY <1>0, <1>2 DEF ComeDue, EndedStay, JobRow
<1>3. ASSUME NEW l \in Leads, CancelFollowUp(l) PROVE EndedStay
  <2>1. \A j \in Jobs : job'[j] = job[j] \/ job[j].status \in Waiting \cup {"ready"}
    BY <1>3 DEF CancelFollowUp
  <2> QED
    BY <2>1 DEF EndedStay, Waiting, Terminal
<1>4. ASSUME UNCHANGED job PROVE EndedStay
  BY <1>4 DEF EndedStay
<1>5. ASSUME NEW l \in Leads, NEW where \in {"no", "customer", "preference"},
             SetDoNotCall(l, where)
      PROVE EndedStay
  BY <1>4, <1>5 DEF SetDoNotCall
<1>6. ASSUME NEW d \in Schedulers, Tick(d) \/ Dispatch(d) \/ EndTick(d) PROVE EndedStay
  BY <1>4, <1>6 DEF Tick, Dispatch, EndTick
<1>7. CASE Expire \/ UNCHANGED vars \/ \E l \in Deletable : MarkDeleted(l)
  BY <1>4, <1>7 DEF Expire, MarkDeleted, vars
<1>8. ASSUME NEW c \in Clients, NEW j \in Jobs, HttpStart(c, j) PROVE EndedStay
  BY <1>4, <1>8 DEF HttpStart
<1> QED
  BY LeadAssumption, <1>1, <1>2, <1>3, <1>5, <1>6, <1>7, <1>8, DispatchKeepsEnded DEF Next

\* A late completion, reconciliation, cancellation or dispatch never revives a
\* job that has ended.
THEOREM TerminalStays == Spec => TerminalIsFinal
<1>1. CallInv /\ [Next]_vars =>
        [\A j \in Jobs : job[j].status \in Terminal => job'[j].status = job[j].status]_vars
  BY NextKeepsEnded DEF EndedStay
<1> QED
  BY <1>1, CallInvariant, PTL DEF Spec, TerminalIsFinal

-----------------------------------------------------------------------------
(* What the calls the provider placed say about the attempts *)

\* The dials of attempt n of a job.
CallsOf(h, n) == {i \in DOMAIN h : h[i] = n}
Count(j, n) == Cardinality(CallsOf(dials[j], n))

\* The worker that has dialled the job and not committed yet.
Dialled(w, j) == txn[w].step = "dialled" /\ txn[w].job = j

\* Attempt numbers are dialled in order.  The attempt after those on record is
\* dialled while its worker is about to commit; before that, and after the
\* worker crashed, each of its dials has cost a crash.
JobDials(j) ==
  /\ \A n \in Nat : Count(j, n) <= 1 + faults
  /\ \A n \in Nat : n > Len(attempt[j]) + 1 => Count(j, n) = 0
  /\ \A n \in DOMAIN attempt[j] : attempt[j][n] = "in_progress" => Count(j, n) > 0
  /\ (\A w \in Workers : ~Dialled(w, j)) => Count(j, Len(attempt[j]) + 1) <= faults
  /\ \A w \in Workers : Dialled(w, j) => Count(j, Len(attempt[j]) + 1) > 0

DialInv == \A j \in Jobs : JobDials(j)

\* The workers past the concurrency check.
Busy == {w \in Workers : txn[w].step \in {"checked", "dialled"}}

\* A call in progress is known by its row, one about to be by its worker.
LimitInv == IsFiniteSet(Calling) /\ CallsBounded

\* The lead a transaction works for is the one its row names, once inserted.
LeadInv ==
  /\ \A j \in Jobs : job[j].status = "absent" => job[j].lead = None
  /\ \A w \in Workers : txn[w] # Idle => \/ job[txn[w].job].status = "absent"
                                         \/ job[txn[w].job].lead = txn[w].lead

\* Every call placed.
Placed == UNION {{j} \X DOMAIN dials[j] : j \in Jobs}

CallsInv == CallInv /\ DialInv /\ LimitInv /\ LeadInv /\ IsFiniteSet(Placed)

-----------------------------------------------------------------------------
(* Lemmas about sequences of dials *)

\* A dial of another attempt leaves the dials of this one.
LEMMA OtherDial ==
  ASSUME NEW h \in Seq(Nat), NEW x \in Nat, NEW n \in Nat, n # x
  PROVE  CallsOf(Append(h, x), n) = CallsOf(h, n)
<1>1. /\ Len(h) \in Nat /\ DOMAIN h = 1..Len(h) /\ DOMAIN Append(h, x) = 1..(Len(h) + 1)
      /\ Append(h, x)[Len(h) + 1] = x
      /\ \A i \in 1..Len(h) : Append(h, x)[i] = h[i]
  BY AppendProperties, LenProperties
<1> QED
  BY <1>1 DEF CallsOf

\* A finite list has finitely many dials of an attempt.
LEMMA CallsFinite ==
  ASSUME NEW h \in Seq(Nat), NEW n
  PROVE  IsFiniteSet(CallsOf(h, n)) /\ Cardinality(CallsOf(h, n)) \in Nat
<1>1. Len(h) \in Nat /\ DOMAIN h = 1..Len(h)
  BY LenProperties
<1>2. IsFiniteSet(1..Len(h))
  BY <1>1, FS_Interval
<1>3. CallsOf(h, n) \in SUBSET (1..Len(h))
  BY <1>1 DEF CallsOf
<1>4. IsFiniteSet(CallsOf(h, n))
  BY <1>2, <1>3, FS_Subset
<1> QED
  BY <1>4, FS_CardinalityType

\* A dial of the attempt adds one.
LEMMA SameDial ==
  ASSUME NEW h \in Seq(Nat), NEW x \in Nat
  PROVE  Cardinality(CallsOf(Append(h, x), x)) = Cardinality(CallsOf(h, x)) + 1
<1>1. /\ Len(h) \in Nat /\ DOMAIN h = 1..Len(h) /\ DOMAIN Append(h, x) = 1..(Len(h) + 1)
      /\ Append(h, x)[Len(h) + 1] = x
      /\ \A i \in 1..Len(h) : Append(h, x)[i] = h[i]
  BY AppendProperties, LenProperties
<1>2. CallsOf(Append(h, x), x) = CallsOf(h, x) \cup {Len(h) + 1} /\ Len(h) + 1 \notin CallsOf(h, x)
  BY <1>1 DEF CallsOf
<1> QED
  BY <1>2, CallsFinite, FS_AddElement

-----------------------------------------------------------------------------
(* Steps that neither place a call nor record an attempt *)

PastCheck == {"checked", "dialled"}

Quiet ==
  /\ UNCHANGED dials
  /\ faults' \in Nat /\ faults <= faults'
  /\ \A j \in Jobs :
       /\ Len(attempt'[j]) = Len(attempt[j]) /\ DOMAIN attempt'[j] = DOMAIN attempt[j]
       /\ \A n \in DOMAIN attempt[j] : attempt'[j][n] = "in_progress"
                                       => attempt[j][n] = "in_progress"
  /\ \A w \in Workers : \/ txn'[w] = txn[w]
                        \/ txn[w].step \notin PastCheck /\ txn'[w].step \notin PastCheck
  /\ \A j \in Jobs : job'[j].status = "calling" => job[j].status = "calling"

\* Jobs that come and go without a dispatch are quiet.
LEMMA RowsQuiet ==
  ASSUME CallInv,
         \/ \E j \in Jobs, l \in Leads, due \in BOOLEAN : CreateJob(j, l, due)
         \/ \E j \in Jobs : ComeDue(j) \/ Reconcile(j)
         \/ \E l \in Leads : CancelFollowUp(l)
         \/ \E c \in Clients, j \in Jobs : HttpPrepare(c, j)
  PROVE  Quiet
<1>0. job \in [Jobs -> JobRow] /\ faults \in Nat
  BY DEF CallInv, TypeOK
<1>1. UNCHANGED <<attempt, dials, txn, faults>>
  BY DEF CreateJob, ComeDue, Reconcile, CancelFollowUp, HttpPrepare
<1> SUFFICES \A j \in Jobs : job'[j].status = "calling" => job[j].status = "calling"
  BY <1>0, <1>1 DEF Quiet
<1>2. ASSUME NEW j \in Jobs, NEW l \in Leads, NEW due \in BOOLEAN, CreateJob(j, l, due)
      PROVE \A k \in Jobs : job'[k].status = "calling" => job[k].status = "calling"
  <2>1. PICK status \in {"queued", "cancelled"} : job' = [job EXCEPT ![j] = Row(status, due, l)]
    BY <1>2 DEF CreateJob
  <2> QED
    BY <1>0, <2>1 DEF Row
<1>3. ASSUME NEW j \in Jobs, ComeDue(j)
      PROVE \A k \in Jobs : job'[k].status = "calling" => job[k].status = "calling"
  BY <1>0, <1>3 DEF ComeDue, JobRow
<1>4. ASSUME NEW j \in Jobs, Reconcile(j)
      PROVE \A k \in Jobs : job'[k].status = "calling" => job[k].status = "calling"
  <2>1. PICK status \in {"retry_pending", "failed"} : job' = [job EXCEPT ![j].status = status]
    BY <1>4 DEF Reconcile, AfterFailure
  <2> QED
    BY <1>0, <2>1 DEF JobRow
<1>5. ASSUME NEW l \in Leads, CancelFollowUp(l)
      PROVE \A k \in Jobs : job'[k].status = "calling" => job[k].status = "calling"
  BY <1>0, <1>5 DEF CancelFollowUp, JobRow
<1>6. ASSUME NEW c \in Clients, NEW j \in Jobs, HttpPrepare(c, j)
      PROVE \A k \in Jobs : job'[k].status = "calling" => job[k].status = "calling"
  BY <1>0, <1>6 DEF HttpPrepare, JobRow
<1> QED
  BY <1>2, <1>3, <1>4, <1>5, <1>6

\* Completing an attempt takes an "in progress" away.
LEMMA CompleteQuiet ==
  ASSUME CallInv, NEW j \in Jobs, NEW n \in 1..MaxAttempts, NEW through \in BOOLEAN,
         Complete(j, n, through)
  PROVE  Quiet
<1>0. /\ job \in [Jobs -> JobRow] /\ faults \in Nat
      /\ attempt \in [Jobs -> Seq(Marks)]
  BY DEF CallInv, TypeOK, Marks
<1>1. /\ attempt[j] \in Seq(Marks) /\ n \in 1..Len(attempt[j])
  BY <1>0, LenProperties DEF Complete
<1>2. attempt' = [attempt EXCEPT ![j] = [attempt[j] EXCEPT ![n] = "completed"]]
  BY DEF Complete
<1>3. attempt'[j] = [attempt[j] EXCEPT ![n] = "completed"]
      /\ \A k \in Jobs \ {j} : attempt'[k] = attempt[k]
  BY <1>0, <1>2
<1>4. Len(attempt'[j]) = Len(attempt[j])
  BY <1>1, <1>3, ExceptSeq DEF Marks
<1>5. /\ DOMAIN attempt'[j] = DOMAIN attempt[j]
      /\ \A m \in DOMAIN attempt[j] : attempt'[j][m] = "in_progress"
                                      => attempt[j][m] = "in_progress"
  BY <1>3
<1>6. PICK status \in {"completed", "retry_pending", "failed"} :
        job' = [job EXCEPT ![j].status = status]
  BY DEF Complete, AfterFailure
<1>7. \A k \in Jobs : job'[k].status = "calling" => job[k].status = "calling"
  BY <1>0, <1>6 DEF JobRow
<1>8. UNCHANGED <<dials, txn, faults>>
  BY DEF Complete
<1> QED
  BY <1>0, <1>3, <1>4, <1>5, <1>7, <1>8 DEF Quiet

\* The scheduler's steps, claims and what else touches no row.
LEMMA ClaimsQuiet ==
  ASSUME CallInv,
         \/ \E l \in OptOuts, where \in {"no", "customer", "preference"} : SetDoNotCall(l, where)
         \/ \E l \in Deletable : MarkDeleted(l)
         \/ \E d \in Schedulers : Tick(d) \/ Dispatch(d) \/ EndTick(d)
         \/ Expire
         \/ \E c \in Clients, j \in Jobs : HttpStart(c, j)
         \/ \E c \in Clients, j \in Jobs, l \in Leads : InstantCall(c, j, l)
         \/ UNCHANGED vars
  PROVE  Quiet
<1>0. job \in [Jobs -> JobRow] /\ txn \in [Workers -> TxnRow] /\ faults \in Nat
  BY DEF CallInv, TypeOK
<1>1. UNCHANGED <<attempt, dials, faults>>
  BY DEF SetDoNotCall, MarkDeleted, Tick, Dispatch, EndTick, Expire, HttpStart, InstantCall, vars
<1>2. \A k \in Jobs : job'[k].status = "calling" => job[k].status = "calling"
  <2>1. ASSUME NEW c \in Clients, NEW j \in Jobs, NEW l \in Leads, InstantCall(c, j, l)
        PROVE \A k \in Jobs : job'[k].status = "calling" => job[k].status = "calling"
    BY <1>0, <2>1 DEF InstantCall, Row
  <2> QED
    BY <2>1 DEF SetDoNotCall, MarkDeleted, Tick, Dispatch, EndTick, Expire, HttpStart, vars
<1>3. ASSUME NEW w \in Workers, txn[w] = Idle, NEW j, NEW l,
             NEW step \in {"claimed", "orphaned"},
             txn' = [txn EXCEPT ![w] = [step |-> step, job |-> j, lead |-> l]]
      PROVE \A v \in Workers : \/ txn'[v] = txn[v]
                               \/ txn[v].step \notin PastCheck /\ txn'[v].step \notin PastCheck
  BY <1>0, <1>3, IdleFacts DEF PastCheck
<1>4. \A v \in Workers : \/ txn'[v] = txn[v]
                         \/ txn[v].step \notin PastCheck /\ txn'[v].step \notin PastCheck
  <2>1. ASSUME NEW d \in Schedulers, Dispatch(d)
        PROVE \A v \in Workers : \/ txn'[v] = txn[v]
                                 \/ txn[v].step \notin PastCheck /\ txn'[v].step \notin PastCheck
    BY <1>3, <2>1 DEF Dispatch, Claim, Workers
  <2>2. ASSUME NEW c \in Clients, NEW j \in Jobs, HttpStart(c, j)
        PROVE \A v \in Workers : \/ txn'[v] = txn[v]
                                 \/ txn[v].step \notin PastCheck /\ txn'[v].step \notin PastCheck
    BY <1>3, <2>2 DEF HttpStart, Workers
  <2>3. ASSUME NEW c \in Clients, NEW j \in Jobs, NEW l \in Leads, InstantCall(c, j, l)
        PROVE \A v \in Workers : \/ txn'[v] = txn[v]
                                 \/ txn[v].step \notin PastCheck /\ txn'[v].step \notin PastCheck
    <3>1. CASE UNCHANGED txn
      BY <3>1
    <3>2. CASE ~UNCHANGED txn
      BY <1>3, <2>3, <3>2 DEF InstantCall, Claim, Workers
    <3> QED
      BY <3>1, <3>2
  <2> QED
    BY <2>1, <2>2, <2>3 DEF SetDoNotCall, MarkDeleted, Tick, EndTick, Expire, vars
<1> QED
  BY <1>0, <1>1, <1>2, <1>4 DEF Quiet

\* So are the refusals of start_call.
LEMMA RefusalsQuiet ==
  ASSUME CallInv, NEW w \in Workers,
         StartBlocked(w) \/ StartOutsideHours(w) \/ StartOverLimit(w)
           \/ PrepareFails(w) \/ PrepareBreaks(w)
  PROVE  Quiet
<1>0. job \in [Jobs -> JobRow] /\ txn \in [Workers -> TxnRow] /\ faults \in Nat
  BY DEF CallInv, TypeOK
<1>1. UNCHANGED <<attempt, dials>> /\ faults' \in Nat /\ faults <= faults'
  <2>1. UNCHANGED <<attempt, dials>> /\ (faults' = faults \/ faults' = faults + 1)
    BY Zenon DEF StartBlocked, StartOutsideHours, StartOverLimit, PrepareFails, PrepareBreaks
  <2> QED
    BY <1>0, <2>1
<1>2. txn[w].step \in {"claimed", "orphaned"}
  BY DEF StartBlocked, StartOutsideHours, StartOverLimit, PrepareFails, PrepareBreaks
<1>3. PICK status \in {"ready", "cancelled", "retry_pending"} : Finish(w, status) \/ Rollback(w)
  BY DEF StartBlocked, StartOutsideHours, StartOverLimit, PrepareFails, PrepareBreaks, Fail
<1>4. txn' = [txn EXCEPT ![w] = Idle]
  BY <1>3 DEF Finish, Rollback
<1>5. \A v \in Workers : \/ txn'[v] = txn[v]
                         \/ txn[v].step \notin PastCheck /\ txn'[v].step \notin PastCheck
  BY <1>0, <1>2, <1>4, IdleFacts DEF PastCheck
<1>6. \A k \in Jobs : job'[k].status = "calling" => job[k].status = "calling"
  BY <1>0, <1>3 DEF Finish, Rollback, Row
<1> QED
  BY <1>1, <1>5, <1>6 DEF Quiet

\* The steps that are not quiet.
Placing(w) == StartPasses(w) \/ Dial(w) \/ DialFails(w) \/ CommitCall(w) \/ Crash(w)

\* Every step is quiet or one of them.
LEMMA QuietOrPlacing ==
  ASSUME CallInv, [Next]_vars
  PROVE  Quiet \/ \E w \in Workers : Placing(w)
  BY RowsQuiet, CompleteQuiet, ClaimsQuiet, RefusalsQuiet DEF Next, Proceed, Placing

-----------------------------------------------------------------------------
(* Dials are accounted for *)

\* The counts are numbers.
LEMMA CountType ==
  ASSUME TypeOK, NEW j \in Jobs, NEW n
  PROVE  Count(j, n) \in Nat
<1>1. dials[j] \in Seq(Nat)
  BY DEF TypeOK
<1> QED
  BY <1>1, CallsFinite DEF Count

\* Where nothing was dialled, recorded or dropped, the account stands.
LEMMA DialsKept ==
  ASSUME NEW j \in Jobs, JobDials(j), TypeOK, TypeOK', faults <= faults',
         dials'[j] = dials[j],
         Len(attempt'[j]) = Len(attempt[j]), DOMAIN attempt'[j] = DOMAIN attempt[j],
         \A n \in DOMAIN attempt[j] : attempt'[j][n] = "in_progress"
                                      => attempt[j][n] = "in_progress",
         \A w \in Workers : Dialled(w, j)' <=> Dialled(w, j)
  PROVE  JobDials(j)'
<1> DEFINE After(n) == Cardinality(CallsOf(dials'[j], n))
<1>1. \A n : After(n) = Count(j, n)
  BY DEF Count
<1>2. \A n : Count(j, n) \in Nat
  BY CountType
<1>3. faults \in Nat /\ faults' \in Nat
  BY DEF TypeOK
<1> HIDE DEF After
<1>4. \A n \in Nat : After(n) <= 1 + faults'
  BY <1>1, <1>2, <1>3 DEF JobDials
<1>5. \A n \in Nat : n > Len(attempt'[j]) + 1 => After(n) = 0
  BY <1>1 DEF JobDials
<1>6. \A n \in DOMAIN attempt'[j] : attempt'[j][n] = "in_progress" => After(n) > 0
  BY <1>1 DEF JobDials
<1>7. (\A w \in Workers : ~Dialled(w, j)') => After(Len(attempt'[j]) + 1) <= faults'
  <2> SUFFICES ASSUME \A w \in Workers : ~Dialled(w, j)'
               PROVE  After(Len(attempt[j]) + 1) <= faults'
    OBVIOUS
  <2>1. \A w \in Workers : ~Dialled(w, j)
    OBVIOUS
  <2>2. Count(j, Len(attempt[j]) + 1) <= faults
    BY <2>1 DEF JobDials
  <2> QED
    BY <1>1, <1>2, <1>3, <2>2
<1>8. \A w \in Workers : Dialled(w, j)' => After(Len(attempt'[j]) + 1) > 0
  BY <1>1 DEF JobDials
<1> QED
  BY <1>4, <1>5, <1>6, <1>7, <1>8 DEF JobDials, Count, After

\* An attempt is dialled: only the dials that crashes undid came before.
LEMMA DialCounted ==
  ASSUME NEW j \in Jobs, JobDials(j), TypeOK, TypeOK', faults' = faults,
         \A v \in Workers : ~Dialled(v, j),
         NEW w \in Workers, Dialled(w, j)',
         attempt' = attempt, dials'[j] = Append(dials[j], Len(attempt[j]) + 1)
  PROVE  JobDials(j)'
<1> DEFINE After(n) == Cardinality(CallsOf(dials'[j], n))
           m == Len(attempt[j]) + 1
<1>0. /\ dials[j] \in Seq(Nat) /\ faults \in Nat /\ m \in Nat
      /\ attempt[j] \in Seq(Marks) /\ DOMAIN attempt[j] = 1..Len(attempt[j])
      /\ Len(attempt[j]) \in Nat
  BY LenProperties DEF TypeOK, Marks
<1>1. \A n : Count(j, n) \in Nat
  BY CountType
<1>2. \A n \in Nat : n # m => After(n) = Count(j, n)
  BY <1>0, OtherDial DEF Count
<1>3. After(m) = Count(j, m) + 1
  BY <1>0, SameDial DEF Count
<1>4. Count(j, m) <= faults
  BY DEF JobDials
<1> HIDE DEF After
<1>5. \A n \in Nat : After(n) <= 1 + faults'
  <2> SUFFICES ASSUME NEW n \in Nat PROVE After(n) <= 1 + faults
    OBVIOUS
  <2>1. Count(j, n) <= 1 + faults
    BY DEF JobDials
  <2> QED
    <3>1. CASE n = m
      <4>1. After(n) = Count(j, m) + 1
        BY <1>3, <3>1
      <4> QED
        BY <1>0, <1>1, <1>4, <4>1
    <3>2. CASE n # m
      BY <1>2, <2>1, <3>2
    <3> QED
      BY <3>1, <3>2
<1>6. \A n \in Nat : n > Len(attempt'[j]) + 1 => After(n) = 0
  BY <1>0, <1>2 DEF JobDials
<1>7. \A n \in DOMAIN attempt'[j] : attempt'[j][n] = "in_progress" => After(n) > 0
  BY <1>0, <1>2 DEF JobDials
<1>8. After(Len(attempt'[j]) + 1) > 0
  BY <1>0, <1>1, <1>3
<1> QED
  BY <1>5, <1>6, <1>7, <1>8 DEF JobDials, Count, After

\* An attempt is put on record: in progress if it was dialled.
LEMMA AttemptCounted ==
  ASSUME NEW j \in Jobs, JobDials(j), TypeOK, TypeOK', faults' = faults,
         dials' = dials, NEW mark \in Marks,
         attempt'[j] = Append(attempt[j], mark),
         \A v \in Workers : ~Dialled(v, j)',
         mark = "in_progress" => \E w \in Workers : Dialled(w, j)
  PROVE  JobDials(j)'
<1> DEFINE After(n) == Cardinality(CallsOf(dials'[j], n))
           m == Len(attempt[j]) + 1
<1>0. /\ faults \in Nat /\ m \in Nat /\ attempt[j] \in Seq(Marks)
      /\ DOMAIN attempt[j] = 1..Len(attempt[j]) /\ Len(attempt[j]) \in Nat
  BY LenProperties DEF TypeOK, Marks
<1>1. /\ Len(attempt'[j]) = m /\ DOMAIN attempt'[j] = 1..m /\ attempt'[j][m] = mark
      /\ \A n \in 1..Len(attempt[j]) : attempt'[j][n] = attempt[j][n]
  <2>1. Append(attempt[j], mark) \in Seq(Marks)
    BY <1>0
  <2> QED
    BY <1>0, <2>1, AppendProperties, LenProperties
<1>2. \A n : After(n) = Count(j, n) /\ Count(j, n) \in Nat
  BY CountType DEF Count
<1> HIDE DEF After
<1>3. \A n \in Nat : After(n) <= 1 + faults'
  BY <1>2 DEF JobDials
<1>4. \A n \in Nat : n > m => After(n) = 0
  BY <1>2 DEF JobDials
<1>5. \A n \in DOMAIN attempt'[j] : attempt'[j][n] = "in_progress" => After(n) > 0
  <2> SUFFICES ASSUME NEW n \in 1..m, attempt'[j][n] = "in_progress" PROVE After(n) > 0
    BY <1>1
  <2>1. CASE n = m
    BY <1>1, <1>2, <2>1 DEF JobDials
  <2>2. CASE n # m
    <3>1. n \in DOMAIN attempt[j] /\ attempt[j][n] = "in_progress"
      BY <1>0, <1>1, <2>2
    <3>2. Count(j, n) > 0
      BY <3>1 DEF JobDials
    <3> QED
      BY <1>2, <3>2
  <2> QED
    BY <2>1, <2>2
<1>6. After(m + 1) <= faults'
  <2>1. m + 1 \in Nat /\ m + 1 > m
    BY <1>0
  <2>2. After(m + 1) = 0
    BY <1>4, <2>1
  <2> QED
    BY <1>0, <2>2
<1> QED
  BY <1>1, <1>3, <1>4, <1>5, <1>6 DEF JobDials, Count, After

\* An attempt is dialled and put on record as failed, its answer lost.
LEMMA DialUnanswered ==
  ASSUME NEW j \in Jobs, JobDials(j), TypeOK, TypeOK', faults' = faults,
         \A v \in Workers : ~Dialled(v, j) /\ ~Dialled(v, j)',
         NEW mark \in Marks, mark # "in_progress", attempt'[j] = Append(attempt[j], mark),
         dials'[j] = Append(dials[j], Len(attempt[j]) + 1)
  PROVE  JobDials(j)'
<1> DEFINE After(n) == Cardinality(CallsOf(dials'[j], n))
           m == Len(attempt[j]) + 1
<1>0. /\ dials[j] \in Seq(Nat) /\ faults \in Nat /\ m \in Nat /\ m + 1 \in Nat
      /\ attempt[j] \in Seq(Marks) /\ DOMAIN attempt[j] = 1..Len(attempt[j])
      /\ Len(attempt[j]) \in Nat
  BY LenProperties DEF TypeOK, Marks
<1>1. /\ Len(attempt'[j]) = m /\ DOMAIN attempt'[j] = 1..m /\ attempt'[j][m] = mark
      /\ \A n \in 1..Len(attempt[j]) : attempt'[j][n] = attempt[j][n]
  <2>1. Append(attempt[j], mark) \in Seq(Marks)
    BY <1>0
  <2> QED
    BY <1>0, <2>1, AppendProperties, LenProperties
<1>2. \A n : Count(j, n) \in Nat
  BY CountType
<1>3. \A n \in Nat : n # m => After(n) = Count(j, n)
  BY <1>0, OtherDial DEF Count
<1>4. After(m) = Count(j, m) + 1
  BY <1>0, SameDial DEF Count
<1>5. Count(j, m) <= faults
  BY DEF JobDials
<1> HIDE DEF After
<1>6. \A n \in Nat : After(n) <= 1 + faults'
  <2> SUFFICES ASSUME NEW n \in Nat PROVE After(n) <= 1 + faults
    OBVIOUS
  <2>1. CASE n = m
    <3>1. After(n) = Count(j, m) + 1
      BY <1>4, <2>1
    <3>2. Count(j, m) \in Nat
      BY <1>2
    <3> QED
      BY <1>0, <1>5, <3>1, <3>2
  <2>2. CASE n # m
    BY <1>3, <2>2 DEF JobDials
  <2> QED
    BY <2>1, <2>2
<1>7. \A n \in Nat : n > m => After(n) = 0
  BY <1>0, <1>3 DEF JobDials
<1>8. After(m + 1) = 0
  BY <1>0, <1>7
<1>9. \A n \in DOMAIN attempt'[j] : attempt'[j][n] = "in_progress" => After(n) > 0
  <2> SUFFICES ASSUME NEW n \in 1..m, attempt'[j][n] = "in_progress" PROVE After(n) > 0
    BY <1>1
  <2>1. n # m
    BY <1>1
  <2>2. n \in DOMAIN attempt[j] /\ attempt[j][n] = "in_progress"
    BY <1>0, <1>1, <2>1
  <2>3. Count(j, n) > 0
    BY <2>2 DEF JobDials
  <2> QED
    BY <1>3, <2>1, <2>3
<1> QED
  BY <1>0, <1>1, <1>6, <1>7, <1>8, <1>9 DEF JobDials, Count, After

\* A worker that has dialled crashes: the call went out, the record did not.
LEMMA DialLost ==
  ASSUME NEW j \in Jobs, JobDials(j), TypeOK, TypeOK', faults' = faults + 1,
         dials' = dials, attempt' = attempt,
         \A v \in Workers : ~Dialled(v, j)'
  PROVE  JobDials(j)'
<1> DEFINE After(n) == Cardinality(CallsOf(dials'[j], n))
<1>1. \A n : After(n) = Count(j, n) /\ Count(j, n) \in Nat
  BY CountType DEF Count
<1>2. faults \in Nat /\ Len(attempt[j]) + 1 \in Nat
  BY LenProperties DEF TypeOK
<1> HIDE DEF After
<1>3. \A n \in Nat : After(n) <= 1 + faults
  BY <1>1 DEF JobDials
<1>4. \A n \in Nat : After(n) <= 1 + faults'
  BY <1>1, <1>2, <1>3
<1>5. After(Len(attempt'[j]) + 1) <= faults'
  BY <1>2, <1>3
<1>6. \A n \in Nat : n > Len(attempt'[j]) + 1 => After(n) = 0
  BY <1>1 DEF JobDials
<1>7. \A n \in DOMAIN attempt'[j] : attempt'[j][n] = "in_progress" => After(n) > 0
  BY <1>1 DEF JobDials
<1> QED
  BY <1>4, <1>5, <1>6, <1>7 DEF JobDials, Count, After

\* What the placing steps do to the transactions.
LEMMA PlacingTxn ==
  ASSUME CallInv, NEW w \in Workers, Placing(w)
  PROVE  /\ \A v \in Workers \ {w} : txn'[v] = txn[v]
         /\ StartPasses(w) => /\ txn[w].step = "claimed" /\ txn'[w].step = "checked"
                              /\ txn'[w].job = txn[w].job /\ txn'[w].lead = txn[w].lead
         /\ Dial(w) => /\ txn[w].step = "checked" /\ txn'[w].step = "dialled"
                       /\ txn'[w].job = txn[w].job /\ txn'[w].lead = txn[w].lead
         /\ DialFails(w) => txn[w].step = "checked" /\ txn'[w] = Idle
         /\ CommitCall(w) => txn[w].step = "dialled" /\ txn'[w] = Idle
         /\ Crash(w) => txn'[w] = Idle
<1>0. txn \in [Workers -> TxnRow] /\ txn[w] \in TxnRow
  BY DEF CallInv, TypeOK
<1>1. ASSUME StartPasses(w)
      PROVE /\ txn[w].step = "claimed" /\ txn'[w].step = "checked"
            /\ txn'[w].job = txn[w].job /\ txn'[w].lead = txn[w].lead
  BY <1>0, <1>1 DEF StartPasses, TxnRow
<1>2. ASSUME Dial(w)
      PROVE /\ txn[w].step = "checked" /\ txn'[w].step = "dialled"
            /\ txn'[w].job = txn[w].job /\ txn'[w].lead = txn[w].lead
  BY <1>0, <1>2 DEF Dial, TxnRow
<1>3. ASSUME DialFails(w) \/ CommitCall(w) \/ Crash(w)
      PROVE txn'[w] = Idle
  BY <1>0, <1>3 DEF DialFails, CommitCall, Crash, Finish, Rollback
<1>4. /\ DialFails(w) => txn[w].step = "checked"
      /\ CommitCall(w) => txn[w].step = "dialled"
  BY DEF DialFails, CommitCall
<1>5. \A v \in Workers \ {w} : txn'[v] = txn[v]
  BY <1>0 DEF Placing, StartPasses, Dial, DialFails, CommitCall, Crash, Finish, Rollback
<1> QED
  BY <1>1, <1>2, <1>3, <1>4, <1>5

\* A worker whose transaction did not move has dialled what it had dialled.
LEMMA SameDialled ==
  ASSUME NEW w, NEW j, txn'[w] = txn[w]
  PROVE  Dialled(w, j)' <=> Dialled(w, j)
  BY DEF Dialled

\* Every step keeps the account of dials.
LEMMA DialStep ==
  ASSUME CallInv, CallInv', DialInv, [Next]_vars
  PROVE  DialInv'
<1>0. TypeOK /\ TypeOK'
  BY DEF CallInv
<1>1. CASE Quiet
  <2> SUFFICES ASSUME NEW j \in Jobs PROVE JobDials(j)'
    BY DEF DialInv
  <2>1. \A w \in Workers : Dialled(w, j)' <=> Dialled(w, j)
    BY <1>1 DEF Quiet, Dialled, PastCheck
  <2> QED
    BY <1>0, <1>1, <2>1, DialsKept DEF Quiet, DialInv
<1>2. ASSUME NEW w \in Workers, Placing(w) PROVE DialInv'
  <2>j. PICK j : j = txn[w].job
    OBVIOUS
  <2> USE <2>j
  <2>0. \A v \in Workers \ {w} : txn'[v] = txn[v]
    BY <1>2, PlacingTxn
  <2>a. txn[w].step # "idle" => j \in Jobs
    BY IdleFacts DEF CallInv, TxnInv
  <2>b. txn[w].step # "idle" => \A v \in Workers \ {w} : ~Dialled(v, j)
    BY IdleFacts DEF CallInv, JobExclusive, Dialled
  <2>c. faults \in Nat /\ faults' \in Nat
    BY <1>0 DEF TypeOK
  <2>1. ASSUME NEW k \in Jobs, dials'[k] = dials[k], attempt'[k] = attempt[k], faults <= faults',
               Dialled(w, k)' <=> Dialled(w, k)
        PROVE JobDials(k)'
    <3>1. \A v \in Workers : Dialled(v, k)' <=> Dialled(v, k)
      BY <2>0, <2>1 DEF Dialled
    <3> QED
      BY <1>0, <2>1, <3>1, DialsKept DEF DialInv
  <2>2. CASE StartPasses(w)
    <3>1. /\ UNCHANGED <<attempt, dials, faults>>
          /\ \A k \in Jobs : ~Dialled(w, k) /\ ~Dialled(w, k)'
      BY <1>2, <2>2, PlacingTxn DEF StartPasses, Dialled
    <3> QED
      BY <2>1, <2>c, <3>1 DEF DialInv
  <2>3. CASE Dial(w)
    <3>1. /\ UNCHANGED <<attempt, faults>>
          /\ dials' = [dials EXCEPT ![j] = Append(@, Len(attempt[j]) + 1)]
          /\ txn[w].step = "checked" /\ txn'[w].step = "dialled" /\ txn'[w].job = j
      BY <1>2, <2>3, PlacingTxn DEF Dial
    <3>2. /\ j \in Jobs /\ dials'[j] = Append(dials[j], Len(attempt[j]) + 1)
          /\ \A k \in Jobs \ {j} : dials'[k] = dials[k]
      BY <1>0, <2>a, <3>1 DEF TypeOK
    <3>3. (\A v \in Workers : ~Dialled(v, j)) /\ Dialled(w, j)'
      BY <2>b, <3>1 DEF Dialled
    <3>4. JobDials(j)'
      BY <1>0, <3>1, <3>2, <3>3, DialCounted DEF DialInv
    <3>5. ASSUME NEW k \in Jobs \ {j} PROVE JobDials(k)'
      <4>1. ~Dialled(w, k) /\ ~Dialled(w, k)'
        BY <3>1 DEF Dialled
      <4> QED
        BY <2>1, <2>c, <3>1, <3>2, <4>1
    <3> QED
      BY <3>4, <3>5 DEF DialInv
  <2>4. ASSUME NEW mark \in Marks, txn[w].step \in PastCheck, txn'[w] = Idle,
               UNCHANGED <<dials, faults>>,
               attempt' = [attempt EXCEPT ![j] = Append(@, mark)],
               mark = "in_progress" => txn[w].step = "dialled",
               txn[w].step = "dialled" => mark = "in_progress"
        PROVE DialInv'
    <3>1. /\ j \in Jobs /\ attempt'[j] = Append(attempt[j], mark)
          /\ \A k \in Jobs \ {j} : attempt'[k] = attempt[k]
      BY <1>0, <2>a, <2>4 DEF TypeOK, PastCheck
    <3>2. \A v \in Workers : ~Dialled(v, j)'
      <4>1. ~Dialled(w, j)'
        BY <2>4, IdleFacts DEF Dialled
      <4>2. \A v \in Workers \ {w} : ~Dialled(v, j)'
        BY <2>0, <2>b, <2>4 DEF Dialled, PastCheck
      <4> QED
        BY <4>1, <4>2
    <3>3. mark = "in_progress" => \E v \in Workers : Dialled(v, j)
      BY <2>4 DEF Dialled
    <3>4. JobDials(j)'
      BY <1>0, <2>4, <3>1, <3>2, <3>3, AttemptCounted DEF DialInv
    <3>5. ASSUME NEW k \in Jobs \ {j} PROVE JobDials(k)'
      <4>1. ~Dialled(w, k) /\ ~Dialled(w, k)'
        BY <2>4, IdleFacts DEF Dialled
      <4> QED
        BY <2>1, <2>4, <2>c, <3>1, <4>1
    <3> QED
      BY <3>4, <3>5 DEF DialInv
  <2>5. CASE DialFails(w)
    <3>1. /\ txn[w].step = "checked" /\ txn'[w] = Idle /\ UNCHANGED faults
          /\ attempt' = [attempt EXCEPT ![j] = Append(@, "completed")]
          /\ dials' \in {dials, [dials EXCEPT ![j] = Append(@, Len(attempt[j]) + 1)]}
      BY <1>2, <2>5, PlacingTxn DEF DialFails
    <3>2. CASE dials' = dials
      BY <2>4, <3>1, <3>2 DEF Marks, PastCheck
    <3>3. CASE dials' = [dials EXCEPT ![j] = Append(@, Len(attempt[j]) + 1)]
      <4>1. /\ j \in Jobs /\ dials'[j] = Append(dials[j], Len(attempt[j]) + 1)
            /\ attempt'[j] = Append(attempt[j], "completed")
            /\ \A k \in Jobs \ {j} : dials'[k] = dials[k] /\ attempt'[k] = attempt[k]
        BY <1>0, <2>a, <3>1, <3>3 DEF TypeOK
      <4>2. ~Dialled(w, j) /\ \A k \in Jobs : ~Dialled(w, k) /\ ~Dialled(w, k)'
        BY <3>1, IdleFacts DEF Dialled
      <4>3. \A v \in Workers : ~Dialled(v, j) /\ ~Dialled(v, j)'
        BY <2>0, <2>b, <3>1, <4>1, <4>2 DEF Dialled
      <4>4. JobDials(j)'
        BY <1>0, <3>1, <4>1, <4>3, DialUnanswered DEF DialInv, Marks
      <4>5. ASSUME NEW k \in Jobs \ {j} PROVE JobDials(k)'
        BY <2>1, <2>c, <3>1, <4>1, <4>2
      <4> QED
        BY <4>4, <4>5 DEF DialInv
    <3> QED
      BY <3>1, <3>2, <3>3
  <2>6. CASE CommitCall(w)
    <3>1. /\ txn[w].step = "dialled" /\ txn'[w] = Idle
          /\ UNCHANGED <<dials, faults>>
          /\ attempt' = [attempt EXCEPT ![j] = Append(@, "in_progress")]
      BY <1>2, <2>6, PlacingTxn DEF CommitCall
    <3> QED
      BY <2>4, <3>1 DEF Marks, PastCheck
  <2>7. CASE Crash(w)
    <3>1. /\ UNCHANGED <<attempt, dials>> /\ faults' = faults + 1 /\ txn'[w] = Idle
      BY <1>2, <2>7, PlacingTxn DEF Crash
    <3>2. \A k \in Jobs : ~Dialled(w, k)'
      BY <3>1, IdleFacts DEF Dialled
    <3>3. ASSUME NEW k \in Jobs PROVE JobDials(k)'
      <4>1. CASE Dialled(w, k)
        <5>1. \A v \in Workers : ~Dialled(v, k)'
          BY <2>0, <2>b, <3>2, <4>1 DEF Dialled
        <5> QED
          BY <1>0, <3>1, <5>1, DialLost DEF DialInv
      <4>2. CASE ~Dialled(w, k)
        BY <2>1, <2>c, <3>1, <3>2, <4>2
      <4> QED
        BY <4>1, <4>2
    <3> QED
      BY <3>3 DEF DialInv
  <2> QED
    BY <1>2, <2>2, <2>3, <2>5, <2>6, <2>7 DEF Placing
<1> QED
  BY <1>1, <1>2, QuietOrPlacing

-----------------------------------------------------------------------------
(* The concurrency limit is passed only by calls counted at the same time *)

\* Both sets are counted: CallsBounded speaks of the busy workers.
LEMMA WorkersFinite ==
  /\ IsFiniteSet(Workers) /\ Cardinality(Workers) \in Nat
  /\ IsFiniteSet(Busy) /\ Cardinality(Busy) \in Nat /\ Cardinality(Busy) <= Cardinality(Workers)
<1>1. IsFiniteSet(Workers)
  BY WorkerAssumption, FS_Union DEF Workers
<1>2. Busy \in SUBSET Workers
  BY DEF Busy
<1> QED
  BY <1>1, <1>2, FS_Subset, FS_CardinalityType

\* Neither more calls nor more workers about to call: still within the bound.
LEMMA BoundKept ==
  ASSUME LimitInv, Calling' \in SUBSET Calling, Busy' \in SUBSET Busy
  PROVE  LimitInv'
<1>1. IsFiniteSet(Calling') /\ Cardinality(Calling') <= Cardinality(Calling)
  BY FS_Subset DEF LimitInv
<1>2. Cardinality(Busy') <= Cardinality(Busy)
  BY WorkersFinite, FS_Subset
<1>3. /\ Cardinality(Calling) \in Nat /\ Cardinality(Calling') \in Nat
      /\ Cardinality(Busy) \in Nat /\ Cardinality(Busy') \in Nat
      /\ Cardinality(Workers) \in Nat /\ MaxConcurrent \in Nat
  <2>1. IsFiniteSet(Busy')
    BY WorkersFinite, FS_Subset
  <2> QED
    BY <1>1, <2>1, WorkersFinite, FS_CardinalityType, LimitAssumption DEF LimitInv
<1>4. Cardinality(Calling) + Cardinality(Busy) < MaxConcurrent + Cardinality(Workers)
  BY DEF LimitInv, CallsBounded, Busy
<1>5. Cardinality(Calling') + Cardinality(Busy') < MaxConcurrent + Cardinality(Workers)
  BY <1>1, <1>2, <1>3, <1>4
<1> QED
  BY <1>1, <1>5 DEF LimitInv, CallsBounded, Busy

\* The workers about to call, once one more has passed the check or is done.
LEMMA BusyMoves ==
  ASSUME NEW w \in Workers, \A v \in Workers \ {w} : txn'[v] = txn[v]
  PROVE  Busy' = (Busy \ {w}) \cup (IF txn'[w].step \in PastCheck THEN {w} ELSE {})
  BY DEF Busy, PastCheck

\* Every step keeps the bound.
LEMMA LimitStep ==
  ASSUME CallInv, CallInv', LimitInv, [Next]_vars
  PROVE  LimitInv'
<1>0. job \in [Jobs -> JobRow]
  BY DEF CallInv, TypeOK
<1>c. /\ Cardinality(Calling) \in Nat /\ Cardinality(Busy) \in Nat
      /\ Cardinality(Workers) \in Nat /\ MaxConcurrent \in Nat
  BY WorkersFinite, FS_CardinalityType, LimitAssumption DEF LimitInv
<1>1. CASE Quiet
  <2>1. Calling' \in SUBSET Calling
    BY <1>1 DEF Quiet, Calling
  <2>2. Busy' \in SUBSET Busy
    BY <1>1 DEF Quiet, Busy, PastCheck
  <2> QED
    BY <2>1, <2>2, BoundKept
<1>2. ASSUME NEW w \in Workers, Placing(w) PROVE LimitInv'
  <2> DEFINE j == txn[w].job
  <2>0. Busy' = (Busy \ {w}) \cup (IF txn'[w].step \in PastCheck THEN {w} ELSE {})
    BY <1>2, PlacingTxn, BusyMoves
  <2>1. CASE StartPasses(w)
    <3>1. Calling' = Calling /\ Cardinality(Calling) < MaxConcurrent
      BY <2>1 DEF StartPasses, MayCall, Calling
    <3>2. Cardinality(Busy') \in Nat /\ Cardinality(Busy') <= Cardinality(Workers)
      <4>1. Busy' \in SUBSET Workers
        BY DEF Busy
      <4> QED
        BY <4>1, WorkersFinite, FS_Subset, FS_CardinalityType
    <3>3. Cardinality(Calling') + Cardinality(Busy') < MaxConcurrent + Cardinality(Workers)
      BY <1>c, <3>1, <3>2
    <3> QED
      BY <3>1, <3>3 DEF LimitInv, CallsBounded, Busy
  <2>2. CASE Dial(w)
    <3>1. Calling' = Calling
      BY <2>2 DEF Dial, Calling
    <3>2. Busy' \in SUBSET Busy
      BY <1>2, <2>0, <2>2, PlacingTxn DEF Busy
    <3> QED
      BY <3>1, <3>2, BoundKept
  <2>3. CASE Crash(w) \/ DialFails(w)
    <3>1. Calling' \in SUBSET Calling
      <4>1. CASE Crash(w)
        BY <4>1 DEF Crash, Rollback, Calling
      <4>2. CASE DialFails(w)
        <5>1. PICK status \in {"retry_pending", "failed"} : Finish(w, status)
          BY <4>2 DEF DialFails, AfterFailure
        <5> QED
          BY <1>0, <5>1 DEF Finish, Calling, Row
      <4> QED
        BY <2>3, <4>1, <4>2
    <3>2. Busy' \in SUBSET Busy
      <4>1. txn'[w] = Idle
        BY <1>2, <2>3, PlacingTxn
      <4> QED
        BY <2>0, <4>1, IdleFacts DEF PastCheck
    <3> QED
      BY <3>1, <3>2, BoundKept
  <2>4. CASE CommitCall(w)
    <3>1. w \in Busy /\ txn'[w] = Idle
      BY <1>2, <2>4, PlacingTxn DEF Busy
    <3>2. Busy' = Busy \ {w}
      BY <2>0, <3>1, IdleFacts DEF PastCheck
    <3>3. Cardinality(Busy') = Cardinality(Busy) - 1
      BY <3>1, <3>2, WorkersFinite, FS_RemoveElement
    <3>4. Calling' \in SUBSET (Calling \cup {j})
      BY <1>0, <2>4 DEF CommitCall, Finish, Calling
    <3>5. /\ IsFiniteSet(Calling \cup {j})
          /\ Cardinality(Calling \cup {j}) \in Nat
          /\ Cardinality(Calling \cup {j}) <= Cardinality(Calling) + 1
      <4>1. /\ IsFiniteSet(Calling \cup {j})
            /\ Cardinality(Calling \cup {j}) = IF j \in Calling THEN Cardinality(Calling)
                                               ELSE Cardinality(Calling) + 1
        BY FS_AddElement DEF LimitInv
      <4> QED
        BY <1>c, <4>1
    <3>6. /\ IsFiniteSet(Calling') /\ Cardinality(Calling') \in Nat
          /\ Cardinality(Calling') <= Cardinality(Calling \cup {j})
      BY <3>4, <3>5, FS_Subset, FS_CardinalityType
    <3>7. Cardinality(Calling) + Cardinality(Busy) < MaxConcurrent + Cardinality(Workers)
      BY DEF LimitInv, CallsBounded, Busy
    <3>8. Cardinality(Calling') + Cardinality(Busy') < MaxConcurrent + Cardinality(Workers)
      BY <1>c, <3>3, <3>5, <3>6, <3>7
    <3> QED
      BY <3>6, <3>8 DEF LimitInv, CallsBounded, Busy
  <2> QED
    BY <1>2, <2>1, <2>2, <2>3, <2>4 DEF Placing
<1> QED
  BY <1>1, <1>2, QuietOrPlacing

-----------------------------------------------------------------------------
(* Which lead a job is called for *)

\* The four kinds of step: rows move while no transaction does, a worker claims
\* a job, it goes a step further, or its transaction ends.
RowsOnly ==
  /\ UNCHANGED txn
  /\ \A j \in Jobs :
       \/ /\ job'[j].lead = job[j].lead
          /\ job'[j].status = "absent" <=> job[j].status = "absent"
       \/ Free(j) /\ job'[j].status # "absent"
Claims(w, j) ==
  /\ txn[w] = Idle /\ ~Locked(j) /\ UNCHANGED job
  /\ \A v \in Workers \ {w} : txn'[v] = txn[v]
  /\ txn'[w].job = j /\ (txn'[w].lead = job[j].lead \/ Free(j))
GoesOn(w) ==
  /\ UNCHANGED job
  /\ \A v \in Workers \ {w} : txn'[v] = txn[v]
  /\ txn'[w].job = txn[w].job /\ txn'[w].lead = txn[w].lead /\ txn[w] # Idle
Ends(w) ==
  /\ txn'[w] = Idle /\ \A v \in Workers \ {w} : txn'[v] = txn[v]
  /\ \A j \in Jobs : \/ job'[j] = job[j]
                     \/ /\ j = txn[w].job /\ txn[w] # Idle
                        /\ job'[j].lead = txn[w].lead /\ job'[j].status # "absent"

\* The row of a job that is there stays there and keeps its lead.
LEMMA RowsOnlySteps ==
  ASSUME CallInv,
         \/ \E j \in Jobs, l \in Leads, due \in BOOLEAN : CreateJob(j, l, due)
         \/ \E j \in Jobs : ComeDue(j) \/ Reconcile(j)
         \/ \E j \in Jobs, n \in 1..MaxAttempts, through \in BOOLEAN : Complete(j, n, through)
         \/ \E l \in Leads : CancelFollowUp(l)
         \/ \E c \in Clients, j \in Jobs : HttpPrepare(c, j)
         \/ \E l \in OptOuts, where \in {"no", "customer", "preference"} : SetDoNotCall(l, where)
         \/ \E l \in Deletable : MarkDeleted(l)
         \/ \E d \in Schedulers : Tick(d) \/ EndTick(d)
         \/ Expire
         \/ UNCHANGED vars
  PROVE  RowsOnly
<1>0. job \in [Jobs -> JobRow]
  BY DEF CallInv, TypeOK
<1>1. UNCHANGED txn
  BY DEF CreateJob, ComeDue, Reconcile, Complete, CancelFollowUp, HttpPrepare, SetDoNotCall, MarkDeleted,
         Tick, EndTick, Expire, vars
<1>2. ASSUME NEW j \in Jobs, job[j].status # "absent", NEW status \in Statuses,
             job' = [job EXCEPT ![j].status = status]
      PROVE RowsOnly
  <2>1. status # "absent"
    BY DEF Statuses, Waiting, Terminal
  <2>2. \A k \in Jobs : /\ job'[k].lead = job[k].lead
                        /\ job'[k].status = "absent" <=> job[k].status = "absent"
    BY <1>0, <1>2, <2>1 DEF JobRow
  <2> QED
    BY <1>1, <2>2 DEF RowsOnly
<1>3. ASSUME NEW j \in Jobs, NEW l \in Leads, NEW due \in BOOLEAN, CreateJob(j, l, due)
      PROVE RowsOnly
  <2>1. PICK status \in {"queued", "cancelled"} : job' = [job EXCEPT ![j] = Row(status, due, l)]
    BY <1>3 DEF CreateJob
  <2>2. job'[j].status # "absent" /\ \A k \in Jobs \ {j} : job'[k] = job[k]
    BY <1>0, <2>1 DEF Row
  <2>3. Free(j)
    BY <1>3 DEF CreateJob
  <2> QED
    BY <1>1, <2>2, <2>3 DEF RowsOnly
<1>4. ASSUME NEW j \in Jobs, ComeDue(j) PROVE RowsOnly
  <2>1. \A k \in Jobs : job'[k].lead = job[k].lead /\ job'[k].status = job[k].status
    BY <1>0, <1>4 DEF ComeDue, JobRow
  <2> QED
    BY <1>1, <2>1 DEF RowsOnly
<1>5. ASSUME NEW j \in Jobs, Reconcile(j) PROVE RowsOnly
  <2>1. PICK status \in {"retry_pending", "failed"} : job' = [job EXCEPT ![j].status = status]
    BY <1>5 DEF Reconcile, AfterFailure
  <2>2. status \in Statuses /\ job[j].status # "absent"
    BY <1>5 DEF Reconcile, ActiveStatuses, Statuses, Waiting, Terminal
  <2> QED
    BY <1>2, <2>1, <2>2
<1>6. ASSUME NEW j \in Jobs, NEW n \in 1..MaxAttempts, NEW through \in BOOLEAN,
             Complete(j, n, through)
      PROVE RowsOnly
  <2>1. PICK status \in {"completed", "retry_pending", "failed"} :
          job' = [job EXCEPT ![j].status = status]
    BY <1>6 DEF Complete, AfterFailure
  <2>2. status \in Statuses /\ job[j].status # "absent"
    BY <1>6 DEF Complete, Completable, Statuses, Waiting, Terminal
  <2> QED
    BY <1>2, <2>1, <2>2
<1>7. ASSUME NEW l \in Leads, CancelFollowUp(l) PROVE RowsOnly
  <2>1. PICK jobs \in SUBSET Jobs :
          /\ \A j \in jobs : job[j].status # "absent"
          /\ job' = [j \in Jobs |-> IF j \in jobs THEN [job[j] EXCEPT !.status = "cancelled"]
                                    ELSE job[j]]
    BY <1>7 DEF CancelFollowUp, Waiting
  <2>2. \A k \in Jobs : /\ job'[k].lead = job[k].lead
                        /\ job'[k].status = "absent" <=> job[k].status = "absent"
    BY <1>0, <2>1 DEF JobRow
  <2> QED
    BY <1>1, <2>2 DEF RowsOnly
<1>8. ASSUME NEW c \in Clients, NEW j \in Jobs, HttpPrepare(c, j) PROVE RowsOnly
  <2>1. "ready" \in Statuses /\ job[j].status # "absent"
    BY <1>8 DEF HttpPrepare, Statuses, Waiting
  <2> QED
    BY <1>2, <1>8, <2>1 DEF HttpPrepare
<1>9. ASSUME UNCHANGED job PROVE RowsOnly
  BY <1>1, <1>9 DEF RowsOnly
<1>10. ASSUME \/ \E l \in OptOuts, where \in {"no", "customer", "preference"} : SetDoNotCall(l, where)
              \/ \E l \in Deletable : MarkDeleted(l)
              \/ \E d \in Schedulers : Tick(d) \/ EndTick(d)
              \/ Expire
              \/ UNCHANGED vars
       PROVE RowsOnly
  BY <1>9, <1>10 DEF SetDoNotCall, MarkDeleted, Tick, EndTick, Expire, vars
<1> QED
  BY <1>3, <1>4, <1>5, <1>6, <1>7, <1>8, <1>10

\* A claim takes the lead from the row, or inserts one of its own.
LEMMA ClaimSteps ==
  ASSUME CallInv,
         \/ \E d \in Schedulers : Dispatch(d)
         \/ \E c \in Clients, j \in Jobs : HttpStart(c, j)
         \/ \E c \in Clients, j \in Jobs, l \in Leads : InstantCall(c, j, l)
  PROVE  RowsOnly \/ \E w \in Workers, j \in Jobs : Claims(w, j)
<1>0. job \in [Jobs -> JobRow] /\ txn \in [Workers -> TxnRow] /\ batch \in [Schedulers -> SUBSET Jobs]
  BY DEF CallInv, TypeOK
<1>1. ASSUME NEW w \in Workers, NEW j \in Jobs, NEW l, txn[w] = Idle, ~Locked(j), NEW step,
             txn' = [txn EXCEPT ![w] = [step |-> step, job |-> j, lead |-> l]],
             UNCHANGED job, l = job[j].lead \/ Free(j)
      PROVE Claims(w, j)
  BY <1>0, <1>1 DEF Claims
<1>2. ASSUME NEW d \in Schedulers, Dispatch(d)
      PROVE RowsOnly \/ \E w \in Workers, j \in Jobs : Claims(w, j)
  <2>1. PICK j \in Jobs :
          IF job[j].status \in Waiting /\ ~Locked(j)
            THEN \E step : txn' = [txn EXCEPT ![d] = [step |-> step, job |-> j,
                                                      lead |-> job[j].lead]]
            ELSE UNCHANGED txn
    BY <1>0, <1>2 DEF Dispatch, Claim
  <2>2. txn[d] = Idle /\ UNCHANGED job /\ d \in Workers
    BY <1>2 DEF Dispatch, Workers
  <2>3. CASE UNCHANGED txn
    BY <2>2, <2>3 DEF RowsOnly
  <2>4. CASE job[j].status \in Waiting /\ ~Locked(j)
    BY <1>1, <2>1, <2>2, <2>4
  <2> QED
    BY <2>1, <2>3, <2>4
<1>3. ASSUME NEW c \in Clients, NEW j \in Jobs, HttpStart(c, j)
      PROVE \E w \in Workers, k \in Jobs : Claims(w, k)
  BY <1>1, <1>3 DEF HttpStart, Workers
<1>4. ASSUME NEW c \in Clients, NEW j \in Jobs, NEW l \in Leads, InstantCall(c, j, l)
      PROVE RowsOnly \/ \E w \in Workers, k \in Jobs : Claims(w, k)
  <2>1. CASE dnc[l] = "no"
    <3>1. Free(j) /\ ~Locked(j) /\ txn[c] = Idle /\ UNCHANGED job /\ c \in Workers
          /\ \E step : txn' = [txn EXCEPT ![c] = [step |-> step, job |-> j, lead |-> l]]
      BY <1>4, <2>1 DEF InstantCall, Claim, Free, Workers
    <3> QED
      BY <1>1, <3>1
  <2>2. CASE dnc[l] # "no"
    <3>1. Free(j) /\ UNCHANGED txn /\ job' = [job EXCEPT ![j] = Row("cancelled", TRUE, l)]
      BY <1>4, <2>2 DEF InstantCall
    <3>2. job'[j].status # "absent" /\ \A k \in Jobs \ {j} : job'[k] = job[k]
      BY <1>0, <3>1 DEF Row
    <3> QED
      BY <3>1, <3>2 DEF RowsOnly
  <2> QED
    BY <2>1, <2>2
<1> QED
  BY <1>2, <1>3, <1>4

\* A transaction goes on or ends.
LEMMA TxnSteps ==
  ASSUME CallInv, NEW w \in Workers, Proceed(w) \/ PrepareBreaks(w) \/ Crash(w)
  PROVE  GoesOn(w) \/ Ends(w)
<1>0. job \in [Jobs -> JobRow] /\ txn \in [Workers -> TxnRow]
  BY DEF CallInv, TypeOK
<1>1. ASSUME NEW status, status # "absent", txn[w].step # "idle", Finish(w, status)
      PROVE Ends(w)
  <2>1. txn'[w] = Idle /\ \A v \in Workers \ {w} : txn'[v] = txn[v]
    BY <1>0, <1>1 DEF Finish
  <2>2. \A j \in Jobs : \/ job'[j] = job[j]
                        \/ /\ j = txn[w].job
                           /\ job'[j].lead = txn[w].lead /\ job'[j].status # "absent"
    BY <1>0, <1>1 DEF Finish, Row
  <2>3. txn[w] # Idle
    BY <1>1, IdleFacts
  <2> QED
    BY <2>1, <2>2, <2>3 DEF Ends
<1>2. ASSUME Rollback(w) PROVE Ends(w)
  BY <1>0, <1>2 DEF Rollback, Ends
<1>3. ASSUME StartPasses(w) \/ Dial(w) PROVE GoesOn(w)
  <2>1. /\ \A v \in Workers \ {w} : txn'[v] = txn[v]
        /\ txn'[w].job = txn[w].job /\ txn'[w].lead = txn[w].lead
    BY <1>3, PlacingTxn DEF Placing
  <2>2. UNCHANGED job /\ txn[w] # Idle
    BY <1>3, IdleFacts DEF StartPasses, Dial
  <2> QED
    BY <2>1, <2>2 DEF GoesOn
<1>4. ASSUME StartBlocked(w) \/ StartOutsideHours(w) \/ StartOverLimit(w)
           \/ PrepareFails(w) \/ PrepareBreaks(w)
      PROVE Ends(w)
  <2>1. PICK status \in {"ready", "cancelled", "retry_pending"} : Finish(w, status) \/ Rollback(w)
    BY <1>4 DEF StartBlocked, StartOutsideHours, StartOverLimit, PrepareFails, PrepareBreaks, Fail
  <2>2. txn[w].step # "idle"
    BY <1>4 DEF StartBlocked, StartOutsideHours, StartOverLimit, PrepareFails, PrepareBreaks
  <2> QED
    BY <1>1, <1>2, <2>1, <2>2
<1>5. ASSUME DialFails(w) \/ CommitCall(w) PROVE Ends(w)
  <2>1. PICK status \in {"calling", "failed", "retry_pending"} : Finish(w, status)
    BY <1>5 DEF DialFails, CommitCall, AfterFailure
  <2>2. txn[w].step # "idle"
    BY <1>5 DEF DialFails, CommitCall
  <2> QED
    BY <1>1, <2>1, <2>2
<1>6. ASSUME Crash(w) PROVE Ends(w)
  BY <1>2, <1>6 DEF Crash
<1> QED
  BY <1>3, <1>4, <1>5, <1>6 DEF Proceed

\* Every step is of one of the four kinds.
LEMMA FourKinds ==
  ASSUME CallInv, [Next]_vars
  PROVE  RowsOnly \/ \E w \in Workers : (\E j \in Jobs : Claims(w, j)) \/ GoesOn(w) \/ Ends(w)
<1>1. CASE \E w \in Workers : Proceed(w) \/ PrepareBreaks(w) \/ Crash(w)
  BY <1>1, TxnSteps
<1>2. CASE ~\E w \in Workers : Proceed(w) \/ PrepareBreaks(w) \/ Crash(w)
  BY <1>2, RowsOnlySteps, ClaimSteps DEF Next
<1> QED
  BY <1>1, <1>2

\* Every step keeps the leads of rows and transactions together.
LEMMA LeadStep ==
  ASSUME CallInv, LeadInv, [Next]_vars
  PROVE  LeadInv'
<1> DEFINE Named(w) == \/ job[txn[w].job].status = "absent"
                       \/ job[txn[w].job].lead = txn[w].lead
<1>0. \A w \in Workers : txn[w] # Idle => txn[w].job \in Jobs /\ Locked(txn[w].job)
  BY DEF CallInv, TxnInv, Locked
<1>1. CASE RowsOnly
  <2>1. \A j \in Jobs : job'[j].status = "absent" => job'[j].lead = None
    BY <1>1 DEF RowsOnly, LeadInv
  <2>2. ASSUME NEW w \in Workers, txn'[w] # Idle PROVE Named(w)'
    <3>1. txn'[w] = txn[w] /\ txn[w].job \in Jobs /\ Locked(txn[w].job) /\ Named(w)
      BY <1>0, <1>1, <2>2 DEF RowsOnly, LeadInv
    <3>2. /\ job'[txn[w].job].lead = job[txn[w].job].lead
          /\ job'[txn[w].job].status = "absent" <=> job[txn[w].job].status = "absent"
      BY <1>1, <3>1 DEF RowsOnly, Free
    <3> QED
      BY <3>1, <3>2
  <2> QED
    BY <2>1, <2>2 DEF LeadInv
<1>2. ASSUME NEW w \in Workers, NEW j \in Jobs, Claims(w, j) PROVE LeadInv'
  <2>1. Named(w)'
    BY <1>2 DEF Claims, Free
  <2>2. \A v \in Workers \ {w} : txn'[v] # Idle => Named(v)'
    BY <1>2 DEF Claims, LeadInv
  <2> QED
    BY <1>2, <2>1, <2>2 DEF LeadInv, Claims
<1>3. ASSUME NEW w \in Workers, GoesOn(w) PROVE LeadInv'
  BY <1>3 DEF GoesOn, LeadInv
<1>4. ASSUME NEW w \in Workers, Ends(w) PROVE LeadInv'
  <2>1. \A j \in Jobs : job'[j].status = "absent" => job'[j].lead = None
    BY <1>4 DEF Ends, LeadInv
  <2>2. ASSUME NEW v \in Workers \ {w}, txn'[v] # Idle PROVE Named(v)'
    <3>1. txn'[v] = txn[v] /\ txn[v].job \in Jobs /\ Named(v)
      BY <1>0, <1>4, <2>2 DEF Ends, LeadInv
    <3>2. job'[txn[v].job] = job[txn[v].job]
      BY <1>4, <2>2, <3>1 DEF Ends, CallInv, JobExclusive
    <3> QED
      BY <3>1, <3>2
  <2>3. txn'[w] = Idle
    BY <1>4 DEF Ends
  <2> QED
    BY <2>1, <2>2, <2>3 DEF LeadInv
<1> QED
  BY <1>1, <1>2, <1>3, <1>4, FourKinds

\* A step gives a lead no job that was ever dialled for somebody else.
LEMMA JobsOfStep ==
  ASSUME CallInv, LeadInv, [Next]_vars, NEW l \in Leads
  PROVE  \A j \in JobsOf(l)' : j \in Jobs /\ (j \in JobsOf(l) \/ dials[j] = <<>>)
<1> SUFFICES ASSUME NEW j \in Jobs, dials[j] # <<>>,
                    \/ job'[j].lead = l
                    \/ \E w \in Workers : txn'[w].job = j /\ txn'[w].lead = l
             PROVE  job[j].lead = l \/ \E w \in Workers : txn[w].job = j /\ txn[w].lead = l
  BY DEF JobsOf
<1>1. ~Free(j)
  BY DEF Free
<1>2. CASE RowsOnly
  BY <1>1, <1>2 DEF RowsOnly
<1>3. ASSUME NEW w \in Workers, NEW k \in Jobs, Claims(w, k)
      PROVE  job[j].lead = l \/ \E v \in Workers : txn[v].job = j /\ txn[v].lead = l
  BY <1>1, <1>3 DEF Claims
<1>4. ASSUME NEW w \in Workers, GoesOn(w)
      PROVE  job[j].lead = l \/ \E v \in Workers : txn[v].job = j /\ txn[v].lead = l
  BY <1>4 DEF GoesOn
<1>5. ASSUME NEW w \in Workers, Ends(w)
      PROVE  job[j].lead = l \/ \E v \in Workers : txn[v].job = j /\ txn[v].lead = l
  BY <1>5, IdleFacts, JobAssumption DEF Ends
<1> QED
  BY <1>2, <1>3, <1>4, <1>5, FourKinds

-----------------------------------------------------------------------------
(* Do-Not-Call *)

\* The two parts of CallsTo: calls placed, and workers about to place one.
PlacedTo(l) == UNION {{j} \X DOMAIN dials[j] : j \in JobsOf(l)}
CheckedFor(l) == {w \in Workers : txn[w].lead = l /\ txn[w].step = "checked"}

\* The dials of some jobs, as pairs of a job and a place in its list.
PairsOf(d, jobs) == UNION {{j} \X DOMAIN d[j] : j \in jobs}

\* What such a pair is.
LEMMA PairFacts ==
  ASSUME NEW d, NEW jobs, NEW p
  PROVE  p \in PairsOf(d, jobs) <=> \E j \in jobs : \E i \in DOMAIN d[j] : p = <<j, i>>
<1>1. \A j : p \in {j} \X DOMAIN d[j] <=> \E i \in DOMAIN d[j] : p = <<j, i>>
  OBVIOUS
<1> QED
  BY <1>1 DEF PairsOf

\* The calls placed are such pairs.
LEMMA PlacedPairs ==
  /\ Placed = PairsOf(dials, Jobs) /\ Placed' = PairsOf(dials', Jobs)
  /\ \A l : PlacedTo(l) = PairsOf(dials, JobsOf(l))
  /\ \A l : PlacedTo(l)' = PairsOf(dials', JobsOf(l)')
  BY DEF Placed, PlacedTo, PairsOf

\* Both parts are finite.
LEMMA CallsToFinite ==
  ASSUME IsFiniteSet(Placed), NEW l \in Leads
  PROVE  /\ IsFiniteSet(PlacedTo(l)) /\ Cardinality(PlacedTo(l)) \in Nat
         /\ IsFiniteSet(CheckedFor(l)) /\ Cardinality(CheckedFor(l)) \in Nat
<1>1. PlacedTo(l) \in SUBSET Placed
  <2> SUFFICES ASSUME NEW p \in PlacedTo(l) PROVE p \in Placed
    OBVIOUS
  <2>1. PICK j \in JobsOf(l) : \E i \in DOMAIN dials[j] : p = <<j, i>>
    BY PlacedPairs, PairFacts
  <2>2. j \in Jobs
    BY <2>1 DEF JobsOf
  <2> QED
    BY <2>1, <2>2, PlacedPairs, PairFacts
<1>2. CheckedFor(l) \in SUBSET Workers
  BY DEF CheckedFor
<1> QED
  BY <1>1, <1>2, WorkersFinite, FS_Subset, FS_CardinalityType

\* A worker's step places a call, and hears of it or not.
Dials(w) == Dial(w) \/ (DialFails(w) /\ dials' # dials)

\* A step dials at most one call, and then one that had been checked.
LEMMA OneDial ==
  ASSUME CallInv, [Next]_vars
  PROVE  \/ UNCHANGED dials /\ \A w \in Workers : ~Dial(w)
         \/ \E w \in Workers : Dials(w)
<1> SUFFICES ASSUME \A w \in Workers : ~Dials(w)
             PROVE  UNCHANGED dials /\ \A w \in Workers : ~Dial(w)
  OBVIOUS
<1>1. ASSUME Quiet PROVE UNCHANGED dials
  BY <1>1 DEF Quiet
<1>2. ASSUME NEW w \in Workers, Placing(w) PROVE UNCHANGED dials
  <2>1. StartPasses(w) \/ CommitCall(w) \/ Crash(w) => UNCHANGED dials
    BY DEF StartPasses, CommitCall, Crash
  <2>2. Dial(w) \/ DialFails(w) => UNCHANGED dials
    BY DEF Dials
  <2> QED
    BY <1>2, <2>1, <2>2 DEF Placing
<1>3. \A w \in Workers : ~Dial(w)
  BY DEF Dials
<1> QED
  BY <1>1, <1>2, <1>3, QuietOrPlacing

\* What a dial adds.
LEMMA DialAdds ==
  ASSUME CallInv, NEW w \in Workers, Dials(w), NEW j, j = txn[w].job
  PROVE  /\ j \in Jobs /\ txn[w] # Idle
         /\ \A k \in Jobs \ {j} : dials'[k] = dials[k]
         /\ DOMAIN dials'[j] = DOMAIN dials[j] \cup {Len(dials[j]) + 1}
<1>1. j \in Jobs /\ txn[w] # Idle
  BY IdleFacts DEF CallInv, TxnInv, Dials, Dial, DialFails
<1>2. dials \in [Jobs -> Seq(Nat)] /\ Len(attempt[j]) + 1 \in Nat
  BY <1>1 DEF CallInv, TypeOK
<1>3. /\ \A k \in Jobs \ {j} : dials'[k] = dials[k]
      /\ dials'[j] = Append(dials[j], Len(attempt[j]) + 1)
  BY <1>1, <1>2 DEF Dials, Dial, DialFails
<1>4. /\ DOMAIN dials[j] = 1..Len(dials[j]) /\ Len(dials[j]) \in Nat
      /\ DOMAIN dials'[j] = 1..(Len(dials[j]) + 1)
  BY <1>1, <1>2, <1>3, AppendProperties, LenProperties
<1> QED
  BY <1>1, <1>3, <1>4

\* There are finitely many calls.
LEMMA PlacedStep ==
  ASSUME CallInv, IsFiniteSet(Placed), [Next]_vars
  PROVE  IsFiniteSet(Placed')
<1>1. CASE UNCHANGED dials
  <2>1. Placed' = Placed
    BY <1>1 DEF Placed
  <2> QED
    BY <2>1
<1>2. ASSUME NEW w \in Workers, Dials(w) PROVE IsFiniteSet(Placed')
  <2>1. PICK j : j = txn[w].job
    OBVIOUS
  <2>2. Placed' \in SUBSET (Placed \cup {<<j, Len(dials[j]) + 1>>})
    <3> SUFFICES ASSUME NEW k \in Jobs, NEW i \in DOMAIN dials'[k]
                 PROVE  <<k, i>> \in Placed \cup {<<j, Len(dials[j]) + 1>>}
      BY PlacedPairs, PairFacts
    <3>1. k # j => i \in DOMAIN dials[k]
      BY <1>2, <2>1, DialAdds
    <3>2. k = j => i \in DOMAIN dials[k] \/ i = Len(dials[j]) + 1
      BY <1>2, <2>1, DialAdds
    <3>3. i \in DOMAIN dials[k] => <<k, i>> \in Placed
      BY PlacedPairs, PairFacts
    <3> QED
      BY <3>1, <3>2, <3>3
  <2> QED
    BY <2>2, FS_AddElement, FS_Subset
<1> QED
  BY <1>1, <1>2, OneDial

\* No step but the dial of a checked call adds one, and none is checked for a
\* customer on Do-Not-Call.
LEMMA CallsToStep ==
  ASSUME CallInv, CallInv', LeadInv, IsFiniteSet(Placed), [Next]_vars,
         NEW l \in Leads, dnc[l] # "no"
  PROVE  CallsTo(l)' <= CallsTo(l)
<1>0. /\ txn \in [Workers -> TxnRow] /\ None \notin Leads
  BY JobAssumption DEF CallInv, TypeOK
<1> DEFINE P == PlacedTo(l)
           C == CheckedFor(l)
<1>a. /\ IsFiniteSet(P) /\ Cardinality(P) \in Nat /\ IsFiniteSet(C) /\ Cardinality(C) \in Nat
      /\ CallsTo(l) = Cardinality(P) + Cardinality(C)
      /\ CallsTo(l)' = Cardinality(P') + Cardinality(C')
  BY CallsToFinite DEF CallsTo, PlacedTo, CheckedFor
<1>b. IsFiniteSet(C') /\ Cardinality(C') \in Nat
  <2>1. C' \in SUBSET Workers
    BY DEF CheckedFor
  <2> QED
    BY <2>1, WorkersFinite, FS_Subset, FS_CardinalityType
<1>1. CASE UNCHANGED dials /\ \A w \in Workers : ~Dial(w)
  <2>1. P' \in SUBSET P
    <3> SUFFICES ASSUME NEW j \in JobsOf(l)', NEW i \in DOMAIN dials[j] PROVE <<j, i>> \in P
      BY <1>1, PlacedPairs, PairFacts
    <3>1. j \in JobsOf(l) \/ dials[j] = <<>>
      BY JobsOfStep
    <3>2. dials[j] = <<>> => DOMAIN dials[j] = {}
      OBVIOUS
    <3>3. j \in JobsOf(l)
      BY <3>1, <3>2
    <3> QED
      BY <3>3, PlacedPairs, PairFacts
  <2>2. C' \in SUBSET C
    <3>1. CASE Quiet
      BY <3>1 DEF Quiet, CheckedFor, PastCheck
    <3>2. ASSUME NEW w \in Workers, Placing(w) PROVE C' \in SUBSET C
      <4>1. CASE StartPasses(w)
        <5>1. txn'[w].lead = txn[w].lead /\ dnc[txn[w].lead] = "no"
              /\ \A v \in Workers \ {w} : txn'[v] = txn[v]
          BY <3>2, <4>1, PlacingTxn DEF StartPasses, MayCall
        <5> QED
          BY <5>1 DEF CheckedFor
      <4>2. CASE ~StartPasses(w)
        <5>1. txn'[w] = Idle /\ \A v \in Workers \ {w} : txn'[v] = txn[v]
          BY <1>1, <3>2, <4>2, PlacingTxn DEF Placing
        <5> QED
          BY <5>1, IdleFacts DEF CheckedFor
      <4> QED
        BY <4>1, <4>2
    <3> QED
      BY <3>1, <3>2, QuietOrPlacing
  <2>3. IsFiniteSet(P') /\ Cardinality(P') \in Nat /\ Cardinality(P') <= Cardinality(P)
    BY <1>a, <2>1, FS_Subset, FS_CardinalityType
  <2>4. Cardinality(C') <= Cardinality(C)
    BY <1>a, <2>2, FS_Subset
  <2> HIDE DEF P, C
  <2> QED
    BY <1>a, <1>b, <2>3, <2>4
<1>2. ASSUME NEW w \in Workers, Dials(w) PROVE CallsTo(l)' <= CallsTo(l)
  <2>j. PICK j : j = txn[w].job
    OBVIOUS
  <2>0. /\ txn[w].step = "checked" /\ txn'[w].step # "checked"
        /\ \A v \in Workers \ {w} : txn'[v] = txn[v]
    BY <1>2, PlacingTxn, IdleFacts DEF Placing, Dials
  <2>1. /\ j \in Jobs /\ txn[w] # Idle
        /\ \A k \in Jobs \ {j} : dials'[k] = dials[k]
        /\ DOMAIN dials'[j] = DOMAIN dials[j] \cup {Len(dials[j]) + 1}
    BY <1>2, <2>j, DialAdds
  <2>2. \A k \in JobsOf(l)' : k \in Jobs /\ (k \in JobsOf(l) \/ dials[k] = <<>>)
    BY JobsOfStep
  <2>3. ASSUME NEW k \in JobsOf(l)', NEW i \in DOMAIN dials'[k]
        PROVE  <<k, i>> \in P \/ (k = j /\ i = Len(dials[j]) + 1)
    <3>1. CASE i \in DOMAIN dials[k]
      <4>1. dials[k] # <<>>
        BY <3>1
      <4> QED
        BY <2>2, <3>1, <4>1, PlacedPairs, PairFacts
    <3>2. CASE i \notin DOMAIN dials[k]
      BY <2>1, <2>2, <3>2
    <3> QED
      BY <3>1, <3>2
  <2>4. CASE txn[w].lead = l
    <3>1. w \in C /\ C' \in SUBSET (C \ {w})
      BY <2>0, <2>4 DEF CheckedFor
    <3>2. /\ Cardinality(C \ {w}) = Cardinality(C) - 1 /\ Cardinality(C') <= Cardinality(C \ {w})
      <4>1. IsFiniteSet(C \ {w}) /\ Cardinality(C \ {w}) = Cardinality(C) - 1
        BY <1>a, <3>1, FS_RemoveElement
      <4> QED
        BY <3>1, <4>1, FS_Subset
    <3>3. P' \in SUBSET (P \cup {<<j, Len(dials[j]) + 1>>})
      BY <2>3, PlacedPairs, PairFacts
    <3> DEFINE Q == P \cup {<<j, Len(dials[j]) + 1>>}
    <3>4. IsFiniteSet(Q) /\ Cardinality(Q) \in Nat /\ Cardinality(Q) <= Cardinality(P) + 1
      <4>1. IsFiniteSet(Q) /\ Cardinality(Q) = IF <<j, Len(dials[j]) + 1>> \in P
                                               THEN Cardinality(P) ELSE Cardinality(P) + 1
        BY <1>a, FS_AddElement
      <4> HIDE DEF P, Q
      <4> QED
        BY <1>a, <4>1
    <3>5. IsFiniteSet(P') /\ Cardinality(P') \in Nat /\ Cardinality(P') <= Cardinality(Q)
      BY <3>3, <3>4, FS_Subset, FS_CardinalityType
    <3> HIDE DEF P, C, Q
    <3> QED
      BY <1>a, <1>b, <3>2, <3>4, <3>5
  <2>5. CASE txn[w].lead # l
    <3>1. j \notin JobsOf(l)
      <4>1. job[j].lead # l
        BY <1>0, <2>j, <2>1, <2>5 DEF LeadInv
      <4>2. \A v \in Workers \ {w} : txn[v].job # j
        BY <1>0, <2>j, <2>1, IdleFacts, JobAssumption DEF CallInv, JobExclusive
      <4> QED
        BY <2>5, <4>1, <4>2 DEF JobsOf
    <3>2. P' \in SUBSET P
      <4> SUFFICES ASSUME NEW k \in JobsOf(l)', NEW i \in DOMAIN dials'[k] PROVE <<k, i>> \in P
        BY PlacedPairs, PairFacts
      <4>1. k # j
        <5>1. ~(job'[j].lead = l \/ \E v \in Workers : txn'[v].job = j /\ txn'[v].lead = l)
          <6>1. CASE Dial(w)
            <7>1. UNCHANGED job /\ txn'[w].lead = txn[w].lead
              BY <6>1, PlacingTxn DEF Placing, Dial
            <7> QED
              BY <2>0, <2>5, <3>1, <2>1, <7>1 DEF JobsOf
          <6>2. CASE DialFails(w)
            <7>1. job'[j].lead = txn[w].lead
              BY <2>j, <2>1, <6>2 DEF DialFails, Finish, Row, CallInv, TypeOK
            <7>2. txn'[w].job # j
              BY <2>1, <6>2, PlacingTxn, IdleFacts, JobAssumption DEF Placing
            <7> QED
              BY <2>0, <2>5, <3>1, <2>1, <7>1, <7>2 DEF JobsOf
          <6> QED
            BY <1>2, <6>1, <6>2 DEF Dials
        <5> QED
          BY <5>1 DEF JobsOf
      <4> QED
        BY <2>3, <4>1
    <3>3. C' \in SUBSET C
      BY <2>0 DEF CheckedFor
    <3>4. IsFiniteSet(P') /\ Cardinality(P') \in Nat /\ Cardinality(P') <= Cardinality(P)
      BY <1>a, <3>2, FS_Subset, FS_CardinalityType
    <3>5. Cardinality(C') <= Cardinality(C)
      BY <1>a, <3>3, FS_Subset
    <3> HIDE DEF P, C
    <3> QED
      BY <1>a, <1>b, <3>4, <3>5
  <2> QED
    BY <2>4, <2>5
<1> QED
  BY <1>1, <1>2, OneDial

-----------------------------------------------------------------------------
(* Theorems about the calls *)

\* The empty tables satisfy the account of calls.
LEMMA CallsInit == Init => CallsInv
<1> SUFFICES ASSUME Init PROVE CallsInv
  OBVIOUS
<1>1. CallInv
  BY InitInv
<1>2. \A w \in Workers : txn[w] = Idle /\ txn[w].step = "idle"
  BY IdleFacts DEF Init
<1>3. \A j \in Jobs : /\ dials[j] = <<>> /\ attempt[j] = <<>> /\ job[j].status = "absent"
                      /\ job[j].lead = None
  BY DEF Init
<1>4. DialInv
  <2> SUFFICES ASSUME NEW j \in Jobs PROVE JobDials(j)
    BY DEF DialInv
  <2>1. \A n : Count(j, n) = 0
    <3>1. \A n : CallsOf(<<>>, n) = {}
      BY DEF CallsOf
    <3> QED
      BY <1>3, <3>1, FS_EmptySet DEF Count
  <2>2. faults = 0
    BY DEF Init
  <2> QED
    BY <1>2, <1>3, <2>1, <2>2 DEF JobDials, Dialled
<1>5. LimitInv
  <2>1. Calling = {} /\ Busy = {}
    BY <1>2, <1>3 DEF Calling, Busy
  <2>2. IsFiniteSet(Calling) /\ Cardinality(Calling) = 0 /\ Cardinality(Busy) = 0
    BY <2>1, FS_EmptySet
  <2> QED
    BY <2>2, WorkersFinite, LimitAssumption DEF LimitInv, CallsBounded, Busy
<1>6. LeadInv
  BY <1>2, <1>3 DEF LeadInv, Init
<1>7. IsFiniteSet(Placed)
  <2>1. Placed = {}
    BY <1>3, PlacedPairs, PairFacts
  <2> QED
    BY <2>1, FS_EmptySet
<1> QED
  BY <1>1, <1>4, <1>5, <1>6, <1>7 DEF CallsInv

\* Every step keeps it.
LEMMA CallsNext == CallsInv /\ [Next]_vars => CallsInv'
  BY NextInv, DialStep, LimitStep, LeadStep, PlacedStep DEF CallsInv

\* The account of calls holds of every reachable state.
THEOREM CallsInvariant == Spec => []CallsInv
  BY CallsInit, CallsNext, PTL DEF Spec

\* The n-th attempt of a job is dialled once, and once more for each crash at
\* most; an attempt in progress was dialled.
THEOREM AttemptsDialled == Spec => []AttemptsMatchDials
<1>1. CallsInv => AttemptsMatchDials
  <2> SUFFICES ASSUME CallsInv, NEW j \in Jobs, NEW n \in 1..MaxAttempts
               PROVE  /\ Count(j, n) <= 1 + faults
                      /\ n \in DOMAIN attempt[j] /\ attempt[j][n] = "in_progress"
                           => Count(j, n) > 0
    BY DEF AttemptsMatchDials, Count, CallsOf
  <2>1. n \in Nat /\ JobDials(j)
    BY DEF CallsInv, DialInv
  <2> QED
    BY <2>1 DEF JobDials
<1> QED
  BY <1>1, CallsInvariant, PTL

\* The concurrency limit is passed at most by the workers that counted at the
\* same time.
THEOREM CallsLimited == Spec => []CallsBounded
<1>1. CallsInv => CallsBounded
  BY DEF CallsInv, LimitInv
<1> QED
  BY <1>1, CallsInvariant, PTL

\* A customer on Do-Not-Call gets no call that was not already past the check.
THEOREM DoNotCallKept == Spec => DoNotCallHonoured
<1>1. CallsInv /\ CallsInv' /\ [Next]_vars =>
        [\A l \in Leads : dnc[l] # "no" => CallsTo(l)' <= CallsTo(l)]_vars
  BY CallsToStep DEF CallsInv
<1> QED
  BY <1>1, CallsInvariant, PTL DEF Spec, DoNotCallHonoured

-----------------------------------------------------------------------------
(* The scheduler's lock *)

\* Only its holder's release and the TTL take the lock away.
LEMMA LockStep ==
  ASSUME CallInv, [Next]_vars, NEW d \in Schedulers, lock = d, lock' # d
  PROVE  d \notin ticking' \/ ticking' = ticking
<1>1. lock # None
  BY WorkerAssumption
<1>2. ASSUME NEW e \in Schedulers, EndTick(e) PROVE d \notin ticking'
  BY <1>2 DEF EndTick, Release
<1>3. CASE Expire
  BY <1>3 DEF Expire
<1>4. ASSUME NEW e \in Schedulers PROVE ~Tick(e)
  BY <1>1 DEF Tick
<1>5. ASSUME UNCHANGED lock PROVE FALSE
  BY <1>5
<1>6. ASSUME NEW w \in Workers, Proceed(w) \/ PrepareBreaks(w) \/ Crash(w) PROVE FALSE
  BY <1>5, <1>6 DEF Proceed, StartBlocked, StartOutsideHours, StartOverLimit, StartPasses, Dial,
                    DialFails, CommitCall, PrepareFails, PrepareBreaks, Crash
<1>7. ASSUME \/ \E j \in Jobs, l \in Leads, due \in BOOLEAN : CreateJob(j, l, due)
             \/ \E j \in Jobs : ComeDue(j) \/ Reconcile(j)
             \/ \E j \in Jobs, n \in 1..MaxAttempts, through \in BOOLEAN : Complete(j, n, through)
             \/ \E l \in OptOuts, where \in {"no", "customer", "preference"} : SetDoNotCall(l, where)
             \/ \E l \in Deletable : MarkDeleted(l)
             \/ \E l \in Leads : CancelFollowUp(l)
             \/ \E e \in Schedulers : Dispatch(e)
             \/ \E c \in Clients, j \in Jobs : HttpPrepare(c, j) \/ HttpStart(c, j)
             \/ \E c \in Clients, j \in Jobs, l \in Leads : InstantCall(c, j, l)
             \/ UNCHANGED vars
      PROVE FALSE
  BY <1>5, <1>7 DEF CreateJob, ComeDue, Reconcile, Complete, SetDoNotCall, MarkDeleted, CancelFollowUp,
                    Dispatch, HttpPrepare, HttpStart, InstantCall, vars
<1> QED
  BY <1>2, <1>3, <1>4, <1>6, <1>7 DEF Next

\* A scheduler whose tick outlived its lock never releases another's.
THEOREM LockKept == Spec => LockLostByTtlOnly
<1>1. CallInv /\ [Next]_vars =>
        [\A d \in Schedulers :
           lock = d /\ lock' # d => d \notin ticking' \/ ticking' = ticking]_vars
  BY LockStep
<1> QED
  BY <1>1, CallInvariant, PTL DEF Spec, LockLostByTtlOnly

-----------------------------------------------------------------------------
(* No job is lost *)

\* Nothing ever writes 'scheduled', a waiting status the scheduler's query does not ask for.
NeverParked == \A j \in Jobs : job[j].status # "scheduled"

\* A job that has not ended is in a transaction, or the reconciliation finds it, or its
\* time has not come, or its customer is on Do-Not-Call, or the queue's query returns it.
NotLost(j) ==
  \/ job[j].status \in Terminal \cup {"absent"}
  \/ Locked(j)
  \/ job[j].status \in ActiveStatuses
  \/ ~job[j].due
  \/ dnc[job[j].lead] = "customer"
  \/ j \in Eligible
NoJobLost == \A j \in Jobs : NotLost(j)

\* A step that gives one job another status, or none, parks nothing.
LEMMA RowParks ==
  ASSUME TypeOK, NeverParked, NEW j, NEW row, row.status # "scheduled",
         job' = [job EXCEPT ![j] = row]
  PROVE  NeverParked'
BY DEF TypeOK, NeverParked

\* The end of a dispatch parks nothing.
LEMMA FinishParks ==
  ASSUME TypeOK, NeverParked, NEW w, NEW status, status # "scheduled", Finish(w, status)
  PROVE  NeverParked'
<1> DEFINE row == Row(status, job[txn[w].job].due, txn[w].lead)
<1>1. row.status # "scheduled"
  BY DEF Row
<1>2. \A k \in Jobs : job'[k] = row \/ job'[k] = job[k]
  BY DEF TypeOK, Finish
<1> QED
  BY <1>1, <1>2 DEF NeverParked

\* No step parks a job.
LEMMA ParksNext == CallInv /\ NeverParked /\ [Next]_vars => NeverParked'
<1> SUFFICES ASSUME CallInv, NeverParked, [Next]_vars PROVE NeverParked'
  OBVIOUS
<1>1. TypeOK
  BY DEF CallInv
<1>2. ASSUME UNCHANGED job PROVE NeverParked'
  BY <1>2 DEF NeverParked
<1>3. \A n : AfterFailure(n) # "scheduled"
  BY DEF AfterFailure
<1>4. ASSUME NEW j \in Jobs, NEW status, status # "scheduled",
             job' = [job EXCEPT ![j].status = status]
      PROVE NeverParked'
  <2>1. \A k \in Jobs : job'[k].status = status \/ job'[k] = job[k]
    BY <1>1, <1>4 DEF TypeOK, JobRow
  <2> QED
    BY <1>4, <2>1 DEF NeverParked
<1>5. ASSUME NEW j \in Jobs, NEW l \in Leads, NEW due \in BOOLEAN, CreateJob(j, l, due)
      PROVE NeverParked'
  <2> DEFINE row == Row(IF dnc[l] = "no" THEN "queued" ELSE "cancelled", due, l)
  <2>1. row.status # "scheduled"
    BY DEF Row
  <2> HIDE DEF row
  <2>2. job' = [job EXCEPT ![j] = row]
    BY <1>5 DEF CreateJob, row
  <2> QED
    BY <1>1, <2>1, <2>2, RowParks
<1>6. ASSUME NEW j \in Jobs, ComeDue(j) PROVE NeverParked'
  <2>1. \A k \in Jobs : job'[k].status = job[k].status
    BY <1>1, <1>6 DEF ComeDue, TypeOK, JobRow
  <2> QED
    BY <2>1 DEF NeverParked
<1>7. ASSUME NEW j \in Jobs, Reconcile(j) PROVE NeverParked'
  BY <1>3, <1>4, <1>7 DEF Reconcile
<1>8. ASSUME NEW j \in Jobs, NEW n, NEW through, Complete(j, n, through) PROVE NeverParked'
  <2>1. (IF through THEN "completed" ELSE AfterFailure(Len(attempt[j]))) # "scheduled"
    BY <1>3
  <2> QED
    BY <1>4, <1>8, <2>1 DEF Complete
<1>9. ASSUME NEW l \in Leads, CancelFollowUp(l) PROVE NeverParked'
  <2>1. \A k \in Jobs : job'[k].status = "cancelled" \/ job'[k] = job[k]
    BY <1>1, <1>9 DEF CancelFollowUp, TypeOK, JobRow
  <2> QED
    BY <2>1 DEF NeverParked
<1>10. ASSUME NEW c \in Clients, NEW j \in Jobs, HttpPrepare(c, j) PROVE NeverParked'
  BY <1>4, <1>10 DEF HttpPrepare
<1>11. ASSUME NEW c \in Clients, NEW j \in Jobs, NEW l \in Leads, InstantCall(c, j, l)
       PROVE NeverParked'
  <2>1. CASE UNCHANGED job
    BY <1>2, <2>1
  <2>2. CASE job' = [job EXCEPT ![j] = Row("cancelled", TRUE, l)]
    <3>1. Row("cancelled", TRUE, l).status # "scheduled"
      BY DEF Row
    <3> QED
      BY <1>1, <2>2, <3>1, RowParks
  <2> QED
    BY <1>11, <2>1, <2>2 DEF InstantCall
<1>12. ASSUME NEW w \in Workers, Proceed(w) \/ PrepareBreaks(w) \/ Crash(w) PROVE NeverParked'
  <2>1. CASE UNCHANGED job
    BY <1>2, <2>1
  <2>2. CASE \E status : status # "scheduled" /\ Finish(w, status)
    BY <1>1, <2>2, FinishParks
  <2> QED
    BY <1>3, <1>12, <2>1, <2>2
       DEF Proceed, PrepareFails, PrepareBreaks, Crash, Rollback, Fail, StartBlocked, StartOutsideHours,
           StartOverLimit, StartPasses, Dial, DialFails, CommitCall
<1>13. CASE UNCHANGED vars
  BY <1>2, <1>13 DEF vars
<1>14. CASE \/ \E l \in OptOuts, where \in {"no", "customer", "preference"} : SetDoNotCall(l, where)
            \/ \E l \in Deletable : MarkDeleted(l)
            \/ \E d \in Schedulers : Tick(d) \/ Dispatch(d) \/ EndTick(d)
            \/ Expire
            \/ \E c \in Clients, j \in Jobs : HttpStart(c, j)
  BY <1>2, <1>14 DEF SetDoNotCall, MarkDeleted, Tick, Dispatch, EndTick, Expire, HttpStart
<1> QED
  BY <1>5, <1>6, <1>7, <1>8, <1>9, <1>10, <1>11, <1>12, <1>13, <1>14 DEF Next

\* Whatever fails, crashes and races, every job that has not ended has someone who will
\* take it up: none is left in a state that neither the scheduler's query
\* (get_next_eligible_jobs: due, an attempt left, not on Do-Not-Call) nor the
\* reconciliation of stranded jobs asks for.  (To be taken up is not to end: a job of a
\* deleted lead is taken up at every tick; JobsEnd says which jobs end.)
THEOREM NoJobIsLost == Spec => []NoJobLost
<1>1. Init => NeverParked
  BY DEF Init, NeverParked
<1>2. AttemptBudget /\ TypeOK /\ NeverParked => NoJobLost
  BY DEF AttemptBudget, TypeOK, NeverParked, NoJobLost, NotLost, Eligible, JobRow, Statuses,
         Waiting, ActiveStatuses
<1>3. CallInv => AttemptBudget /\ TypeOK
  BY DEF CallInv
<1> QED
  BY <1>1, <1>2, <1>3, ParksNext, CallInvariant, PTL DEF Spec

=============================================================================
