-------------------------------- MODULE LeadFile --------------------------------
(***************************************************************************)
(* One lead's file: who it is assigned to, what the customer asked for and *)
(* is interested in, when to come back to them, and the staff's tasks.     *)
(* Staff edit it over HTTP while the AI agent's write tools do.            *)
(*                                                                         *)
(* A request is a READ COMMITTED transaction: a step is a statement, which *)
(* sees what is committed, waits for rows another request has written, and *)
(* writes into the request's own record; Commit makes the writes visible.  *)
(***************************************************************************)
EXTENDS Naturals, Sequences, FiniteSets

CONSTANTS
  Requests,   \* transactions in progress at the same time
  Agents,     \* active sales agents of the tenant
  Needs,      \* values of one requirement field of the lead
  Places,     \* properties of one project; NoPlace asks about the project alone
  NoPlace,
  Slots,      \* minutes a follow-up may be scheduled at
  Jobs,       \* the lead's call jobs
  Staff,      \* users who complete tasks
  None,
  MaxRows     \* bound: rows of each table

\* dup_check: follow-ups fewer than 900 seconds apart are the same.
Window == 15
Near(a, b) == a < b + Window /\ b < a + Window

ASSUME LeadFileAssumption ==
  /\ Slots \subseteq Nat /\ MaxRows \in Nat
  /\ None \notin Agents \cup Needs \cup Slots \cup Staff
  /\ Agents \cap Needs = {}
  /\ NoPlace \in Places

VARIABLES
  lead,      \* the leads row
  history,   \* lead_requirement_history
  assigned,  \* sales_assignments, in the order of their commits
  interest,  \* lead_property_interests
  followup,  \* lead_follow_ups
  job,       \* call_jobs of the lead
  dnc,       \* customers.do_not_call
  task,      \* a follow_ups row of the staff
  req        \* requests

vars == <<lead, history, assigned, interest, followup, job, dnc, task, req>>

-----------------------------------------------------------------------------
(* Rows *)

\* byDesk: the assignee was last written by assign_lead (history).
LeadRow == [assignee : Agents \cup {None}, byDesk : BOOLEAN, need : Needs \cup {None},
            next : Slots \cup {None}, status : {"open", "converted"}]
Ids == 1..MaxRows
\* saw: the rows the writer's clearing statement could see (history).
Assignment == [agent : Agents, primary : BOOLEAN, saw : SUBSET Ids]
\* follows: the rows whose last write came before the last write of this one (history).
Interest == [place : Places, primary : BOOLEAN, saw : SUBSET Ids, follows : SUBSET Ids,
             gone : BOOLEAN]
\* saw: the open rows its dup check could see; moved: its time was changed (history).
FollowUp == [at : Slots, open : BOOLEAN, saw : SUBSET Ids, moved : BOOLEAN]
JobStates == {"none", "waiting", "calling", "cancelled"}

Ops == {"assign", "edit", "require", "interest", "drop", "followup", "reschedule", "cancel"}
Steps == {"scan", "clear", "insert", "pick", "move", "lead", "jobs", "commit"}
Args == Agents \cup Needs \cup Places \cup Slots \cup {None}
ReqRow == [op : Ops, at : Steps, arg : Args, primary : BOOLEAN, row : Ids \cup {None},
           saw : SUBSET Ids, locks : SUBSET Ids, adds : BOOLEAN, lead : BOOLEAN,
           was : Needs \cup {None}, jobs : SUBSET Jobs]
Idle == [op |-> "edit", at |-> "scan", arg |-> None, primary |-> FALSE, row |-> None,
         saw |-> {}, locks |-> {}, adds |-> FALSE, lead |-> FALSE, was |-> None, jobs |-> {}]

Task == [status : {"none", "pending", "completed", "cancelled"}, who : Staff \cup {None}]

\* Every variable keeps to its tables.
TypeOK ==
  /\ lead \in LeadRow
  /\ history \subseteq (Needs \cup {None}) \X Needs
  /\ assigned \in Seq(Assignment) /\ Len(assigned) <= MaxRows
  /\ interest \in Seq(Interest) /\ Len(interest) <= MaxRows
  /\ followup \in Seq(FollowUp) /\ Len(followup) <= MaxRows
  /\ job \in [Jobs -> JobStates]
  /\ dnc \in BOOLEAN
  /\ task \in Task
  /\ req \in [Requests -> ReqRow]

Init ==
  /\ lead = [assignee |-> None, byDesk |-> FALSE, need |-> None, next |-> None, status |-> "open"]
  /\ history = {}
  /\ assigned = <<>> /\ interest = <<>> /\ followup = <<>>
  /\ job = [j \in Jobs |-> "none"]
  /\ dnc = FALSE
  /\ task = [status |-> "none", who |-> None]
  /\ req = [r \in Requests |-> Idle]

-----------------------------------------------------------------------------
(* A request's statements *)

Free(r) == req[r] = Idle
At(r, op, step) == ~Free(r) /\ req[r].op = op /\ req[r].at = step
TablesKept == UNCHANGED <<lead, history, assigned, interest, followup, job, dnc, task>>
Begin(r, op, step, arg, primary, row) ==
  /\ Free(r)
  /\ req' = [req EXCEPT ![r] = [Idle EXCEPT !.op = op, !.at = step, !.arg = arg,
                                            !.primary = primary, !.row = row]]
  /\ TablesKept

Table(op) == CASE op = "assign" -> "assigned"
               [] op \in {"interest", "drop"} -> "interest"
               [] OTHER -> "followup"
\* Rows of r's table that another request has written and not yet committed.
Held(r) == UNION {req[q].locks : q \in {q \in Requests \ {r} : Table(req[q].op) = Table(req[r].op)}}
LeadFree(r) == \A q \in Requests \ {r} : ~req[q].lead

\* The bound on rows, those about to be committed included.
Room(op, rows) ==
  Len(rows) + Cardinality({q \in Requests : req[q].op = op /\ req[q].adds}) < MaxRows

Primaries == {i \in DOMAIN assigned : assigned[i].primary}
Kept == {i \in DOMAIN interest : ~interest[i].gone}
Open == {i \in DOMAIN followup : followup[i].open}

\* UPDATE leads, in an assignment, an edit, a requirement or a new follow-up.
TouchLead(r) ==
  /\ ~Free(r) /\ req[r].at = "lead" /\ LeadFree(r)
  /\ req' = [req EXCEPT ![r].at = "commit", ![r].lead = TRUE]
  /\ TablesKept

-----------------------------------------------------------------------------
(* Assignments and interests: the old primaries are cleared, then a row is  *)
(* inserted                                                                *)

BeginAssign(r, a) == Begin(r, "assign", "scan", a, TRUE, None)
\* Only a primary interest clears the others.
BeginInterest(r, p, primary) ==
  Begin(r, "interest", IF primary THEN "scan" ELSE "insert", p, primary, None)
BeginDrop(r, i) == i \in Kept /\ Begin(r, "drop", "move", None, FALSE, i)

\* The clearing UPDATE starts: the rows it can see.
Scan(r) ==
  /\ At(r, "assign", "scan") \/ At(r, "interest", "scan")
  /\ req' = [req EXCEPT ![r].at = "clear",
                        ![r].saw = IF req[r].op = "assign" THEN Primaries ELSE Kept]
  /\ TablesKept

\* A table's unique key: no place is never the same place.
SamePlace(p) == {i \in Kept : p # NoPlace /\ interest[i].place = p}

\* (a mutant: an interest clears those in its own place)
ThereInPlace(r) ==
  req[r].saw \cap (IF req[r].op = "assign" THEN Primaries ELSE SamePlace(req[r].arg))

\* It waits for those that others wrote; a row that no longer qualifies is skipped.
StillThere(r) == req[r].saw \cap (IF req[r].op = "assign" THEN Primaries ELSE Kept)
Clear(r) ==
  /\ ~Free(r) /\ req[r].at = "clear" /\ req[r].saw \cap Held(r) = {}
  /\ req' = [req EXCEPT ![r].at = "insert", ![r].locks = StillThere(r)]
  /\ TablesKept

AddAssignment(r) ==
  /\ At(r, "assign", "insert") /\ Room("assign", assigned)
  /\ req' = [req EXCEPT ![r].at = "lead", ![r].adds = TRUE]
  /\ TablesKept

\* INSERT ... ON CONFLICT, which waits for an insert of the same place.
InsertsElsewhere(r) == {q \in Requests \ {r} : req[q].op = "interest" /\ req[q].adds
                                               /\ req[q].arg = req[r].arg /\ req[q].arg # NoPlace}
Upsert(r) ==
  /\ At(r, "interest", "insert") /\ InsertsElsewhere(r) = {}
  /\ LET old == SamePlace(req[r].arg)
     IN /\ old \cap Held(r) = {}
        /\ old = {} => Room("interest", interest)
        /\ req' = [req EXCEPT ![r].at = "commit", ![r].locks = @ \cup old, ![r].adds = old = {}]
  /\ TablesKept

-----------------------------------------------------------------------------
(* Edits and requirements *)

\* PATCH /leads, of one field: the agent, the requirement, or (None) the status. The
\* time a lead is converted at is computed and lost: LeadUpdate has no such field.
BeginEdit(r, v) == Begin(r, "edit", "lead", v, FALSE, None)

\* The tool reads the old value without a lock, and writes only a difference.
BeginRequire(r, v) == Begin(r, "require", "scan", v, FALSE, None)
Compare(r) ==
  /\ At(r, "require", "scan")
  /\ req' = [req EXCEPT ![r] = IF lead.need = req[r].arg THEN Idle
                               ELSE [@ EXCEPT !.at = "lead", !.was = lead.need]]
  /\ TablesKept

-----------------------------------------------------------------------------
(* The AI's follow-ups *)

BeginFollowUp(r, t) == ~dnc /\ Begin(r, "followup", "pick", t, FALSE, None)
BeginReschedule(r, i, t) ==
  i \in DOMAIN followup /\ Begin(r, "reschedule", "move", t, FALSE, i)
BeginCancel(r, i) == i \in DOMAIN followup /\ Begin(r, "cancel", "move", None, FALSE, i)

\* (a mutant: only a follow-up at the very time is the same)
SameTime(t) == {i \in Open : followup[i].at = t}

\* An open follow-up at nearly that time, whichever the database finds.
Same(t) == {i \in Open : Near(followup[i].at, t)}
Pick(r) ==
  /\ At(r, "followup", "pick")
  /\ LET same == Same(req[r].arg)
     IN \/ \E i \in same : req' = [req EXCEPT ![r].at = "move", ![r].row = i]
        \/ same = {} /\ req' = [req EXCEPT ![r].at = "insert", ![r].saw = Open]
  /\ TablesKept

AddFollowUp(r) ==
  /\ At(r, "followup", "insert") /\ Room("followup", followup)
  /\ req' = [req EXCEPT ![r].at = "lead", ![r].adds = TRUE]
  /\ TablesKept

\* UPDATE or DELETE one row, whatever has become of it.
Move(r) ==
  /\ ~Free(r) /\ req[r].at = "move" /\ req[r].row \notin Held(r)
  /\ req[r].op = "drop" => req[r].row \in Kept
  /\ req' = [req EXCEPT ![r].at = IF req[r].op = "cancel" THEN "jobs" ELSE "commit",
                        ![r].locks = {req[r].row}]
  /\ TablesKept

\* cancel_follow_up cancels every call job of the lead that waits.
StopJobs(r) ==
  /\ At(r, "cancel", "jobs")
  /\ req' = [req EXCEPT ![r].at = "commit", ![r].jobs = {j \in Jobs : job[j] = "waiting"}]
  /\ TablesKept

-----------------------------------------------------------------------------
(* The end of a request *)

LeadAfter(r) ==
  CASE req[r].op = "assign" -> [lead EXCEPT !.assignee = req[r].arg, !.byDesk = TRUE]
    [] req[r].op = "require" -> [lead EXCEPT !.need = req[r].arg]
    [] req[r].op = "followup" -> [lead EXCEPT !.next = req[r].arg]
    [] req[r].op = "edit" /\ req[r].arg \in Agents ->
         [lead EXCEPT !.assignee = req[r].arg, !.byDesk = FALSE]
    [] req[r].op = "edit" /\ req[r].arg \in Needs -> [lead EXCEPT !.need = req[r].arg]
    [] OTHER -> [lead EXCEPT !.status = "converted"]

\* (a mutant: only the other agents' assignments are retired)
RetiredOthers(r) ==
  [i \in DOMAIN assigned |->
     IF assigned[i].agent = req[r].arg THEN assigned[i]
     ELSE [assigned[i] EXCEPT !.primary = @ /\ i \notin req[r].locks]]

Retired(r) == [i \in DOMAIN assigned |->
                 [assigned[i] EXCEPT !.primary = @ /\ i \notin req[r].locks]]
\* (a mutant: the new row is inserted first and cleared with the others)
InsertedFirst(r) ==
  Append(Retired(r), [agent |-> req[r].arg, primary |-> FALSE, saw |-> req[r].saw])

AssignedAfter(r) ==
  Append(Retired(r), [agent |-> req[r].arg, primary |-> TRUE, saw |-> req[r].saw])

InterestAfter(r) ==
  LET mine == SamePlace(req[r].arg)
      row(earlier) == [place |-> req[r].arg, primary |-> req[r].primary, saw |-> req[r].saw,
                       follows |-> earlier, gone |-> FALSE]
      rows == [i \in DOMAIN interest |->
                 IF i \in mine THEN row(DOMAIN interest \ {i})
                 ELSE [interest[i] EXCEPT !.primary = @ /\ i \notin req[r].locks,
                                          !.follows = @ \ mine]]
  IN IF req[r].adds THEN Append(rows, row(DOMAIN interest)) ELSE rows

FollowUpAfter(r) ==
  CASE req[r].adds -> Append(followup, [at |-> req[r].arg, open |-> TRUE, saw |-> req[r].saw,
                                        moved |-> FALSE])
    [] req[r].op = "cancel" -> [followup EXCEPT ![req[r].row].open = FALSE]
    [] req[r].op = "reschedule" -> [followup EXCEPT ![req[r].row].at = req[r].arg,
                                                    ![req[r].row].open = TRUE,
                                                    ![req[r].row].moved = TRUE]
    [] OTHER -> [followup EXCEPT ![req[r].row].at = req[r].arg, ![req[r].row].moved = TRUE]

Commit(r) ==
  /\ ~Free(r) /\ req[r].at = "commit"
  /\ lead' = IF req[r].lead THEN LeadAfter(r) ELSE lead
  /\ history' = IF req[r].op = "require" THEN history \cup {<<req[r].was, req[r].arg>>} ELSE history
  /\ assigned' = IF req[r].op = "assign" THEN AssignedAfter(r) ELSE assigned
  /\ interest' = CASE req[r].op = "interest" -> InterestAfter(r)
                   [] req[r].op = "drop" -> [interest EXCEPT ![req[r].row].gone = TRUE,
                                                             ![req[r].row].primary = FALSE]
                   [] OTHER -> interest
  /\ followup' = IF req[r].op \in {"followup", "reschedule", "cancel"} THEN FollowUpAfter(r)
                 ELSE followup
  /\ job' = [j \in Jobs |-> IF j \in req[r].jobs THEN "cancelled" ELSE job[j]]
  /\ req' = [req EXCEPT ![r] = Idle]
  /\ UNCHANGED <<dnc, task>>

\* An exception, a lost connection, a row that is gone: nothing was written.
Fail(r) ==
  /\ ~Free(r)
  /\ req' = [req EXCEPT ![r] = Idle]
  /\ TablesKept

-----------------------------------------------------------------------------
(* Around the requests: each is one short transaction *)

LeadKept == UNCHANGED <<lead, history, assigned, interest, followup, req>>

\* create_call_job; start_call, which skips a job somebody holds; its outcome.
QueueJob(j) ==
  /\ job[j] = "none" /\ job' = [job EXCEPT ![j] = "waiting"]
  /\ LeadKept /\ UNCHANGED <<dnc, task>>
StartJob(j) ==
  /\ job[j] = "waiting" /\ \A r \in Requests : j \notin req[r].jobs
  /\ ~dnc
  /\ job' = [job EXCEPT ![j] = "calling"]
  /\ LeadKept /\ UNCHANGED <<dnc, task>>
RetryJob(j) ==
  /\ job[j] = "calling" /\ job' = [job EXCEPT ![j] = "waiting"]
  /\ LeadKept /\ UNCHANGED <<dnc, task>>

\* PATCH /customers and the agent's update_customer_details.
SetDoNotCall(b) == dnc' = b /\ LeadKept /\ UNCHANGED <<job, task>>

\* The staff's tasks: any status may be set, and any task completed again.
CreateTask ==
  /\ task.status = "none" /\ task' = [task EXCEPT !.status = "pending"]
  /\ LeadKept /\ UNCHANGED <<job, dnc>>
EditTask(s) ==
  /\ task.status # "none" /\ task' = [task EXCEPT !.status = s]
  /\ LeadKept /\ UNCHANGED <<job, dnc>>
CompleteTask(u) ==
  /\ task.status # "none" /\ task' = [status |-> "completed", who |-> u]
  /\ LeadKept /\ UNCHANGED <<job, dnc>>

Next ==
  \/ \E r \in Requests :
       \/ \E a \in Agents : BeginAssign(r, a)
       \/ \E p \in Places, b \in BOOLEAN : BeginInterest(r, p, b)
       \/ \E i \in Ids : BeginDrop(r, i) \/ BeginCancel(r, i)
       \/ \E v \in Agents \cup Needs \cup {None} : BeginEdit(r, v)
       \/ \E v \in Needs : BeginRequire(r, v)
       \/ \E t \in Slots : BeginFollowUp(r, t)
       \/ \E i \in Ids, t \in Slots : BeginReschedule(r, i, t)
       \/ Scan(r) \/ Clear(r) \/ AddAssignment(r) \/ Upsert(r) \/ Compare(r) \/ Pick(r)
       \/ AddFollowUp(r) \/ Move(r) \/ StopJobs(r) \/ TouchLead(r)
       \/ Commit(r) \/ Fail(r)
  \/ \E j \in Jobs : QueueJob(j) \/ StartJob(j) \/ RetryJob(j)
  \/ \E b \in BOOLEAN : SetDoNotCall(b)
  \/ CreateTask
  \/ \E s \in {"pending", "completed", "cancelled"} : EditTask(s)
  \/ \E u \in Staff : CompleteTask(u)

Spec == Init /\ [][Next]_vars

-----------------------------------------------------------------------------
(* Properties *)

\* Two primary assignments of the lead come from requests that raced: the later
\* could not see the earlier one. (assign_lead clears before it inserts, and no
\* index backs it.)
PrimariesRaced ==
  \A p, q \in Primaries : p # q => p \notin assigned[q].saw /\ q \notin assigned[p].saw

\* Of two primary interests one was written last, and the request that wrote it
\* could not see the other when it cleared: the two raced. A row written over
\* counts as written anew. (add_property_interest clears before its upsert.)
WroteBlind(p, q) == q \in interest[p].follows /\ q \notin interest[p].saw
PrimaryInterestsRaced ==
  \A p, q \in {i \in Kept : interest[i].primary} :
    p # q => WroteBlind(p, q) \/ WroteBlind(q, p)

\* The agent that an assignment put on the lead still has a primary assignment,
\* however assignments race and fail. (The list and the lead's row are written
\* by different statements of assign_lead.)
AssigneeIsCurrent ==
  lead.byDesk => \E p \in Primaries : assigned[p].agent = lead.assignee

\* Two open follow-ups closer than the window, neither of them moved since,
\* were created by requests that raced. (create_lead_follow_up looks for one
\* at nearly the same time and then inserts.)
OpenFollowUpsRaced ==
  \A i, j \in Open :
    i # j /\ Near(followup[i].at, followup[j].at) /\ ~followup[i].moved /\ ~followup[j].moved
      => i \notin followup[j].saw /\ j \notin followup[i].saw

\* "Current assignment is the record where is_primary=true" (007_sales.sql).
OneCurrentAssignment == Cardinality(Primaries) <= 1

=================================================================================
