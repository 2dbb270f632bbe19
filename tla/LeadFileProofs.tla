----------------------------- MODULE LeadFileProofs -----------------------------
(***************************************************************************)
(* Proofs about LeadFile, for any requests, agents, places and slots: two  *)
(* primary rows and two open follow-ups at nearly the same time come only  *)
(* from requests that raced, and the agent an assignment put on the lead   *)
(* is one of its primary ones.                                             *)
(*                                                                         *)
(* None of this is inductive by itself: a request that has scanned, or has *)
(* found no follow-up, has yet to insert.  Known says what such a request  *)
(* may still rely on, while the others commit.                             *)
(***************************************************************************)
EXTENDS LeadFile, SequenceTheorems, TLAPS

\* The tables and the requests, without the bound on rows: what the steps read
\* of them.
Rows == SUBSET Nat
AssignmentRow == [agent : Args, primary : BOOLEAN, saw : Rows]
InterestRow == [place : Args, primary : BOOLEAN, saw : Rows, follows : Rows, gone : BOOLEAN]
FollowUpRow == [at : Args, open : BOOLEAN, saw : Rows, moved : BOOLEAN]
RequestRow == [op : Ops, at : Steps, arg : Args, primary : BOOLEAN, row : Nat \cup {None},
               saw : Rows, locks : Rows, adds : BOOLEAN, lead : BOOLEAN,
               was : Args, jobs : SUBSET Jobs]
LeadRows == [assignee : Args, byDesk : BOOLEAN, need : Args, next : Args,
             status : {"open", "converted"}]
Typed ==
  /\ lead \in LeadRows
  /\ assigned \in Seq(AssignmentRow)
  /\ interest \in Seq(InterestRow)
  /\ followup \in Seq(FollowUpRow)
  /\ req \in [Requests -> RequestRow]

\* What a request saw was there, and what it saw and did not clear is no longer
\* as it was: the rows it may still clear are those it has locked.
Known(q) ==
  /\ q.at = "clear" => q.op \in {"assign", "interest"}
  /\ q.at = "move" => q.op \in {"drop", "followup", "reschedule", "cancel"} /\ q.row \in Nat
  /\ q.adds => q.op \in {"assign", "interest", "followup"}
  /\ q.op = "assign" => /\ q.saw \subseteq DOMAIN assigned
                        /\ q.at \notin {"scan", "clear"} => q.saw \cap Primaries \subseteq q.locks
                        /\ q.at = "commit" => q.lead
  /\ q.op = "interest" => /\ q.saw \subseteq DOMAIN interest
                          /\ q.at \notin {"scan", "clear"} => q.saw \cap Kept \subseteq q.locks
                          /\ q.adds => SamePlace(q.arg) = {}
  /\ q.op = "followup" => /\ q.saw \subseteq DOMAIN followup
                          /\ q.at = "insert" \/ q.adds =>
                               \A i \in q.saw \cap Open :
                                 followup[i].moved \/ ~Near(followup[i].at, q.arg)

\* The unique index on the property of an interest: one row, or one about to be.
InsertersApart ==
  \A r \in Requests : \A q \in Requests \ {r} :
    /\ req[r].op = "interest" /\ req[r].adds
    /\ req[q].op = "interest" /\ req[q].adds /\ req[q].arg = req[r].arg
    => req[r].arg = NoPlace
PlaceUnique ==
  \A p, q \in Kept : p # q /\ interest[p].place = interest[q].place => interest[p].place = NoPlace

\* A row's writer saw only rows written before.
RowsSaw ==
  /\ \A i \in DOMAIN assigned : assigned[i].saw \subseteq DOMAIN assigned
  /\ \A i \in DOMAIN followup : followup[i].saw \subseteq DOMAIN followup

FileInv ==
  /\ Typed
  /\ \A r \in Requests : Known(req[r])
  /\ InsertersApart /\ PlaceUnique /\ RowsSaw
  /\ PrimariesRaced /\ PrimaryInterestsRaced /\ AssigneeIsCurrent /\ OpenFollowUpsRaced

-----------------------------------------------------------------------------
(* Rows *)

\* A sequence mapped entry by entry keeps its length.
LEMMA Mapped ==
  ASSUME NEW S, NEW T, NEW s \in Seq(S), NEW t \in [DOMAIN s -> T]
  PROVE  t \in Seq(T) /\ Len(t) = Len(s) /\ DOMAIN t = DOMAIN s
  OBVIOUS

\* An assignment cleared of its primary mark, or not, is otherwise as it was.
LEMMA ClearedAssignment ==
  ASSUME NEW a \in AssignmentRow, NEW b \in BOOLEAN
  PROVE  /\ [a EXCEPT !.primary = @ /\ b] \in AssignmentRow
         /\ [a EXCEPT !.primary = @ /\ b].agent = a.agent
         /\ [a EXCEPT !.primary = @ /\ b].saw = a.saw
         /\ [a EXCEPT !.primary = @ /\ b].primary <=> a.primary /\ b
  BY DEF AssignmentRow

\* The same of an interest, which also no longer follows the rows m.
Unmarked(a, b, m) == [a EXCEPT !.primary = @ /\ b, !.follows = @ \ m]
LEMMA ClearedInterest ==
  ASSUME NEW a \in InterestRow, NEW b \in BOOLEAN, NEW m
  PROVE  /\ Unmarked(a, b, m) \in InterestRow
         /\ Unmarked(a, b, m).place = a.place
         /\ Unmarked(a, b, m).saw = a.saw
         /\ Unmarked(a, b, m).follows = a.follows \ m
         /\ Unmarked(a, b, m).gone <=> a.gone
         /\ Unmarked(a, b, m).primary <=> a.primary /\ b
PROOF
<1> USE DEF InterestRow, Unmarked
<1>1. a.follows \ m \in Rows
  BY DEF Rows
<1>2. Unmarked(a, b, m) \in InterestRow
  BY <1>1
<1>3. /\ Unmarked(a, b, m).place = a.place
      /\ Unmarked(a, b, m).saw = a.saw
      /\ Unmarked(a, b, m).follows = a.follows \ m
  OBVIOUS
<1>4. Unmarked(a, b, m).gone <=> a.gone
  OBVIOUS
<1>5. Unmarked(a, b, m).primary <=> a.primary /\ b
  OBVIOUS
<1> QED BY <1>2, <1>3, <1>4, <1>5

\* A dropped interest is gone and not primary.
LEMMA DroppedInterest ==
  ASSUME NEW a \in InterestRow
  PROVE  /\ [a EXCEPT !.gone = TRUE, !.primary = FALSE] \in InterestRow
         /\ [a EXCEPT !.gone = TRUE, !.primary = FALSE].gone
         /\ ~[a EXCEPT !.gone = TRUE, !.primary = FALSE].primary
PROOF
<1> DEFINE d == [a EXCEPT !.gone = TRUE, !.primary = FALSE]
<1>1. d \in InterestRow
  BY DEF InterestRow
<1>2. d.gone
  BY DEF InterestRow
<1>3. ~d.primary
  BY DEF InterestRow
<1> QED BY <1>1, <1>2, <1>3

-----------------------------------------------------------------------------
(* Statements *)

\* A statement that leaves the tables alone preserves the invariant when what
\* its request goes on to rely on is known, and no other insert has its place.
LEMMA StatementStep ==
  ASSUME FileInv, NEW r \in Requests, NEW new \in RequestRow, Known(new), TablesKept,
         req' = [req EXCEPT ![r] = new],
         new.op = "interest" /\ new.adds =>
           \A q \in Requests \ {r} :
             req[q].op = "interest" /\ req[q].adds /\ req[q].arg = new.arg => new.arg = NoPlace
  PROVE  FileInv'
PROOF
<1> USE DEF FileInv
<1>1. /\ lead' = lead /\ assigned' = assigned /\ interest' = interest /\ followup' = followup
  BY DEF TablesKept
<1>2. req \in [Requests -> RequestRow]
  BY DEF Typed
<1>3. req' \in [Requests -> RequestRow] /\ req'[r] = new
      /\ \A q \in Requests \ {r} : req'[q] = req[q]
  BY <1>2
<1>4. Typed'
  BY <1>1, <1>3 DEF Typed
<1>5. \A q \in Requests : Known(req[q])'
  <2> SUFFICES ASSUME NEW q \in Requests PROVE Known(req[q])'
    OBVIOUS
  <2>1. Known(req'[q])
    BY <1>3
  <2> QED BY <2>1, <1>1, Zenon DEF Known, Primaries, Kept, Open, SamePlace
<1>6. InsertersApart'
  <2> SUFFICES ASSUME NEW p \in Requests, NEW q \in Requests \ {p},
                      req'[p].op = "interest" /\ req'[p].adds,
                      req'[q].op = "interest" /\ req'[q].adds /\ req'[q].arg = req'[p].arg
               PROVE  req'[p].arg = NoPlace
    BY DEF InsertersApart
  <2>1. CASE p = r
    BY <2>1, <1>3
  <2>2. CASE q = r
    BY <2>2, <1>3
  <2>3. CASE p # r /\ q # r
    BY <2>3, <1>3 DEF InsertersApart
  <2> QED BY <2>1, <2>2, <2>3
<1>7. PlaceUnique' /\ RowsSaw'
  BY <1>1 DEF PlaceUnique, RowsSaw, Kept
<1>8. PrimariesRaced' /\ PrimaryInterestsRaced' /\ AssigneeIsCurrent' /\ OpenFollowUpsRaced'
  BY <1>1, Zenon DEF PrimariesRaced, PrimaryInterestsRaced, WroteBlind, AssigneeIsCurrent,
                     OpenFollowUpsRaced, Primaries, Kept, Open
<1> QED BY <1>4, <1>5, <1>6, <1>7, <1>8

\* A free request knows nothing.
LEMMA IdleKnown == Idle \in RequestRow /\ Known(Idle) /\ ~Idle.adds
PROOF
<1>1. Idle \in RequestRow
  BY DEF Idle, RequestRow, Ops, Steps, Args, Rows
<1>2. Idle.op = "edit" /\ Idle.at = "scan" /\ ~Idle.adds
  BY DEF Idle
<1>3. Known(Idle)
  BY <1>2 DEF Known
<1> QED BY <1>1, <1>2, <1>3

\* A request that begins knows nothing either.
LEMMA BeginStep ==
  ASSUME FileInv, NEW r \in Requests, NEW op \in Ops,
         NEW step \in {"scan", "insert", "lead", "pick", "move"},
         NEW arg \in Args, NEW primary \in BOOLEAN, NEW row \in Nat \cup {None},
         Begin(r, op, step, arg, primary, row),
         step = "move" => op \in {"drop", "followup", "reschedule", "cancel"} /\ row \in Nat
  PROVE  FileInv'
PROOF
<1> DEFINE new == [Idle EXCEPT !.op = op, !.at = step, !.arg = arg, !.primary = primary,
                              !.row = row]
<1>1. new.op = op /\ new.at = step /\ new.row = row /\ new.saw = {} /\ ~new.adds
  BY DEF Idle
<1>2. new \in RequestRow
  BY IdleKnown DEF RequestRow, Steps
<1>3. Known(new)
  BY <1>1 DEF Known
<1>4. ~new.adds
  BY <1>1
<1>5. req' = [req EXCEPT ![r] = new] /\ TablesKept
  BY DEF Begin
<1> HIDE DEF new
<1> QED BY <1>2, <1>3, <1>4, <1>5, StatementStep

\* Only an insert of a place makes a request hold it: a statement after which
\* r inserts what it inserted before leaves the inserters apart.
LEMMA KeptStep ==
  ASSUME FileInv, NEW r \in Requests, NEW new \in RequestRow, Known(new), TablesKept,
         req' = [req EXCEPT ![r] = new],
         new.adds /\ new.op = "interest" =>
           req[r].adds /\ req[r].op = "interest" /\ req[r].arg = new.arg
  PROVE  FileInv'
BY StatementStep DEF FileInv, InsertersApart

\* The clearing statement starts.
LEMMA ScanStep == ASSUME FileInv, NEW r \in Requests, Scan(r) PROVE FileInv'
PROOF
<1> DEFINE rows == IF req[r].op = "assign" THEN Primaries ELSE Kept
           new == [req[r] EXCEPT !.at = "clear", !.saw = rows]
<1>1. req[r] \in RequestRow /\ req \in [Requests -> RequestRow] /\ Known(req[r])
      /\ DOMAIN assigned \subseteq Nat /\ DOMAIN interest \subseteq Nat
  BY DEF FileInv, Typed
<1>2. req' = [req EXCEPT ![r] = new] /\ TablesKept
      /\ req[r].op \in {"assign", "interest"}
  BY DEF Scan, At
<1>3. rows \subseteq Nat
  BY <1>1 DEF Primaries, Kept
<1>4. new \in RequestRow /\ new.at = "clear" /\ new.saw = rows /\ new.op = req[r].op
      /\ new.arg = req[r].arg /\ (new.adds <=> req[r].adds)
  BY <1>1, <1>3 DEF RequestRow, Steps, Rows
<1>5. Known(new)
  BY <1>1, <1>2, <1>4 DEF Known, Primaries, Kept
<1> HIDE DEF new, rows
<1> QED BY <1>2, <1>4, <1>5, KeptStep

\* It has its rows: those it saw and that still qualify are locked.
LEMMA ClearStep == ASSUME FileInv, NEW r \in Requests, Clear(r) PROVE FileInv'
PROOF
<1> DEFINE new == [req[r] EXCEPT !.at = "insert", !.locks = StillThere(r)]
<1>1. req[r] \in RequestRow /\ req \in [Requests -> RequestRow] /\ Known(req[r])
  BY DEF FileInv, Typed
<1>2. req' = [req EXCEPT ![r] = new] /\ TablesKept
      /\ req[r].at = "clear" /\ req[r].op \in {"assign", "interest"}
  BY <1>1 DEF Clear, Known
<1>3. StillThere(r) \subseteq Nat
  BY <1>1 DEF StillThere, RequestRow, Rows
<1>4. new \in RequestRow /\ new.at = "insert" /\ new.saw = req[r].saw /\ new.op = req[r].op
      /\ new.arg = req[r].arg /\ (new.adds <=> req[r].adds) /\ new.locks = StillThere(r)
  BY <1>1, <1>3 DEF RequestRow, Steps, Rows
<1>5. Known(new)
  BY <1>1, <1>2, <1>4 DEF Known, StillThere
<1> HIDE DEF new
<1> QED BY <1>2, <1>4, <1>5, KeptStep

\* The insert of an assignment.
LEMMA AddAssignmentStep == ASSUME FileInv, NEW r \in Requests, AddAssignment(r) PROVE FileInv'
PROOF
<1> DEFINE new == [req[r] EXCEPT !.at = "lead", !.adds = TRUE]
<1>1. req[r] \in RequestRow /\ req \in [Requests -> RequestRow] /\ Known(req[r])
  BY DEF FileInv, Typed
<1>2. req' = [req EXCEPT ![r] = new] /\ TablesKept
      /\ req[r].at = "insert" /\ req[r].op = "assign"
  BY DEF AddAssignment, At
<1>4. new \in RequestRow /\ new.at = "lead" /\ new.saw = req[r].saw /\ new.op = req[r].op
      /\ new.locks = req[r].locks
  BY <1>1 DEF RequestRow, Steps
<1>5. Known(new)
  BY <1>1, <1>2, <1>4 DEF Known
<1> HIDE DEF new
<1> QED BY <1>2, <1>4, <1>5, KeptStep

\* The upsert of an interest: it waits for another insert of the same place.
LEMMA UpsertStep == ASSUME FileInv, NEW r \in Requests, Upsert(r) PROVE FileInv'
PROOF
<1> DEFINE old == SamePlace(req[r].arg)
           none == old = {}
           new == [req[r] EXCEPT !.at = "commit", !.locks = @ \cup old, !.adds = none]
<1>1. req[r] \in RequestRow /\ req \in [Requests -> RequestRow] /\ Known(req[r])
      /\ DOMAIN interest \subseteq Nat
  BY DEF FileInv, Typed
<1>2. req' = [req EXCEPT ![r] = new] /\ TablesKept /\ InsertsElsewhere(r) = {}
      /\ req[r].at = "insert" /\ req[r].op = "interest"
  BY DEF Upsert, At
<1>3. old \subseteq Nat /\ req[r].locks \subseteq Nat
  BY <1>1 DEF SamePlace, Kept, RequestRow, Rows
<1>4. new \in RequestRow /\ new.at = "commit" /\ new.saw = req[r].saw /\ new.op = req[r].op
      /\ new.arg = req[r].arg /\ (new.adds <=> none) /\ new.locks = req[r].locks \cup old
  <2> none \in BOOLEAN
    OBVIOUS
  <2> HIDE DEF none, old
  <2> QED BY <1>1, <1>3 DEF RequestRow, Steps, Rows
<1>5. Known(new)
  BY <1>1, <1>2, <1>4 DEF Known
<1>6. \A q \in Requests \ {r} :
        req[q].op = "interest" /\ req[q].adds /\ req[q].arg = new.arg => new.arg = NoPlace
  BY <1>2, <1>4 DEF InsertsElsewhere
<1> HIDE DEF new, old
<1> QED BY <1>2, <1>4, <1>5, <1>6, StatementStep

\* The AI compares the requirement it was told with the lead's.
LEMMA CompareStep == ASSUME FileInv, NEW r \in Requests, Compare(r) PROVE FileInv'
PROOF
<1> DEFINE new == [req[r] EXCEPT !.at = "lead", !.was = lead.need]
<1>1. req[r] \in RequestRow /\ req \in [Requests -> RequestRow] /\ Known(req[r])
      /\ lead.need \in Args
  BY DEF FileInv, Typed, LeadRows
<1>2. /\ req' = [req EXCEPT ![r] = Idle] \/ req' = [req EXCEPT ![r] = new]
      /\ TablesKept /\ req[r].at = "scan" /\ req[r].op = "require"
  BY DEF Compare, At
<1>4. new \in RequestRow /\ new.at = "lead" /\ new.op = req[r].op
      /\ (new.adds <=> req[r].adds)
  BY <1>1 DEF RequestRow, Steps
<1>5. Known(new)
  BY <1>1, <1>2, <1>4 DEF Known
<1> HIDE DEF new
<1> QED BY <1>2, <1>4, <1>5, KeptStep, IdleKnown

\* The AI looks for an open follow-up at nearly the same time.
LEMMA PickStep == ASSUME FileInv, NEW r \in Requests, Pick(r) PROVE FileInv'
PROOF
<1>1. req[r] \in RequestRow /\ req \in [Requests -> RequestRow] /\ Known(req[r])
      /\ DOMAIN followup \subseteq Nat
  BY DEF FileInv, Typed
<1>2. TablesKept /\ req[r].at = "pick" /\ req[r].op = "followup"
  BY DEF Pick, At
<1>3. Open \subseteq Nat /\ Open \subseteq DOMAIN followup
  BY <1>1 DEF Open
<1>4. ASSUME NEW i \in Same(req[r].arg), req' = [req EXCEPT ![r].at = "move", ![r].row = i]
      PROVE  FileInv'
  <2> DEFINE new == [req[r] EXCEPT !.at = "move", !.row = i]
  <2>1. req' = [req EXCEPT ![r] = new]
    BY <1>4
  <2>2. i \in Nat
    BY <1>3 DEF Same
  <2>3. new \in RequestRow /\ new.at = "move" /\ new.op = req[r].op /\ new.arg = req[r].arg
        /\ new.row = i /\ (new.adds <=> req[r].adds) /\ new.saw = req[r].saw
    BY <1>1, <2>2 DEF RequestRow, Steps
  <2>4. Known(new)
    BY <1>1, <1>2, <2>2, <2>3 DEF Known
  <2> HIDE DEF new
  <2> QED BY <1>2, <2>1, <2>3, <2>4, KeptStep
<1>5. ASSUME Same(req[r].arg) = {}, req' = [req EXCEPT ![r].at = "insert", ![r].saw = Open]
      PROVE  FileInv'
  <2> DEFINE new == [req[r] EXCEPT !.at = "insert", !.saw = Open]
  <2>1. req' = [req EXCEPT ![r] = new]
    BY <1>5
  <2>3. new \in RequestRow /\ new.at = "insert" /\ new.op = req[r].op /\ new.arg = req[r].arg
        /\ (new.adds <=> req[r].adds) /\ new.saw = Open
    BY <1>1, <1>3 DEF RequestRow, Steps, Rows
  <2>4. Known(new)
    BY <1>1, <1>2, <1>3, <1>5, <2>3 DEF Known, Same
  <2> HIDE DEF new
  <2> QED BY <1>2, <2>1, <2>3, <2>4, KeptStep
<1> QED BY <1>4, <1>5, Zenon DEF Pick

\* The insert of a follow-up.
LEMMA AddFollowUpStep == ASSUME FileInv, NEW r \in Requests, AddFollowUp(r) PROVE FileInv'
PROOF
<1> DEFINE new == [req[r] EXCEPT !.at = "lead", !.adds = TRUE]
<1>1. req[r] \in RequestRow /\ req \in [Requests -> RequestRow] /\ Known(req[r])
  BY DEF FileInv, Typed
<1>2. req' = [req EXCEPT ![r] = new] /\ TablesKept
      /\ req[r].at = "insert" /\ req[r].op = "followup"
  BY DEF AddFollowUp, At
<1>4. new \in RequestRow /\ new.at = "lead" /\ new.saw = req[r].saw /\ new.op = req[r].op
      /\ new.arg = req[r].arg
  BY <1>1 DEF RequestRow, Steps
<1>5. Known(new)
  BY <1>1, <1>2, <1>4 DEF Known
<1> HIDE DEF new
<1> QED BY <1>2, <1>4, <1>5, KeptStep

\* One row is written: an interest dropped, a follow-up moved or cancelled.
LEMMA MoveStep == ASSUME FileInv, NEW r \in Requests, Move(r) PROVE FileInv'
PROOF
<1> DEFINE next == IF req[r].op = "cancel" THEN "jobs" ELSE "commit"
           new == [req[r] EXCEPT !.at = next, !.locks = {req[r].row}]
<1>1. req[r] \in RequestRow /\ req \in [Requests -> RequestRow] /\ Known(req[r])
  BY DEF FileInv, Typed
<1>2. req' = [req EXCEPT ![r] = new] /\ TablesKept /\ req[r].at = "move"
  BY DEF Move
<1>3. req[r].op \in {"drop", "followup", "reschedule", "cancel"} /\ req[r].row \in Nat
      /\ next \in {"jobs", "commit"}
  BY <1>1, <1>2 DEF Known
<1> HIDE DEF next
<1>4. new \in RequestRow /\ new.at = next /\ new.op = req[r].op /\ new.saw = req[r].saw
      /\ new.arg = req[r].arg /\ (new.adds <=> req[r].adds)
  BY <1>1, <1>3 DEF RequestRow, Steps, Rows
<1>5. Known(new)
  BY <1>1, <1>2, <1>3, <1>4 DEF Known
<1> HIDE DEF new
<1> QED BY <1>2, <1>4, <1>5, KeptStep

\* The waiting call jobs of a cancelled follow-up.
LEMMA StopJobsStep == ASSUME FileInv, NEW r \in Requests, StopJobs(r) PROVE FileInv'
PROOF
<1> DEFINE waiting == {j \in Jobs : job[j] = "waiting"}
           new == [req[r] EXCEPT !.at = "commit", !.jobs = waiting]
<1>1. req[r] \in RequestRow /\ req \in [Requests -> RequestRow] /\ Known(req[r])
  BY DEF FileInv, Typed
<1>2. req' = [req EXCEPT ![r] = new] /\ TablesKept
      /\ req[r].at = "jobs" /\ req[r].op = "cancel"
  BY DEF StopJobs, At
<1>3. waiting \in SUBSET Jobs
  OBVIOUS
<1> HIDE DEF waiting
<1>4. new \in RequestRow /\ new.at = "commit" /\ new.op = req[r].op
      /\ (new.adds <=> req[r].adds)
  BY <1>1, <1>3 DEF RequestRow, Steps
<1>5. Known(new)
  BY <1>1, <1>2, <1>4 DEF Known
<1> HIDE DEF new
<1> QED BY <1>2, <1>4, <1>5, KeptStep

\* The lead's own row.
LEMMA TouchLeadStep == ASSUME FileInv, NEW r \in Requests, TouchLead(r) PROVE FileInv'
PROOF
<1> DEFINE new == [req[r] EXCEPT !.at = "commit", !.lead = TRUE]
<1>1. req[r] \in RequestRow /\ req \in [Requests -> RequestRow] /\ Known(req[r])
  BY DEF FileInv, Typed
<1>2. req' = [req EXCEPT ![r] = new] /\ TablesKept /\ req[r].at = "lead"
  BY DEF TouchLead
<1>4. new \in RequestRow /\ new.at = "commit" /\ new.op = req[r].op /\ new.saw = req[r].saw
      /\ new.arg = req[r].arg /\ (new.adds <=> req[r].adds) /\ new.lead
      /\ new.locks = req[r].locks
  BY <1>1 DEF RequestRow, Steps
<1>5. Known(new)
  BY <1>1, <1>2, <1>4 DEF Known
<1> HIDE DEF new
<1> QED BY <1>2, <1>4, <1>5, KeptStep

\* A request that fails leaves nothing.
LEMMA FailStep == ASSUME FileInv, NEW r \in Requests, Fail(r) PROVE FileInv'
  BY IdleKnown, KeptStep DEF Fail

\* What a request begins with.
LEMMA BeginsStep ==
  ASSUME FileInv, NEW r \in Requests,
         \/ \E a \in Agents : BeginAssign(r, a)
         \/ \E p \in Places, b \in BOOLEAN : BeginInterest(r, p, b)
         \/ \E i \in Ids : BeginDrop(r, i) \/ BeginCancel(r, i)
         \/ \E v \in Agents \cup Needs \cup {None} : BeginEdit(r, v)
         \/ \E v \in Needs : BeginRequire(r, v)
         \/ \E t \in Slots : BeginFollowUp(r, t)
         \/ \E i \in Ids, t \in Slots : BeginReschedule(r, i, t)
  PROVE  FileInv'
PROOF
<1> USE DEF Ops
<1>0. Agents \cup Needs \cup Places \cup Slots \cup {None} = Args
  BY DEF Args
<1>9. Ids \subseteq Nat
  BY LeadFileAssumption DEF Ids
<1>1. ASSUME NEW a \in Agents, BeginAssign(r, a) PROVE FileInv'
  BY <1>0, <1>1, BeginStep DEF BeginAssign
<1>2. ASSUME NEW p \in Places, NEW b \in BOOLEAN, BeginInterest(r, p, b) PROVE FileInv'
  <2> DEFINE step == IF b THEN "scan" ELSE "insert"
  <2>1. Begin(r, "interest", step, p, b, None)
    BY <1>2 DEF BeginInterest
  <2>2. step \in {"scan", "insert", "lead", "pick", "move"} /\ step # "move" /\ p \in Args
    BY <1>0
  <2> HIDE DEF step
  <2> QED BY <2>1, <2>2, BeginStep
<1>3. ASSUME NEW i \in Ids, BeginDrop(r, i) PROVE FileInv'
  <2>1. Begin(r, "drop", "move", None, FALSE, i)
    BY <1>3 DEF BeginDrop
  <2>2. None \in Args /\ i \in Nat
    BY <1>0, <1>9
  <2> QED BY <2>1, <2>2, BeginStep
<1>4. ASSUME NEW i \in Ids, BeginCancel(r, i) PROVE FileInv'
  <2>1. Begin(r, "cancel", "move", None, FALSE, i)
    BY <1>4 DEF BeginCancel
  <2>2. None \in Args /\ i \in Nat
    BY <1>0, <1>9
  <2> QED BY <2>1, <2>2, BeginStep
<1>5. ASSUME NEW v \in Agents \cup Needs \cup {None}, BeginEdit(r, v) PROVE FileInv'
  BY <1>0, <1>5, BeginStep DEF BeginEdit
<1>6. ASSUME NEW v \in Needs, BeginRequire(r, v) PROVE FileInv'
  BY <1>0, <1>6, BeginStep DEF BeginRequire
<1>7. ASSUME NEW t \in Slots, BeginFollowUp(r, t) PROVE FileInv'
  BY <1>0, <1>7, BeginStep DEF BeginFollowUp
<1>8. ASSUME NEW i \in Ids, NEW t \in Slots, BeginReschedule(r, i, t) PROVE FileInv'
  <2>1. Begin(r, "reschedule", "move", t, FALSE, i)
    BY <1>8 DEF BeginReschedule
  <2>2. t \in Args /\ i \in Nat
    BY <1>0, <1>9
  <2> QED BY <2>1, <2>2, BeginStep
<1> QED BY <1>1, <1>2, <1>3, <1>4, <1>5, <1>6, <1>7, <1>8, Zenon

-----------------------------------------------------------------------------
(* Commits *)

\* A commit ends its request and no other, and puts on the lead the agent of an
\* assignment, or leaves the agent that one put there.
LEMMA CommitFrame ==
  ASSUME FileInv, NEW r \in Requests, Commit(r)
  PROVE  /\ req[r] \in RequestRow /\ Known(req[r]) /\ req[r].at = "commit"
         /\ req' \in [Requests -> RequestRow]
         /\ req'[r] = Idle
         /\ \A q \in Requests \ {r} : req'[q] = req[q]
         /\ InsertersApart'
         /\ lead' \in LeadRows
         /\ req[r].op = "assign" => lead'.assignee = req[r].arg
         /\ req[r].op # "assign" /\ lead'.byDesk => lead.byDesk /\ lead'.assignee = lead.assignee
PROOF
<1>1. req[r] \in RequestRow /\ Known(req[r]) /\ req \in [Requests -> RequestRow]
      /\ lead \in LeadRows
  BY DEF FileInv, Typed
<1>2. req[r].at = "commit" /\ req' = [req EXCEPT ![r] = Idle]
      /\ lead' = IF req[r].lead THEN LeadAfter(r) ELSE lead
  BY DEF Commit
<1>3. /\ req' \in [Requests -> RequestRow]
      /\ req'[r] = Idle
      /\ \A q \in Requests \ {r} : req'[q] = req[q]
  BY <1>1, <1>2, IdleKnown
<1>4. InsertersApart'
  <2> SUFFICES ASSUME NEW p \in Requests, NEW q \in Requests \ {p},
                      req'[p].op = "interest" /\ req'[p].adds,
                      req'[q].op = "interest" /\ req'[q].adds /\ req'[q].arg = req'[p].arg
               PROVE  req'[p].arg = NoPlace
    BY DEF InsertersApart
  <2>1. p # r /\ q # r
    BY <1>3, IdleKnown
  <2> QED BY <2>1, <1>3 DEF FileInv, InsertersApart
<1>5. req[r].op = "assign" => req[r].lead
  BY <1>1, <1>2 DEF Known
<1>6. CASE req[r].op = "assign"
  <2>1. lead' = [lead EXCEPT !.assignee = req[r].arg, !.byDesk = TRUE]
    BY <1>2, <1>5, <1>6 DEF LeadAfter
  <2>2. lead' \in LeadRows /\ lead'.assignee = req[r].arg
    BY <2>1, <1>1 DEF LeadRows, RequestRow
  <2> QED BY <2>2, <1>1, <1>2, <1>3, <1>4, <1>6
<1>7. CASE req[r].op # "assign"
  <2>1. \/ lead' = lead
        \/ lead' = [lead EXCEPT !.need = req[r].arg]
        \/ lead' = [lead EXCEPT !.next = req[r].arg]
        \/ lead' = [lead EXCEPT !.assignee = req[r].arg, !.byDesk = FALSE]
        \/ lead' = [lead EXCEPT !.status = "converted"]
    BY <1>2, <1>7 DEF LeadAfter
  <2>2. lead' \in LeadRows
    BY <2>1, <1>1 DEF LeadRows, RequestRow
  <2>3. lead'.byDesk => lead.byDesk /\ lead'.assignee = lead.assignee
    BY <2>1, <1>1 DEF LeadRows, RequestRow
  <2> QED BY <2>2, <2>3, <1>1, <1>2, <1>3, <1>4, <1>7
<1> QED BY <1>6, <1>7

\* An assignment clears the primaries it saw and is one: any other primary it
\* could not see.
LEMMA AssignCommit ==
  ASSUME FileInv, NEW r \in Requests, Commit(r), req[r].op = "assign"
  PROVE  FileInv'
PROOF
<1> DEFINE n == Len(assigned) + 1
<1>1. /\ req[r] \in RequestRow /\ Known(req[r]) /\ req[r].at = "commit"
      /\ req' \in [Requests -> RequestRow]
      /\ req'[r] = Idle
      /\ \A q \in Requests \ {r} : req'[q] = req[q]
      /\ InsertersApart'
      /\ lead' \in LeadRows
      /\ lead'.assignee = req[r].arg
  BY CommitFrame
<1>2. interest' = interest /\ followup' = followup /\ assigned' = AssignedAfter(r)
  BY DEF Commit
<1>3. assigned \in Seq(AssignmentRow) /\ DOMAIN assigned = 1..Len(assigned) /\ Len(assigned) \in Nat
  BY DEF FileInv, Typed
<1>4. \A i \in DOMAIN assigned : assigned[i] \in AssignmentRow
  BY <1>3
<1>5. /\ Retired(r) \in [DOMAIN assigned -> AssignmentRow]
      /\ \A i \in DOMAIN assigned :
           /\ Retired(r)[i].saw = assigned[i].saw
           /\ Retired(r)[i].agent = assigned[i].agent
           /\ Retired(r)[i].primary <=> assigned[i].primary /\ i \notin req[r].locks
  BY <1>4, ClearedAssignment, Zenon DEF Retired
<1>6. Retired(r) \in Seq(AssignmentRow) /\ Len(Retired(r)) = Len(assigned)
  BY <1>3, <1>5, Mapped
<1> DEFINE row == [agent |-> req[r].arg, primary |-> TRUE, saw |-> req[r].saw]
<1>7. row \in AssignmentRow /\ row.primary /\ row.saw = req[r].saw /\ row.agent = req[r].arg
  BY <1>1 DEF AssignmentRow, RequestRow
<1>8. assigned' = Append(Retired(r), row)
  BY <1>2 DEF AssignedAfter
<1> HIDE DEF row
<1>9. /\ assigned' \in Seq(AssignmentRow)
      /\ DOMAIN assigned' = DOMAIN assigned \cup {n}
      /\ n \notin DOMAIN assigned
      /\ assigned'[n] = row
      /\ \A i \in DOMAIN assigned : assigned'[i] = Retired(r)[i]
  BY <1>3, <1>6, <1>7, <1>8
<1> HIDE DEF n
<1>10. Primaries' = (Primaries \ req[r].locks) \cup {n}
  BY <1>5, <1>7, <1>9 DEF Primaries
<1>11. req[r].saw \subseteq DOMAIN assigned /\ req[r].saw \cap Primaries \subseteq req[r].locks
  BY <1>1 DEF Known
<1>12. Typed'
  BY <1>1, <1>2, <1>9 DEF Typed, FileInv
<1>13. \A q \in Requests : Known(req[q])'
  <2> SUFFICES ASSUME NEW q \in Requests PROVE Known(req[q])'
    OBVIOUS
  <2>1. CASE q = r
    BY <2>1, <1>1, IdleKnown DEF Known, Idle
  <2>2. CASE q # r
    <3>1. Known(req[q]) /\ req'[q] = req[q]
      BY <2>2, <1>1 DEF FileInv
    <3>2. req[q].op = "assign" =>
            /\ req[q].saw \subseteq DOMAIN assigned'
            /\ req[q].at \notin {"scan", "clear"} =>
                 req[q].saw \cap Primaries' \subseteq req[q].locks
      BY <3>1, <1>9, <1>10 DEF Known
    <3> QED BY <3>1, <3>2, <1>2 DEF Known, Kept, Open, SamePlace
  <2> QED BY <2>1, <2>2
<1>14. PlaceUnique'
  BY <1>2 DEF FileInv, PlaceUnique, Kept
<1>15. RowsSaw'
  BY <1>2, <1>5, <1>7, <1>9, <1>11 DEF FileInv, RowsSaw
<1>16. PrimariesRaced'
  <2>1. \A p, q \in Primaries' : p # q => p \notin assigned'[q].saw /\ q \notin assigned'[p].saw
    <3>1. \A p, q \in Primaries : p # q => p \notin assigned[q].saw /\ q \notin assigned[p].saw
      BY DEF FileInv, PrimariesRaced
    <3>2. \A p \in Primaries \ req[r].locks :
            p \in DOMAIN assigned /\ assigned'[p].saw = assigned[p].saw /\ p \notin req[r].saw
            /\ n \notin assigned[p].saw
      BY <1>5, <1>9, <1>11 DEF Primaries, FileInv, RowsSaw
    <3> QED BY <3>1, <3>2, <1>7, <1>9, <1>10
  <2> QED BY <2>1 DEF PrimariesRaced
<1>21. PrimaryInterestsRaced'
  BY <1>2 DEF FileInv, PrimaryInterestsRaced, WroteBlind, Kept
<1>17. AssigneeIsCurrent'
  BY <1>1, <1>7, <1>9, <1>10 DEF AssigneeIsCurrent
<1>18. OpenFollowUpsRaced'
  BY <1>2 DEF FileInv, OpenFollowUpsRaced, Open
<1> QED BY <1>1, <1>12, <1>13, <1>14, <1>15, <1>16, <1>17, <1>18, <1>21 DEF FileInv

\* A table of interests some of whose kept rows are cleared or dropped: what the
\* other requests know of it.
LEMMA InterestsKnown ==
  ASSUME FileInv, NEW r \in Requests, Commit(r), req[r].op \in {"interest", "drop"},
         Typed',
         DOMAIN interest \subseteq DOMAIN interest',
         \A i \in DOMAIN interest : i \in Kept' => i \in Kept,
         \A q \in Requests \ {r} :
           req[q].op = "interest" /\ req[q].adds => SamePlace(req[q].arg)' = {},
         PlaceUnique', PrimaryInterestsRaced'
  PROVE  FileInv'
PROOF
<1>1. /\ req[r] \in RequestRow /\ Known(req[r]) /\ req[r].at = "commit"
      /\ req' \in [Requests -> RequestRow]
      /\ req'[r] = Idle
      /\ \A q \in Requests \ {r} : req'[q] = req[q]
      /\ InsertersApart'
      /\ req[r].op # "assign" /\ lead'.byDesk => lead.byDesk /\ lead'.assignee = lead.assignee
  BY CommitFrame
<1>2. assigned' = assigned /\ followup' = followup
  BY DEF Commit
<1>3. \A q \in Requests : Known(req[q])'
  <2> SUFFICES ASSUME NEW q \in Requests PROVE Known(req[q])'
    OBVIOUS
  <2>1. CASE q = r
    BY <2>1, <1>1, IdleKnown DEF Known, Idle
  <2>2. CASE q # r
    <3>1. Known(req[q]) /\ req'[q] = req[q]
      BY <2>2, <1>1 DEF FileInv
    <3>2. req[q].op = "interest" =>
            /\ req[q].saw \subseteq DOMAIN interest'
            /\ req[q].at \notin {"scan", "clear"} => req[q].saw \cap Kept' \subseteq req[q].locks
            /\ req[q].adds => SamePlace(req[q].arg)' = {}
      BY <3>1, <2>2 DEF Known
    <3> QED BY <3>1, <3>2, <1>2 DEF Known, Primaries, Open, SamePlace
  <2> QED BY <2>1, <2>2
<1>4. RowsSaw'
  BY <1>2 DEF FileInv, RowsSaw
<1>5. PrimariesRaced'
  <2>1. \A p, q \in Primaries' : p # q => p \notin assigned'[q].saw /\ q \notin assigned'[p].saw
    BY <1>2 DEF FileInv, PrimariesRaced, Primaries
  <2> QED BY <2>1 DEF PrimariesRaced
<1>6. AssigneeIsCurrent'
  BY <1>1, <1>2 DEF AssigneeIsCurrent, FileInv, Primaries
<1>7. OpenFollowUpsRaced'
  BY <1>2 DEF FileInv, OpenFollowUpsRaced, Open
<1> QED BY <1>1, <1>3, <1>4, <1>5, <1>6, <1>7 DEF FileInv

\* An interest is dropped: it is no longer kept.
LEMMA DropCommit ==
  ASSUME FileInv, NEW r \in Requests, Commit(r), req[r].op = "drop"
  PROVE  FileInv'
PROOF
<1> DEFINE row == req[r].row
<1>1. interest' = [interest EXCEPT ![row].gone = TRUE, ![row].primary = FALSE]
      /\ assigned' = assigned /\ followup' = followup
  BY DEF Commit
<1>2. interest \in Seq(InterestRow) /\ DOMAIN interest = 1..Len(interest) /\ Len(interest) \in Nat
  BY DEF FileInv, Typed
<1> HIDE DEF row
<1>3. CASE row \in DOMAIN interest
  <2> DEFINE gone == [interest[row] EXCEPT !.gone = TRUE, !.primary = FALSE]
  <2>1. gone \in InterestRow /\ gone.gone /\ ~gone.primary
    <3>1. interest[row] \in InterestRow
      BY <1>2, <1>3
    <3> QED BY <3>1, DroppedInterest, Zenon
  <2>2. /\ interest' \in [DOMAIN interest -> InterestRow]
        /\ interest'[row] = gone
        /\ \A i \in DOMAIN interest \ {row} : interest'[i] = interest[i]
    <3>1. interest \in [DOMAIN interest -> InterestRow]
      BY <1>2
    <3>2. /\ DOMAIN interest' = DOMAIN interest /\ interest'[row] = gone
          /\ \A i \in DOMAIN interest \ {row} : interest'[i] = interest[i]
      BY <1>1, <1>3, <3>1
    <3>3. interest' = [i \in DOMAIN interest |-> interest'[i]]
      BY <1>1, <1>3, <3>1
    <3> QED BY <2>1, <3>1, <3>2, <3>3
  <2> HIDE DEF gone
  <2>3. /\ interest' \in Seq(InterestRow)
        /\ DOMAIN interest' = DOMAIN interest
        /\ interest'[row] = gone
        /\ \A i \in DOMAIN interest \ {row} : interest'[i] = interest[i]
    BY <1>2, <1>3, <2>1, <2>2, Mapped
  <2>4. Kept' = Kept \ {row}
    BY <2>1, <2>3 DEF Kept
  <2>5. Typed'
    BY <1>1, <2>3, CommitFrame DEF Typed, FileInv
  <2>6. PlaceUnique'
    BY <2>3, <2>4 DEF PlaceUnique, FileInv, Kept
  <2>7. PrimaryInterestsRaced'
    BY <2>3, <2>4 DEF FileInv, PrimaryInterestsRaced, WroteBlind, Kept
  <2>8. \A p : SamePlace(p)' \subseteq SamePlace(p)
    BY <2>3, <2>4 DEF SamePlace, Kept
  <2>9. \A q \in Requests \ {r} :
           req[q].op = "interest" /\ req[q].adds => SamePlace(req[q].arg)' = {}
    <3> SUFFICES ASSUME NEW q \in Requests \ {r}, req[q].op = "interest", req[q].adds
                 PROVE  SamePlace(req[q].arg)' = {}
      OBVIOUS
    <3>1. SamePlace(req[q].arg) = {} /\ req'[q] = req[q]
      BY CommitFrame DEF FileInv, Known
    <3> QED BY <3>1, <2>8
  <2> QED BY <2>3, <2>4, <2>5, <2>6, <2>7, <2>9, InterestsKnown
<1>4. CASE row \notin DOMAIN interest
  <2>1. interest' = interest
    BY <1>1, <1>2, <1>4
  <2>2. Typed'
    BY <1>1, <2>1, CommitFrame DEF Typed, FileInv
  <2>3. Kept' = Kept
    BY <2>1 DEF Kept
  <2>4. PlaceUnique'
    BY <2>1, <2>3 DEF PlaceUnique, FileInv
  <2>5. PrimaryInterestsRaced'
    BY <2>1, <2>3 DEF FileInv, PrimaryInterestsRaced, WroteBlind
  <2>6. \A q \in Requests \ {r} :
           req[q].op = "interest" /\ req[q].adds => SamePlace(req[q].arg)' = {}
    <3> SUFFICES ASSUME NEW q \in Requests \ {r}, req[q].op = "interest", req[q].adds
                 PROVE  SamePlace(req[q].arg)' = {}
      OBVIOUS
    <3>1. SamePlace(req[q].arg) = {} /\ req'[q] = req[q]
      BY CommitFrame DEF FileInv, Known
    <3> QED BY <3>1, <2>1 DEF SamePlace, Kept
  <2> QED BY <2>1, <2>2, <2>3, <2>4, <2>5, <2>6, InterestsKnown
<1> QED BY <1>3, <1>4

\* An interest clears the others it saw, if it is a primary one, and is written
\* over the interest in the same place or is a row of its own.
LEMMA InterestCommit ==
  ASSUME FileInv, NEW r \in Requests, Commit(r), req[r].op = "interest"
  PROVE  FileInv'
PROOF
<1> DEFINE mine == SamePlace(req[r].arg)
           n == Len(interest) + 1
           row(earlier) == [place |-> req[r].arg, primary |-> req[r].primary,
                            saw |-> req[r].saw, follows |-> earlier, gone |-> FALSE]
           cleared == [i \in DOMAIN interest |->
                         IF i \in mine THEN row(DOMAIN interest \ {i})
                         ELSE [interest[i] EXCEPT !.primary = @ /\ i \notin req[r].locks,
                                                  !.follows = @ \ mine]]
           new == IF req[r].adds THEN {n} ELSE {}
<1>1. /\ req[r] \in RequestRow /\ Known(req[r]) /\ req[r].at = "commit"
      /\ req' \in [Requests -> RequestRow]
      /\ req'[r] = Idle
      /\ \A q \in Requests \ {r} : req'[q] = req[q]
      /\ lead' \in LeadRows
  BY CommitFrame
<1>2. assigned' = assigned /\ followup' = followup
      /\ interest' = IF req[r].adds THEN Append(cleared, row(DOMAIN interest)) ELSE cleared
  BY DEF Commit, InterestAfter
<1>3. interest \in Seq(InterestRow) /\ DOMAIN interest = 1..Len(interest) /\ Len(interest) \in Nat
  BY DEF FileInv, Typed
<1>4. \A e \in Rows : /\ row(e) \in InterestRow
                       /\ row(e).saw = req[r].saw /\ row(e).place = req[r].arg
                       /\ row(e).follows = e /\ ~row(e).gone
  BY <1>1 DEF InterestRow, RequestRow
<1>21. /\ row(DOMAIN interest) \in InterestRow
       /\ \A i : LET e == DOMAIN interest \ {i}
                IN /\ row(e) \in InterestRow
                   /\ row(e).saw = req[r].saw /\ row(e).place = req[r].arg
                   /\ row(e).follows = e /\ ~row(e).gone
  <2>1. DOMAIN interest \in Rows /\ \A i : DOMAIN interest \ {i} \in Rows
    BY <1>3 DEF Rows
  <2> HIDE DEF row
  <2> QED BY <2>1, <1>4
<1>5. mine \subseteq Kept /\ Kept \subseteq DOMAIN interest
      /\ \A i \in Kept : i \in mine <=> req[r].arg # NoPlace /\ interest[i].place = req[r].arg
      /\ (req[r].adds => mine = {})
  BY <1>1 DEF SamePlace, Kept, Known
<1>6. \A p, q \in mine : p = q
  BY <1>5 DEF FileInv, PlaceUnique
<1> HIDE DEF row, mine
<1>7. \A i \in DOMAIN interest : interest[i] \in InterestRow
  BY <1>3
<1>8. /\ cleared \in [DOMAIN interest -> InterestRow]
      /\ \A i \in mine : cleared[i] = row(DOMAIN interest \ {i})
      /\ \A i \in DOMAIN interest \ mine :
           /\ cleared[i].saw = interest[i].saw
           /\ cleared[i].follows = interest[i].follows \ mine
           /\ cleared[i].place = interest[i].place
           /\ cleared[i].gone <=> interest[i].gone
           /\ cleared[i].primary <=> interest[i].primary /\ i \notin req[r].locks
  <2>1. \A i \in DOMAIN interest \ mine :
          cleared[i] = [interest[i] EXCEPT !.primary = @ /\ i \notin req[r].locks,
                                           !.follows = @ \ mine]
    OBVIOUS
  <2>2. \A i \in mine : cleared[i] = row(DOMAIN interest \ {i})
    BY <1>5
  <2>4. cleared = [i \in DOMAIN interest |-> cleared[i]]
    OBVIOUS
  <2> HIDE DEF cleared
  <2>3. \A i \in DOMAIN interest \ mine :
           /\ cleared[i] \in InterestRow
           /\ cleared[i].saw = interest[i].saw
           /\ cleared[i].follows = interest[i].follows \ mine
           /\ cleared[i].place = interest[i].place
           /\ cleared[i].gone <=> interest[i].gone
           /\ cleared[i].primary <=> interest[i].primary /\ i \notin req[r].locks
    <3> SUFFICES ASSUME NEW i \in DOMAIN interest \ mine
                 PROVE  /\ cleared[i] \in InterestRow
                        /\ cleared[i].saw = interest[i].saw
                        /\ cleared[i].follows = interest[i].follows \ mine
                        /\ cleared[i].place = interest[i].place
                        /\ cleared[i].gone <=> interest[i].gone
                        /\ cleared[i].primary <=> interest[i].primary /\ i \notin req[r].locks
      OBVIOUS
    <3>1. interest[i] \in InterestRow
      BY <1>7
    <3> DEFINE b == i \notin req[r].locks
               c == Unmarked(interest[i], b, mine)
    <3>2. cleared[i] = c
      BY <2>1 DEF Unmarked
    <3> HIDE DEF b
    <3>3. b \in BOOLEAN
      BY DEF b
    <3>4. /\ c \in InterestRow
          /\ c.place = interest[i].place
          /\ c.saw = interest[i].saw
          /\ c.follows = interest[i].follows \ mine
          /\ c.gone <=> interest[i].gone
          /\ c.primary <=> interest[i].primary /\ b
      <4> DEFINE a == interest[i]
      <4>1. a \in InterestRow
        BY <3>1
      <4> HIDE DEF a
      <4>2. /\ Unmarked(a, b, mine) \in InterestRow
            /\ Unmarked(a, b, mine).place = a.place
            /\ Unmarked(a, b, mine).saw = a.saw
            /\ Unmarked(a, b, mine).follows = a.follows \ mine
            /\ Unmarked(a, b, mine).gone <=> a.gone
            /\ Unmarked(a, b, mine).primary <=> a.primary /\ b
        BY <4>1, <3>3, ClearedInterest
      <4> QED BY <4>2 DEF a
    <3> HIDE DEF c
    <3> QED BY <3>2, <3>4, Zenon DEF b
  <2>5. \A i \in DOMAIN interest : cleared[i] \in InterestRow
    <3>1. \A i \in mine : cleared[i] \in InterestRow
      BY <2>2, <1>21, Zenon
    <3> QED BY <2>3, <3>1
  <2> QED BY <2>2, <2>3, <2>4, <2>5
<1>9. cleared \in Seq(InterestRow) /\ Len(cleared) = Len(interest)
      /\ DOMAIN cleared = DOMAIN interest
  BY <1>3, <1>8, Mapped
<1> HIDE DEF cleared
<1>10. /\ interest' \in Seq(InterestRow)
       /\ DOMAIN interest' = DOMAIN interest \cup new
       /\ new \cap DOMAIN interest = {}
       /\ \A i \in DOMAIN interest : interest'[i] = cleared[i]
       /\ \A i \in new : interest'[i] = row(DOMAIN interest)
       /\ \A p, q \in new : p = q
       /\ (new # {} => req[r].adds)
  BY <1>2, <1>3, <1>4, <1>9, <1>21
<1>11. new = {} \/ mine = {}
  BY <1>5
<1> HIDE DEF n, new
<1> DEFINE wrote == mine \cup new
<1>22. \A i \in wrote : interest'[i] = row(DOMAIN interest \ {i})
  <2>1. \A i \in new : DOMAIN interest = DOMAIN interest \ {i}
    BY <1>10
  <2> QED BY <2>1, <1>5, <1>8, <1>10
<1>12. /\ \A i \in wrote : /\ interest'[i].saw = req[r].saw /\ interest'[i].place = req[r].arg
                            /\ interest'[i].follows = DOMAIN interest \ {i}
                            /\ ~interest'[i].gone
       /\ \A i \in DOMAIN interest' \ wrote :
            /\ i \in DOMAIN interest
            /\ interest'[i].saw = interest[i].saw
            /\ interest'[i].follows = interest[i].follows \ mine
            /\ interest'[i].place = interest[i].place
            /\ interest'[i].gone <=> interest[i].gone
            /\ interest'[i].primary <=> interest[i].primary /\ i \notin req[r].locks
       /\ \A p, q \in wrote : p = q
       /\ wrote \subseteq DOMAIN interest'
  <2>1. \A i \in wrote : /\ interest'[i].saw = req[r].saw /\ interest'[i].place = req[r].arg
                          /\ interest'[i].follows = DOMAIN interest \ {i}
                          /\ ~interest'[i].gone
    BY <1>21, <1>22
  <2> QED BY <2>1, <1>5, <1>6, <1>8, <1>10, <1>11
<1>13. Kept' = Kept \cup wrote
  <2>1. \A i \in wrote : i \in Kept'
    BY <1>4, <1>12 DEF Kept
  <2>2. \A i \in DOMAIN interest' \ wrote : i \in Kept' <=> i \in Kept
    BY <1>12 DEF Kept
  <2>3. Kept' \subseteq DOMAIN interest' /\ Kept \subseteq DOMAIN interest'
    BY <1>10 DEF Kept
  <2> QED BY <2>1, <2>2, <2>3
<1>14. Typed'
  BY <1>1, <1>2, <1>10 DEF Typed, FileInv
<1>15. req[r].arg # NoPlace => \A i \in Kept \ wrote : interest[i].place # req[r].arg
  BY <1>5
<1> HIDE DEF wrote
<1>16. PlaceUnique'
  <2> SUFFICES ASSUME NEW p \in Kept', NEW q \in Kept', p # q,
                      interest'[p].place = interest'[q].place
               PROVE  interest'[p].place = NoPlace
    BY DEF PlaceUnique
  <2>0. p \in DOMAIN interest' /\ q \in DOMAIN interest'
    BY DEF Kept
  <2>1. CASE p \in wrote
    <3>1. q \in Kept \ wrote /\ interest'[q].place = interest[q].place
          /\ interest'[p].place = req[r].arg
      BY <1>4, <1>12, <1>13, <2>0, <2>1
    <3> QED BY <3>1, <1>15
  <2>2. CASE q \in wrote
    <3>1. p \in Kept \ wrote /\ interest'[p].place = interest[p].place
          /\ interest'[q].place = req[r].arg
      BY <1>4, <1>12, <1>13, <2>0, <2>2
    <3> QED BY <3>1, <1>15
  <2>3. CASE p \notin wrote /\ q \notin wrote
    BY <1>12, <1>13, <2>0, <2>3 DEF FileInv, PlaceUnique
  <2> QED BY <2>1, <2>2, <2>3
<1>17. req[r].saw \cap Kept \subseteq req[r].locks
  BY <1>1 DEF Known
<1>23. \A p \in Kept' : p \notin wrote => p \in Kept /\ p \in DOMAIN interest /\ p \notin mine
                          /\ p \in DOMAIN interest' \ wrote
  BY <1>13 DEF wrote, Kept
<1>18. PrimaryInterestsRaced'
  <2> SUFFICES ASSUME NEW p \in Kept', NEW q \in Kept', p # q,
                      interest'[p].primary, interest'[q].primary
               PROVE  WroteBlind(p, q)' \/ WroteBlind(q, p)'
    BY DEF PrimaryInterestsRaced
  <2>1. CASE p \in wrote
    <3>1. q \notin wrote /\ q \in Kept /\ q \in DOMAIN interest /\ q \notin req[r].locks
      BY <1>12, <1>23, <2>1
    <3> QED BY <3>1, <1>12, <1>17, <2>1 DEF WroteBlind
  <2>2. CASE q \in wrote
    <3>1. p \notin wrote /\ p \in Kept /\ p \in DOMAIN interest /\ p \notin req[r].locks
      BY <1>12, <1>23, <2>2
    <3> QED BY <3>1, <1>12, <1>17, <2>2 DEF WroteBlind
  <2>3. CASE p \notin wrote /\ q \notin wrote
    <3>1. /\ p \in Kept /\ q \in Kept /\ interest[p].primary /\ interest[q].primary
          /\ interest'[p].saw = interest[p].saw /\ interest'[q].saw = interest[q].saw
          /\ interest'[p].follows = interest[p].follows \ mine
          /\ interest'[q].follows = interest[q].follows \ mine
          /\ p \notin mine /\ q \notin mine
      BY <1>12, <1>23, <2>3
    <3> QED BY <3>1 DEF FileInv, PrimaryInterestsRaced, WroteBlind
  <2> QED BY <2>1, <2>2, <2>3
<1>19. \A q \in Requests \ {r} :
         req[q].op = "interest" /\ req[q].adds => SamePlace(req[q].arg)' = {}
  <2> SUFFICES ASSUME NEW q \in Requests \ {r}, req[q].op = "interest", req[q].adds
               PROVE  SamePlace(req[q].arg)' = {}
    OBVIOUS
  <2>1. SamePlace(req[q].arg) = {} /\ req'[q] = req[q]
    BY <1>1 DEF FileInv, Known
  <2>2. SUFFICES ASSUME NEW i \in Kept', req[q].arg # NoPlace, interest'[i].place = req[q].arg
                 PROVE  FALSE
    BY <2>1 DEF SamePlace
  <2>3. CASE i \notin wrote
    BY <1>12, <1>13, <2>1, <2>2, <2>3 DEF SamePlace, Kept
  <2>4. CASE i \in wrote
    <3>1. req[r].arg = req[q].arg
      BY <1>4, <1>12, <2>2, <2>4
    <3>2. CASE i \in new
      BY <1>10, <2>2, <3>1, <3>2 DEF FileInv, InsertersApart
    <3>3. CASE i \in mine
      BY <2>1, <3>1, <3>3 DEF mine
    <3> QED BY <2>4, <3>2, <3>3 DEF wrote
  <2> QED BY <2>3, <2>4
<1>20. \A i \in DOMAIN interest : i \in Kept' => i \in Kept
  <2>1. new \cap DOMAIN interest = {} /\ mine \subseteq Kept
    BY <1>5, <1>10
  <2> QED BY <2>1, <1>13 DEF wrote
<1> QED BY <1>10, <1>14, <1>16, <1>18, <1>19, <1>20, InterestsKnown

\* A table of follow-ups whose rows are closed, moved, or added: the added row
\* was not seen by the others, and the open ones near to it its writer did not see.
LEMMA FollowUpsKnown ==
  ASSUME FileInv, NEW r \in Requests, Commit(r),
         req[r].op \in {"followup", "reschedule", "cancel"},
         followup' \in Seq(FollowUpRow),
         DOMAIN followup \subseteq DOMAIN followup',
         \A i \in DOMAIN followup :
           /\ followup'[i].saw = followup[i].saw
           /\ i \in Open' /\ ~followup'[i].moved =>
                i \in Open /\ followup'[i].at = followup[i].at /\ ~followup[i].moved,
         \A i, j \in DOMAIN followup' \ DOMAIN followup : i = j,
         \A j \in DOMAIN followup' \ DOMAIN followup :
           /\ followup'[j].saw \subseteq DOMAIN followup
           /\ \A i \in followup'[j].saw \cap Open :
                followup[i].moved \/ ~Near(followup[i].at, followup'[j].at)
  PROVE  FileInv'
PROOF
<1>1. /\ req[r] \in RequestRow /\ Known(req[r]) /\ req[r].at = "commit"
      /\ req' \in [Requests -> RequestRow]
      /\ req'[r] = Idle
      /\ \A q \in Requests \ {r} : req'[q] = req[q]
      /\ InsertersApart'
      /\ lead' \in LeadRows
      /\ req[r].op # "assign" /\ lead'.byDesk => lead.byDesk /\ lead'.assignee = lead.assignee
  BY CommitFrame
<1>2. assigned' = assigned /\ interest' = interest
  BY DEF Commit
<1>3. Typed'
  BY <1>1, <1>2 DEF Typed, FileInv
<1>4. \A q \in Requests : Known(req[q])'
  <2> SUFFICES ASSUME NEW q \in Requests PROVE Known(req[q])'
    OBVIOUS
  <2>1. CASE q = r
    BY <2>1, <1>1, IdleKnown DEF Known, Idle
  <2>2. CASE q # r
    <3>1. Known(req[q]) /\ req'[q] = req[q]
      BY <2>2, <1>1 DEF FileInv
    <3>2. req[q].op = "followup" =>
            /\ req[q].saw \subseteq DOMAIN followup'
            /\ req[q].at = "insert" \/ req[q].adds =>
                 \A i \in req[q].saw \cap Open' :
                   followup'[i].moved \/ ~Near(followup'[i].at, req[q].arg)
      <4> SUFFICES ASSUME req[q].op = "followup"
                   PROVE  /\ req[q].saw \subseteq DOMAIN followup'
                          /\ req[q].at = "insert" \/ req[q].adds =>
                               \A i \in req[q].saw \cap Open' :
                                 followup'[i].moved \/ ~Near(followup'[i].at, req[q].arg)
        OBVIOUS
      <4>1. req[q].saw \subseteq DOMAIN followup
        BY <3>1 DEF Known
      <4>2. ASSUME req[q].at = "insert" \/ req[q].adds, NEW i \in req[q].saw \cap Open',
                   ~followup'[i].moved
            PROVE  ~Near(followup'[i].at, req[q].arg)
        BY <3>1, <4>1, <4>2, Zenon DEF Known
      <4> QED BY <4>1, <4>2
    <3> QED BY <3>1, <3>2, <1>2 DEF Known, Primaries, Kept, SamePlace
  <2> QED BY <2>1, <2>2
<1>5. PlaceUnique'
  BY <1>2 DEF FileInv, PlaceUnique, Kept
<1>6. RowsSaw'
  BY <1>2 DEF FileInv, RowsSaw
<1>7. PrimariesRaced' /\ PrimaryInterestsRaced'
  BY <1>2 DEF FileInv, PrimariesRaced, PrimaryInterestsRaced, WroteBlind, Primaries, Kept
<1>8. AssigneeIsCurrent'
  BY <1>1, <1>2 DEF AssigneeIsCurrent, FileInv, Primaries
<1>9. OpenFollowUpsRaced'
  <2> SUFFICES ASSUME NEW i \in Open', NEW j \in Open', i # j,
                      Near(followup'[i].at, followup'[j].at),
                      ~followup'[i].moved, ~followup'[j].moved
               PROVE  i \notin followup'[j].saw
    <3>1. \A a, b : Near(a, b) <=> Near(b, a)
      BY DEF Near
    <3> QED BY <3>1, Zenon DEF OpenFollowUpsRaced
  <2>0. i \in DOMAIN followup' /\ j \in DOMAIN followup'
    BY DEF Open
  <2>1. CASE i \notin DOMAIN followup
    <3>1. j \in DOMAIN followup
      BY <2>0, <2>1
    <3>2. followup'[j].saw \subseteq DOMAIN followup
      BY <3>1 DEF FileInv, RowsSaw
    <3> QED BY <2>1, <3>2
  <2>2. CASE i \in DOMAIN followup /\ j \notin DOMAIN followup
    <3>1. i \in Open /\ followup'[i].at = followup[i].at /\ ~followup[i].moved
      BY <2>2
    <3> QED BY <2>0, <2>2, <3>1
  <2>3. CASE i \in DOMAIN followup /\ j \in DOMAIN followup
    <3>1. /\ i \in Open /\ followup'[i].at = followup[i].at /\ ~followup[i].moved
          /\ j \in Open /\ followup'[j].at = followup[j].at /\ ~followup[j].moved
          /\ followup'[j].saw = followup[j].saw
      BY <2>3
    <3> QED BY <3>1 DEF FileInv, OpenFollowUpsRaced
  <2> QED BY <2>1, <2>2, <2>3
<1> QED BY <1>1, <1>3, <1>4, <1>5, <1>6, <1>7, <1>8, <1>9 DEF FileInv

\* A follow-up that is added had no open one near it among those its request saw.
LEMMA AddedFollowUpCommit ==
  ASSUME FileInv, NEW r \in Requests, Commit(r),
         req[r].op \in {"followup", "reschedule", "cancel"}, req[r].adds
  PROVE  FileInv'
PROOF
<1> DEFINE n == Len(followup) + 1
           row == [at |-> req[r].arg, open |-> TRUE, saw |-> req[r].saw, moved |-> FALSE]
<1>1. req[r] \in RequestRow /\ Known(req[r]) /\ followup \in Seq(FollowUpRow)
  BY DEF FileInv, Typed
<1>2. req[r].op = "followup"
  BY <1>1 DEF Known
<1>3. followup' = Append(followup, row)
  BY <1>2 DEF Commit, FollowUpAfter
<1>4. row \in FollowUpRow /\ row.saw = req[r].saw /\ row.at = req[r].arg
  BY <1>1 DEF FollowUpRow, RequestRow
<1> HIDE DEF row
<1>5. /\ followup' \in Seq(FollowUpRow)
      /\ DOMAIN followup' = DOMAIN followup \cup {n}
      /\ n \notin DOMAIN followup
      /\ followup'[n] = row
      /\ \A i \in DOMAIN followup : followup'[i] = followup[i]
  BY <1>1, <1>3, <1>4
<1> HIDE DEF n
<1>6. \A i \in DOMAIN followup : i \in Open' => i \in Open
  BY <1>5 DEF Open
<1>7. req[r].saw \subseteq DOMAIN followup
      /\ \A i \in req[r].saw \cap Open : followup[i].moved \/ ~Near(followup[i].at, req[r].arg)
  BY <1>1, <1>2 DEF Known
<1>8. DOMAIN followup' \ DOMAIN followup = {n}
  BY <1>5
<1> QED BY <1>4, <1>5, <1>6, <1>7, <1>8, FollowUpsKnown

\* A follow-up's row that is closed, or moved, was written by who wrote it.
LEMMA ClosedFollowUp ==
  ASSUME NEW f \in FollowUpRow
  PROVE  /\ [f EXCEPT !.open = FALSE] \in FollowUpRow
         /\ [f EXCEPT !.open = FALSE].saw = f.saw
         /\ ~[f EXCEPT !.open = FALSE].open
PROOF
<1> DEFINE c == [f EXCEPT !.open = FALSE]
<1>1. c \in FollowUpRow
  BY DEF FollowUpRow
<1>2. c.saw = f.saw
  BY DEF FollowUpRow
<1>3. ~c.open
  BY DEF FollowUpRow
<1> QED BY <1>1, <1>2, <1>3

\* The same of a follow-up that is moved, and opened or not.
LEMMA MovedFollowUp ==
  ASSUME NEW f \in FollowUpRow, NEW t \in Args
  PROVE  /\ [f EXCEPT !.at = t, !.moved = TRUE] \in FollowUpRow
         /\ [f EXCEPT !.at = t, !.moved = TRUE].saw = f.saw
         /\ [f EXCEPT !.at = t, !.moved = TRUE].moved
         /\ [f EXCEPT !.at = t, !.open = TRUE, !.moved = TRUE] \in FollowUpRow
         /\ [f EXCEPT !.at = t, !.open = TRUE, !.moved = TRUE].saw = f.saw
         /\ [f EXCEPT !.at = t, !.open = TRUE, !.moved = TRUE].moved
PROOF
<1> DEFINE c == [f EXCEPT !.at = t, !.moved = TRUE]
           d == [f EXCEPT !.at = t, !.open = TRUE, !.moved = TRUE]
<1>1. c \in FollowUpRow
  BY DEF FollowUpRow
<1>2. c.saw = f.saw
  BY DEF FollowUpRow
<1>3. c.moved
  BY DEF FollowUpRow
<1>4. d \in FollowUpRow
  <2>1. \A o, m \in BOOLEAN : [f EXCEPT !.at = t, !.open = o, !.moved = m] \in FollowUpRow
    BY DEF FollowUpRow
  <2> QED BY <2>1, Zenon
<1>5. d.saw = f.saw
  BY DEF FollowUpRow
<1>6. d.moved
  BY DEF FollowUpRow
<1> QED BY <1>1, <1>2, <1>3, <1>4, <1>5, <1>6

\* Moving or cancelling a follow-up brings no two together that had not moved.
LEMMA MovedFollowUpCommit ==
  ASSUME FileInv, NEW r \in Requests, Commit(r),
         req[r].op \in {"followup", "reschedule", "cancel"}, ~req[r].adds
  PROVE  FileInv'
PROOF
<1> DEFINE row == req[r].row
<1>1. req[r] \in RequestRow /\ req[r].arg \in Args /\ followup \in Seq(FollowUpRow)
      /\ followup \in [DOMAIN followup -> FollowUpRow]
  BY DEF FileInv, Typed, RequestRow
<1>2. \/ followup' = [followup EXCEPT ![row].open = FALSE]
      \/ followup' = [followup EXCEPT ![row].at = req[r].arg, ![row].open = TRUE,
                                      ![row].moved = TRUE]
      \/ followup' = [followup EXCEPT ![row].at = req[r].arg, ![row].moved = TRUE]
  <2>1. followup' = FollowUpAfter(r)
    BY Zenon DEF Commit
  <2>2. CASE req[r].op = "cancel"
    BY <2>1, <2>2 DEF FollowUpAfter
  <2>3. CASE req[r].op = "reschedule"
    BY <2>1, <2>3 DEF FollowUpAfter
  <2>4. CASE req[r].op = "followup"
    BY <2>1, <2>4 DEF FollowUpAfter
  <2> QED BY <2>2, <2>3, <2>4
<1> HIDE DEF row
<1>3. CASE row \in DOMAIN followup
  <2> DEFINE was == followup[row]
             closed == [was EXCEPT !.open = FALSE]
             opened == [was EXCEPT !.at = req[r].arg, !.open = TRUE, !.moved = TRUE]
             moved == [was EXCEPT !.at = req[r].arg, !.moved = TRUE]
  <2>1. was \in FollowUpRow
    BY <1>1, <1>3
  <2>2. DOMAIN followup' = DOMAIN followup
        /\ followup' = [i \in DOMAIN followup |-> followup'[i]]
    BY <1>2
  <2>3. \A i \in DOMAIN followup \ {row} : followup'[i] = followup[i]
    BY <1>2
  <2>4. followup'[row] \in {closed, opened, moved}
    BY <1>1, <1>2, <1>3
  <2> HIDE DEF was
  <2>5. closed \in FollowUpRow /\ closed.saw = was.saw /\ ~closed.open
    BY <2>1, ClosedFollowUp, Zenon
  <2>6. /\ opened \in FollowUpRow /\ opened.saw = was.saw /\ opened.moved
        /\ moved \in FollowUpRow /\ moved.saw = was.saw /\ moved.moved
    BY <1>1, <2>1, MovedFollowUp, Zenon
  <2> HIDE DEF closed, opened, moved
  <2>7. /\ followup'[row] \in FollowUpRow
        /\ followup'[row].saw = followup[row].saw
        /\ followup'[row].open => followup'[row].moved
    BY <2>4, <2>5, <2>6 DEF was
  <2>8. followup' \in [DOMAIN followup -> FollowUpRow]
    BY <1>1, <2>2, <2>3, <2>7
  <2>9. followup' \in Seq(FollowUpRow)
    BY <1>1, <2>8, Mapped
  <2>10. \A i \in DOMAIN followup :
           /\ followup'[i].saw = followup[i].saw
           /\ i \in Open' /\ ~followup'[i].moved =>
                i \in Open /\ followup'[i].at = followup[i].at /\ ~followup[i].moved
    BY <2>3, <2>7 DEF Open
  <2> QED BY <2>2, <2>9, <2>10, FollowUpsKnown
<1>4. CASE row \notin DOMAIN followup
  <2>1. followup' = followup
    BY <1>1, <1>2, <1>4
  <2>2. Open' = Open
    BY <2>1 DEF Open
  <2> QED BY <1>1, <2>1, <2>2, FollowUpsKnown
<1> QED BY <1>3, <1>4

\* An edit or a requirement writes the lead's row alone.
LEMMA EditCommit ==
  ASSUME FileInv, NEW r \in Requests, Commit(r), req[r].op \in {"edit", "require"}
  PROVE  FileInv'
PROOF
<1>1. /\ req' \in [Requests -> RequestRow]
      /\ req'[r] = Idle
      /\ \A q \in Requests \ {r} : req'[q] = req[q]
      /\ InsertersApart'
      /\ lead' \in LeadRows
      /\ lead'.byDesk => lead.byDesk /\ lead'.assignee = lead.assignee
  BY CommitFrame
<1>2. assigned' = assigned /\ interest' = interest /\ followup' = followup
  BY DEF Commit
<1>3. Typed'
  BY <1>1, <1>2 DEF Typed, FileInv
<1>4. \A q \in Requests : Known(req[q])'
  <2> SUFFICES ASSUME NEW q \in Requests PROVE Known(req[q])'
    OBVIOUS
  <2>1. Known(req'[q])
    BY <1>1, IdleKnown DEF FileInv
  <2> QED BY <2>1, <1>2, Zenon DEF Known, Primaries, Kept, Open, SamePlace
<1>5. PlaceUnique' /\ RowsSaw'
  BY <1>2 DEF FileInv, PlaceUnique, RowsSaw, Kept
<1>6. PrimariesRaced' /\ PrimaryInterestsRaced' /\ OpenFollowUpsRaced'
  BY <1>2, Zenon DEF FileInv, PrimariesRaced, PrimaryInterestsRaced, WroteBlind,
                     OpenFollowUpsRaced, Primaries, Kept, Open
<1>7. AssigneeIsCurrent'
  BY <1>1, <1>2 DEF AssigneeIsCurrent, FileInv, Primaries
<1> QED BY <1>1, <1>3, <1>4, <1>5, <1>6, <1>7 DEF FileInv

\* Every commit preserves the invariant.
LEMMA CommitStep == ASSUME FileInv, NEW r \in Requests, Commit(r) PROVE FileInv'
PROOF
<1>1. req[r].op \in Ops
  BY CommitFrame DEF RequestRow
<1> QED BY <1>1, AssignCommit, InterestCommit, DropCommit, AddedFollowUpCommit,
           MovedFollowUpCommit, EditCommit DEF Ops

-----------------------------------------------------------------------------
(* The theorems *)

\* Every reachable state keeps the invariant.
THEOREM FileInvariant == Spec => []FileInv
PROOF
<1>1. Init => FileInv
  <2> SUFFICES ASSUME Init PROVE FileInv
    OBVIOUS
  <2>1. lead \in LeadRows /\ ~lead.byDesk
    BY DEF Init, LeadRows, Args
  <2>2. assigned = <<>> /\ interest = <<>> /\ followup = <<>>
        /\ req = [r \in Requests |-> Idle]
    BY DEF Init
  <2>3. Primaries = {} /\ Kept = {} /\ Open = {}
    BY <2>2 DEF Primaries, Kept, Open
  <2>4. Typed
    BY <2>1, <2>2, IdleKnown DEF Typed
  <2>5. \A r \in Requests : Known(req[r]) /\ ~req[r].adds
    BY <2>2, IdleKnown
  <2> QED BY <2>1, <2>2, <2>3, <2>4, <2>5
          DEF FileInv, InsertersApart, PlaceUnique, RowsSaw, PrimariesRaced, PrimaryInterestsRaced, AssigneeIsCurrent,
              OpenFollowUpsRaced
<1>2. FileInv /\ [Next]_vars => FileInv'
  <2> SUFFICES ASSUME FileInv, [Next]_vars PROVE FileInv'
    OBVIOUS
  <2>1. ASSUME NEW r \in Requests, FileInv,
               \/ Scan(r) \/ Clear(r) \/ AddAssignment(r) \/ Upsert(r) \/ Compare(r) \/ Pick(r)
               \/ AddFollowUp(r) \/ Move(r) \/ StopJobs(r) \/ TouchLead(r)
               \/ Commit(r) \/ Fail(r)
        PROVE  FileInv'
    BY <2>1, ScanStep, ClearStep, AddAssignmentStep, UpsertStep, CompareStep, PickStep,
       AddFollowUpStep, MoveStep, StopJobsStep, TouchLeadStep, CommitStep, FailStep, Zenon
  <2>2. ASSUME UNCHANGED <<lead, assigned, interest, followup, req>> PROVE FileInv'
    <3> USE <2>2
    <3>1. Typed'
      BY DEF FileInv, Typed
    <3>2. (\A r \in Requests : Known(req[r]))'
      BY Zenon DEF FileInv, Known, Primaries, Kept, Open, SamePlace
    <3>3. InsertersApart' /\ PlaceUnique' /\ RowsSaw'
      BY Zenon DEF FileInv, InsertersApart, PlaceUnique, RowsSaw, Kept
    <3>4. PrimariesRaced' /\ PrimaryInterestsRaced' /\ AssigneeIsCurrent' /\ OpenFollowUpsRaced'
      BY Zenon DEF FileInv, PrimariesRaced, PrimaryInterestsRaced, WroteBlind,
                   AssigneeIsCurrent, OpenFollowUpsRaced, Primaries,
                   Kept, Open
    <3> QED BY <3>1, <3>2, <3>3, <3>4 DEF FileInv
  <2>3. ASSUME NEW j \in Jobs, QueueJob(j) \/ StartJob(j) \/ RetryJob(j) PROVE FileInv'
    BY <2>2, <2>3 DEF QueueJob, StartJob, RetryJob, LeadKept
  <2>4. ASSUME NEW b \in BOOLEAN, SetDoNotCall(b) PROVE FileInv'
    BY <2>2, <2>4 DEF SetDoNotCall, LeadKept
  <2>5. CASE CreateTask
    BY <2>2, <2>5 DEF CreateTask, LeadKept
  <2>6. ASSUME NEW s \in {"pending", "completed", "cancelled"}, EditTask(s) PROVE FileInv'
    BY <2>2, <2>6 DEF EditTask, LeadKept
  <2>7. ASSUME NEW u \in Staff, CompleteTask(u) PROVE FileInv'
    BY <2>2, <2>7 DEF CompleteTask, LeadKept
  <2>8. CASE UNCHANGED vars
    BY <2>2, <2>8 DEF vars
  <2> QED BY <2>1, <2>3, <2>4, <2>5, <2>6, <2>7, <2>8, BeginsStep, Zenon DEF Next
<1> QED BY <1>1, <1>2, PTL DEF Spec

\* Two primary assignments come only from requests that could not see each other
\* (assign_lead).
THEOREM PrimariesOnlyRace == Spec => []PrimariesRaced
PROOF
<1>1. FileInv => PrimariesRaced
  BY DEF FileInv
<1> QED BY <1>1, FileInvariant, PTL

\* Of two primary interests the one written last was written by a request that
\* could not see the other (add_property_interest).
THEOREM InterestsOnlyRace == Spec => []PrimaryInterestsRaced
PROOF
<1>1. FileInv => PrimaryInterestsRaced
  BY DEF FileInv
<1> QED BY <1>1, FileInvariant, PTL

\* The agent an assignment put on the lead has a primary assignment, whatever
\* races and fails (assign_lead).
THEOREM AssigneeCurrent == Spec => []AssigneeIsCurrent
PROOF
<1>1. FileInv => AssigneeIsCurrent
  BY DEF FileInv
<1> QED BY <1>1, FileInvariant, PTL

\* Two open follow-ups at nearly the same time, that nobody moved, come only from
\* requests that could not see each other (create_lead_follow_up).
THEOREM FollowUpsOnlyRace == Spec => []OpenFollowUpsRaced
PROOF
<1>1. FileInv => OpenFollowUpsRaced
  BY DEF FileInv
<1> QED BY <1>1, FileInvariant, PTL
=============================================================================
