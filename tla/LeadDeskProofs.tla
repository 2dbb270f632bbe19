---------------------------- MODULE LeadDeskProofs ----------------------------
(***************************************************************************)
(* Theorems about LeadDesk for any number of requests, agents, times and   *)
(* keys.                                                                   *)
(***************************************************************************)
EXTENDS LeadDesk, FiniteSetTheorems, SequenceTheorems, TLAPS

USE DEF None

\* What a request past its first step has found to exist.
Legal(q) ==
  /\ q.step \in {"booked", "moved"} => q.id \in Visits /\ q.row \in VisitRow
  /\ q.step = "cancelling" => q.id \in Visits
  /\ q.step \in {"requested", "accepting", "rung"} => q.id \in Handoffs
  /\ q.step \in {"accepting", "rung"} => q.user \in Users

\* The exclusion constraint, over committed and pending versions: a pending
\* version clashes with no other pending one, and with no committed row but the
\* one it replaces.
CommittedApart == \A v, w \in Visits : v # w => ~Clash(visit[v], visit[w])
PendingApart ==
  \A r \in Requests : Writing(r) =>
    /\ \A w \in Visits \ {req[r].id} : ~Clash(req[r].row, visit[w])
    /\ \A q \in Requests \ {r} : Writing(q) => ~Clash(req[r].row, req[q].row)

\* A hand-over being inserted is not there yet, and nobody else inserts it.
InsertedOnce ==
  \A r \in Requests : req[r].step = "requested" =>
    /\ handoff[req[r].id].status = "absent"
    /\ \A q \in Requests \ {r} : req[q].step = "requested" => req[q].id # req[r].id

DeskInv ==
  /\ TypeOK
  /\ \A r \in Requests : Legal(req[r])
  /\ CommittedApart
  /\ PendingApart
  /\ AnswerMatchesEffect
  /\ InsertedOnce

-----------------------------------------------------------------------------
(* Lemmas about rows *)

\* Clashing is symmetric.
LEMMA ClashSymmetric ==
  ASSUME NEW a, NEW b, Clash(a, b)
  PROVE  Clash(b, a)
  BY DEF Clash, Overlap

\* A visit that is cancelled, or not there, clashes with nothing.
LEMMA InactiveClear ==
  ASSUME NEW a, NEW b, ~Active(a)
  PROVE  ~Clash(a, b) /\ ~Clash(b, a)
  BY DEF Clash

\* Visits that do not clash share no moment of an agent's time.
LEMMA ApartNotOccupied ==
  ASSUME TypeOK, NEW v \in Visits, NEW w \in Visits, ~Clash(visit[v], visit[w])
  PROVE  Occupied(v) \cap Occupied(w) = {}
<1> SUFFICES ASSUME NEW e \in Occupied(v), e \in Occupied(w) PROVE FALSE
  OBVIOUS
<1>1. /\ Active(visit[v]) /\ visit[v].agent # None
      /\ e \in {visit[v].agent} \X (visit[v].at .. visit[v].at + visit[v].len - 1)
  BY DEF Occupied
<1>2. /\ Active(visit[w]) /\ visit[w].agent # None
      /\ e \in {visit[w].agent} \X (visit[w].at .. visit[w].at + visit[w].len - 1)
  BY DEF Occupied
<1>3. /\ visit[v].at \in Nat /\ visit[v].len \in Nat
      /\ visit[w].at \in Nat /\ visit[w].len \in Nat
  BY <1>1, <1>2, DeskAssumption DEF TypeOK, VisitRow, Active
<1>4. visit[v].agent = visit[w].agent
  BY <1>1, <1>2
<1>5. PICK t \in visit[v].at .. visit[v].at + visit[v].len - 1 :
        t \in visit[w].at .. visit[w].at + visit[w].len - 1
  BY <1>1, <1>2
<1>6. Overlap(visit[v], visit[w])
  BY <1>3, <1>5 DEF Overlap
<1> QED
  BY <1>1, <1>2, <1>4, <1>6 DEF Clash

\* An idle request is well typed and has found nothing.
LEMMA IdleFacts == Idle \in ReqRow /\ Legal(Idle) /\ Idle.step = "idle"
  BY DEF Idle, ReqRow, Legal, NoKey, NoVisit

\* Ids are numbers.
LEMMA IdsAreNumbers == Visits \subseteq Nat \ {0} /\ Handoffs \subseteq Nat \ {0}
  BY DeskAssumption DEF Visits, Handoffs

-----------------------------------------------------------------------------
(* Preservation, by what a step may change *)

\* One request moves on without writing a row: the tables stay, but for what
\* the telephone provider saw.
LEMMA RequestMoves ==
  ASSUME DeskInv, NEW r \in Requests, NEW new \in ReqRow, Legal(new),
         new.step \notin {"booked", "moved", "requested"},
         req' = [req EXCEPT ![r] = new],
         UNCHANGED <<visit, handoff, answer, made>>,
         rung' \in [Handoffs -> Seq(BOOLEAN)], connected' \in [Handoffs -> SUBSET Users]
  PROVE  DeskInv'
<1> USE DEF DeskInv
<1>1. TypeOK'
  BY DEF TypeOK
<1>2. req' \in [Requests -> ReqRow] /\ req'[r] = new /\ \A q \in Requests \ {r} : req'[q] = req[q]
  BY DEF TypeOK
<1>3. \A q \in Requests : Legal(req'[q])
  BY <1>2
<1>4. CommittedApart'
  BY DEF CommittedApart
<1>5. PendingApart'
  BY <1>2 DEF PendingApart, Writing
<1>6. AnswerMatchesEffect'
  BY DEF AnswerMatchesEffect
<1>7. InsertedOnce'
  BY <1>2 DEF InsertedOnce
<1> QED
  BY <1>1, <1>3, <1>4, <1>5, <1>6, <1>7

\* A request writes a version of a visit the constraint lets through.
LEMMA RequestWrites ==
  ASSUME DeskInv, NEW r \in Requests, NEW new \in ReqRow, Legal(new),
         new.step \in {"booked", "moved"}, ~Writing(r),
         SlotFree(new.id, new.row),
         req' = [req EXCEPT ![r] = new],
         UNCHANGED <<visit, handoff, answer, made, rung, connected>>
  PROVE  DeskInv'
<1> USE DEF DeskInv
<1>1. TypeOK'
  BY DEF TypeOK
<1>2. req'[r] = new /\ \A q \in Requests \ {r} : req'[q] = req[q]
  BY DEF TypeOK
<1>3. \A q \in Requests : Legal(req'[q])
  BY <1>2
<1>4. CommittedApart'
  BY DEF CommittedApart
<1>5. PendingApart'
  <2> SUFFICES ASSUME NEW q \in Requests, Writing(q)'
               PROVE  /\ \A w \in Visits \ {req'[q].id} : ~Clash(req'[q].row, visit[w])
                      /\ \A p \in Requests \ {q} : Writing(p)' => ~Clash(req'[q].row, req'[p].row)
    BY DEF PendingApart
  <2>1. CASE q = r
    <3>1. \A w \in Visits \ {new.id} : ~Clash(new.row, visit[w])
      BY DEF SlotFree
    <3>2. \A p \in Requests \ {r} : Writing(p)' => Writing(p) /\ req'[p] = req[p]
      BY <1>2 DEF Writing
    <3>3. \A p \in Requests \ {r} : Writing(p)' => ~Clash(new.row, req'[p].row)
      BY <3>2 DEF SlotFree
    <3> QED
      BY <2>1, <1>2, <3>1, <3>3
  <2>2. CASE q # r
    <3>1. req'[q] = req[q] /\ Writing(q)
      BY <1>2, <2>2 DEF Writing
    <3>2. \A w \in Visits \ {req[q].id} : ~Clash(req[q].row, visit[w])
      BY <3>1 DEF PendingApart
    <3>3. \A p \in Requests \ {q} : Writing(p)' => ~Clash(req[q].row, req'[p].row)
      <4> SUFFICES ASSUME NEW p \in Requests \ {q}, Writing(p)'
                   PROVE  ~Clash(req[q].row, req'[p].row)
        OBVIOUS
      <4>1. CASE p = r
        <5>1. ~Clash(new.row, req[q].row)
          BY <3>1 DEF SlotFree
        <5> QED
          BY <4>1, <5>1, <1>2, ClashSymmetric
      <4>2. CASE p # r
        <5>1. Writing(p) /\ req'[p] = req[p]
          BY <1>2, <4>2 DEF Writing
        <5> QED
          BY <3>1, <5>1 DEF PendingApart
      <4> QED
        BY <4>1, <4>2
    <3> QED
      BY <3>1, <3>2, <3>3
  <2> QED
    BY <2>1, <2>2
<1>6. AnswerMatchesEffect'
  BY DEF AnswerMatchesEffect
<1>7. InsertedOnce'
  BY <1>2 DEF InsertedOnce
<1> QED
  BY <1>1, <1>3, <1>4, <1>5, <1>6, <1>7

\* The pending version of a visit replaces the committed one.
LEMMA VersionCommitted ==
  ASSUME DeskInv, NEW r \in Requests, Writing(r),
         visit' = [visit EXCEPT ![req[r].id] = req[r].row],
         req' = [req EXCEPT ![r] = Idle]
  PROVE  CommittedApart' /\ PendingApart' /\ visit' \in [Visits -> VisitRow \cup {NoVisit}]
<1> USE DEF DeskInv
<1>1. req[r].id \in Visits /\ req[r].row \in VisitRow
  BY DEF Legal, Writing
<1> DEFINE id == req[r].id
           row == req[r].row
<1>2. /\ visit' \in [Visits -> VisitRow \cup {NoVisit}]
      /\ visit'[id] = row /\ \A w \in Visits \ {id} : visit'[w] = visit[w]
  BY <1>1 DEF TypeOK
<1>3. /\ req'[r] = Idle /\ \A q \in Requests \ {r} : req'[q] = req[q]
  BY DEF TypeOK
<1>4. \A w \in Visits \ {id} : ~Clash(row, visit[w]) /\ ~Clash(visit[w], row)
  BY ClashSymmetric DEF PendingApart
<1>5. CommittedApart'
  BY <1>2, <1>4 DEF CommittedApart
<1>6. PendingApart'
  <2> SUFFICES ASSUME NEW q \in Requests, Writing(q)'
               PROVE  /\ \A w \in Visits \ {req'[q].id} : ~Clash(req'[q].row, visit'[w])
                      /\ \A p \in Requests \ {q} : Writing(p)' => ~Clash(req'[q].row, req'[p].row)
    BY DEF PendingApart
  <2>1. q # r /\ req'[q] = req[q] /\ Writing(q)
    BY <1>3, IdleFacts DEF Writing
  <2>2. ~Clash(req[q].row, row)
    BY <2>1 DEF PendingApart
  <2>3. \A w \in Visits \ {req[q].id} : ~Clash(req[q].row, visit[w])
    BY <2>1 DEF PendingApart
  <2>4. \A p \in Requests \ {q} : Writing(p)' => Writing(p) /\ req'[p] = req[p]
    BY <1>3, IdleFacts DEF Writing
  <2>5. \A p \in Requests \ {q} : Writing(p)' => ~Clash(req[q].row, req'[p].row)
    BY <2>1, <2>4 DEF PendingApart
  <2> QED
    BY <2>1, <2>2, <2>3, <2>5, <1>2
<1> QED
  BY <1>2, <1>5, <1>6

\* The stored responses and the rows made move together.
LEMMA AnswerCommitted ==
  ASSUME DeskInv, NEW r \in Requests, req[r].id # None, Commit(r)
  PROVE  /\ AnswerMatchesEffect'
         /\ answer' \in [Operations -> Nat] /\ made' \in [Operations -> SUBSET Nat]
<1> USE DEF DeskInv
<1>1. req[r].id \in Nat
  BY DEF TypeOK, ReqRow
<1>2. answer' \in [Operations -> Nat] /\ made' \in [Operations -> SUBSET Nat]
  BY <1>1 DEF Commit, TypeOK
<1>3. ASSUME NEW o \in Operations
      PROVE  IF answer'[o] = None THEN made'[o] = {} ELSE answer'[o] \in made'[o]
  <2>1. IF answer[o] = None THEN made[o] = {} ELSE answer[o] \in made[o]
    BY DEF AnswerMatchesEffect
  <2>2. CASE o = req[r].op
    BY <2>1, <2>2 DEF Commit, Scope
  <2>3. CASE o # req[r].op
    BY <2>1, <2>3 DEF Commit, Scope
  <2> QED
    BY <2>2, <2>3
<1> QED
  BY <1>2, <1>3 DEF AnswerMatchesEffect

-----------------------------------------------------------------------------
(* The invariant *)

\* Nothing exists at first.
LEMMA DeskInit == Init => DeskInv
<1> SUFFICES ASSUME Init PROVE DeskInv
  OBVIOUS
<1>1. TypeOK
  BY IdleFacts DEF Init, TypeOK, HandoffRow
<1>2. \A r \in Requests : req[r] = Idle
  BY DEF Init
<1>3. \A v \in Visits : ~Active(visit[v])
  BY DEF Init, Active
<1>4. CommittedApart
  BY <1>3, InactiveClear DEF CommittedApart
<1>5. PendingApart /\ InsertedOnce
  BY <1>2, IdleFacts DEF PendingApart, InsertedOnce, Writing
<1>6. AnswerMatchesEffect
  BY DEF Init, AnswerMatchesEffect
<1> QED
  BY <1>1, <1>2, <1>4, <1>5, <1>6, IdleFacts DEF DeskInv

\* A step of a visit request keeps it.
LEMMA DeskVisitStep ==
  ASSUME DeskInv, NEW r \in Requests, VisitStep(r)
  PROVE  DeskInv'
<1> USE DEF DeskInv
<1>0. req[r] \in ReqRow /\ rung \in [Handoffs -> Seq(BOOLEAN)]
      /\ connected \in [Handoffs -> SUBSET Users]
  BY DEF TypeOK
<1>1. CASE Schedule(r)
  <2>1. PICK o \in (Keys \X {"schedule_site_visit"}) \cup {NoKey} : Call(r, o, "scheduling")
    BY <1>1 DEF Schedule
  <2>2. o \in Operations \cup {NoKey}
    BY DEF Operations, Tools
  <2> DEFINE new == [Idle EXCEPT !.step = "scheduling", !.op = o]
  <2>3. new \in ReqRow /\ Legal(new) /\ new.step = "scheduling"
    BY <2>2 DEF Idle, ReqRow, Legal, NoVisit
  <2> QED
    BY <1>0, <2>1, <2>3, RequestMoves DEF Call
<1>2. CASE BookCommit(r)
  <2>1. Writing(r) /\ req[r].id \in Visits /\ req[r].id # None
    BY <1>2 DEF BookCommit, Writing, Legal, Visits
  <2>2. CommittedApart' /\ PendingApart' /\ visit' \in [Visits -> VisitRow \cup {NoVisit}]
    BY <1>2, <2>1, VersionCommitted DEF BookCommit, Commit
  <2>3. /\ AnswerMatchesEffect'
        /\ answer' \in [Operations -> Nat] /\ made' \in [Operations -> SUBSET Nat]
    BY <1>2, <2>1, AnswerCommitted DEF BookCommit
  <2>4. req' = [req EXCEPT ![r] = Idle] /\ UNCHANGED <<handoff, rung, connected>>
    BY <1>2 DEF BookCommit, Commit
  <2>5. req' \in [Requests -> ReqRow] /\ \A q \in Requests : req'[q] = req[q] \/ req'[q] = Idle
    BY <2>4, IdleFacts DEF TypeOK
  <2>6. InsertedOnce'
    BY <2>4, <2>5, IdleFacts DEF InsertedOnce
  <2> QED
    BY <2>2, <2>3, <2>4, <2>5, <2>6, IdleFacts DEF TypeOK
<1>3. CASE MoveCommit(r)
  <2>1. Writing(r)
    BY <1>3 DEF MoveCommit, Writing
  <2>2. CommittedApart' /\ PendingApart' /\ visit' \in [Visits -> VisitRow \cup {NoVisit}]
    BY <1>3, <2>1, VersionCommitted DEF MoveCommit
  <2>4. req' = [req EXCEPT ![r] = Idle] /\ UNCHANGED <<handoff, answer, made, rung, connected>>
    BY <1>3 DEF MoveCommit
  <2>5. req' \in [Requests -> ReqRow] /\ \A q \in Requests : req'[q] = req[q] \/ req'[q] = Idle
    BY <2>4, IdleFacts DEF TypeOK
  <2>6. InsertedOnce' /\ AnswerMatchesEffect'
    BY <2>4, <2>5, IdleFacts DEF InsertedOnce, AnswerMatchesEffect
  <2> QED
    BY <2>2, <2>4, <2>5, <2>6, IdleFacts DEF TypeOK
<1>4. CASE CancelWrite(r)
  <2> DEFINE v == req[r].id
  <2>1. v \in Visits /\ visit[v] \in VisitRow
    BY <1>4 DEF CancelWrite, Cancellable, Legal, TypeOK
  <2>2. /\ visit'[v] \in VisitRow /\ ~Active(visit'[v])
        /\ \A w \in Visits \ {v} : visit'[w] = visit[w]
        /\ visit' \in [Visits -> VisitRow \cup {NoVisit}]
    BY <1>4, <2>1 DEF CancelWrite, CancelledRow, TypeOK, VisitRow, VisitStatuses, Active
  <2>4. req' = [req EXCEPT ![r] = Idle] /\ UNCHANGED <<handoff, answer, made, rung, connected>>
    BY <1>4 DEF CancelWrite
  <2>5. req' \in [Requests -> ReqRow] /\ \A q \in Requests : req'[q] = req[q] \/ req'[q] = Idle
    BY <2>4, IdleFacts DEF TypeOK
  <2>6. InsertedOnce' /\ AnswerMatchesEffect'
    BY <2>4, <2>5, IdleFacts DEF InsertedOnce, AnswerMatchesEffect
  <2>7. CommittedApart'
    BY <2>2, InactiveClear DEF CommittedApart
  <2>8. PendingApart'
    <3>1. \A q \in Requests : Writing(q)' => Writing(q) /\ req'[q] = req[q]
      BY <2>5, IdleFacts DEF Writing
    <3>2. \A q \in Requests : Writing(q) =>
            \A w \in Visits \ {req[q].id} : ~Clash(req[q].row, visit'[w])
      BY <2>2, InactiveClear DEF PendingApart
    <3> QED
      BY <3>1, <3>2 DEF PendingApart
  <2> QED
    BY <2>2, <2>4, <2>5, <2>6, <2>7, <2>8, IdleFacts DEF TypeOK
<1>5. ASSUME NEW v \in Visits, CancelRead(r, v) PROVE DeskInv'
  <2> DEFINE new == [Idle EXCEPT !.step = "cancelling", !.id = v]
  <2>1. new \in ReqRow /\ Legal(new) /\ new.step = "cancelling"
    BY IdsAreNumbers DEF Idle, ReqRow, Legal, NoVisit, NoKey
  <2> QED
    BY <1>0, <1>5, <2>1, RequestMoves DEF CancelRead
<1>6. ASSUME NEW v \in Visits, NEW agent \in Agents \cup {None}, NEW at \in Times,
             NEW len \in Lengths, Book(r, v, agent, at, len)
      PROVE  DeskInv'
  <2> DEFINE row == NewVisit(agent, at, len)
             new == [req[r] EXCEPT !.step = "booked", !.id = v, !.row = row]
  <2>1. row \in VisitRow
    BY DEF NewVisit, VisitRow, VisitStatuses
  <2>2. new \in ReqRow /\ new.step = "booked" /\ new.id = v /\ new.row = row
    BY <1>0, <2>1, IdsAreNumbers DEF ReqRow
  <2>3. Legal(new)
    BY <2>1, <2>2 DEF Legal
  <2>4. ~Writing(r) /\ SlotFree(new.id, new.row)
    BY <1>6, <2>2 DEF Book, Writing
  <2>5. /\ req' = [req EXCEPT ![r] = new]
        /\ UNCHANGED <<visit, handoff, answer, made, rung, connected>>
    BY <1>6, <1>0 DEF Book, TypeOK, ReqRow
  <2> HIDE DEF new
  <2> QED
    BY <2>2, <2>3, <2>4, <2>5, RequestWrites
<1>7. ASSUME NEW v \in Visits, NEW agent \in Agents \cup {None}, NEW at \in Times,
             NEW len \in Lengths, NEW status \in NewStatuses,
             Move(r, v, agent, at, len, status)
      PROVE  DeskInv'
  <2> DEFINE row == [visit[v] EXCEPT !.status = status, !.agent = agent, !.at = at, !.len = len]
             new == [Idle EXCEPT !.step = "moved", !.id = v, !.row = row]
  <2>1. row \in VisitRow
    BY <1>7, StatusAssumption DEF Move, TypeOK, VisitRow
  <2>2. new \in ReqRow /\ new.step = "moved" /\ new.id = v /\ new.row = row
    BY <2>1, IdsAreNumbers DEF Idle, ReqRow, NoKey
  <2>3. Legal(new)
    BY <2>1, <2>2 DEF Legal
  <2>4. ~Writing(r) /\ SlotFree(new.id, new.row)
    BY <1>7, <2>2, IdleFacts DEF Move, Writing
  <2>5. /\ req' = [req EXCEPT ![r] = new]
        /\ UNCHANGED <<visit, handoff, answer, made, rung, connected>>
    BY <1>7 DEF Move
  <2> HIDE DEF new
  <2> QED
    BY <2>2, <2>3, <2>4, <2>5, RequestWrites
<1> QED
  BY <1>1, <1>2, <1>3, <1>4, <1>5, <1>6, <1>7 DEF VisitStep

\* A step of a hand-over request keeps it.
LEMMA DeskHandoffStep ==
  ASSUME DeskInv, NEW r \in Requests, HandoffStep(r)
  PROVE  DeskInv'
<1> USE DEF DeskInv
<1>0. /\ req[r] \in ReqRow /\ Legal(req[r])
      /\ rung \in [Handoffs -> Seq(BOOLEAN)] /\ connected \in [Handoffs -> SUBSET Users]
  BY DEF TypeOK
<1>1. CASE Transfer(r)
  <2>1. PICK o \in (Keys \X {"request_sales_agent_transfer"}) \cup {NoKey} :
          Call(r, o, "transferring")
    BY <1>1 DEF Transfer
  <2>2. o \in Operations \cup {NoKey}
    BY DEF Operations, Tools
  <2> DEFINE new == [Idle EXCEPT !.step = "transferring", !.op = o]
  <2>3. new \in ReqRow /\ Legal(new) /\ new.step = "transferring"
    BY <2>2 DEF Idle, ReqRow, Legal, NoVisit
  <2> QED
    BY <1>0, <2>1, <2>3, RequestMoves DEF Call
<1>2. CASE RequestCommit(r)
  <2> DEFINE id == req[r].id
  <2>1. id \in Handoffs /\ id # None /\ ~Writing(r) /\ req[r].step = "requested"
    BY <1>0, <1>2, IdsAreNumbers DEF RequestCommit, Legal, Writing
  <2>2. /\ AnswerMatchesEffect'
        /\ answer' \in [Operations -> Nat] /\ made' \in [Operations -> SUBSET Nat]
    BY <1>2, <2>1, AnswerCommitted DEF RequestCommit
  <2>3. /\ req' = [req EXCEPT ![r] = Idle] /\ UNCHANGED <<visit, rung, connected>>
        /\ handoff' = [handoff EXCEPT ![id].status = "requested"]
    BY <1>2 DEF RequestCommit, Commit
  <2>4. /\ req' \in [Requests -> ReqRow] /\ req'[r] = Idle
        /\ \A q \in Requests \ {r} : req'[q] = req[q]
    BY <2>3, IdleFacts DEF TypeOK
  <2>5. /\ handoff' \in [Handoffs -> HandoffRow]
        /\ \A h \in Handoffs \ {id} : handoff'[h] = handoff[h]
    BY <2>1, <2>3 DEF TypeOK, HandoffRow
  <2>6. CommittedApart' /\ PendingApart'
    BY <2>3, <2>4, IdleFacts DEF CommittedApart, PendingApart, Writing
  <2>7. InsertedOnce'
    <3> SUFFICES ASSUME NEW q \in Requests, req'[q].step = "requested"
                 PROVE  /\ handoff'[req'[q].id].status = "absent"
                        /\ \A p \in Requests \ {q} :
                             req'[p].step = "requested" => req'[p].id # req'[q].id
      BY DEF InsertedOnce
    <3>1. q # r /\ req'[q] = req[q]
      BY <2>4, IdleFacts
    <3>2. req[q].id \in Handoffs /\ req[q].id # id
      BY <2>1, <3>1 DEF InsertedOnce, Legal
    <3>3. \A p \in Requests : req'[p].step = "requested" => req'[p] = req[p]
      BY <2>4, IdleFacts
    <3> QED
      BY <2>5, <3>1, <3>2, <3>3 DEF InsertedOnce
  <2> QED
    BY <2>2, <2>3, <2>4, <2>5, <2>6, <2>7, IdleFacts DEF TypeOK
<1>3. CASE AcceptWrite(r)
  <2> DEFINE id == req[r].id
  <2>1. id \in Handoffs /\ req[r].user \in Users /\ req[r].step = "rung"
    BY <1>0, <1>3 DEF AcceptWrite, Legal
  <2>2. /\ req' = [req EXCEPT ![r] = Idle]
        /\ UNCHANGED <<visit, answer, made, rung, connected>>
    BY <1>3 DEF AcceptWrite
  <2>3. /\ req' \in [Requests -> ReqRow] /\ req'[r] = Idle
        /\ \A q \in Requests \ {r} : req'[q] = req[q]
    BY <2>2, IdleFacts DEF TypeOK
  <2>4. /\ handoff' \in [Handoffs -> HandoffRow]
        /\ \A h \in Handoffs : handoff[h].status = "absent" => handoff'[h] = handoff[h]
    BY <1>3, <2>1 DEF AcceptWrite, OpenHandoff, TypeOK, HandoffRow
  <2>5. CommittedApart' /\ PendingApart' /\ AnswerMatchesEffect'
    BY <2>2, <2>3, IdleFacts DEF CommittedApart, PendingApart, Writing, AnswerMatchesEffect
  <2>6. InsertedOnce'
    <3>1. \A q \in Requests : req'[q].step = "requested" => req'[q] = req[q]
      BY <2>3, IdleFacts
    <3> QED
      BY <2>4, <3>1 DEF InsertedOnce, Legal
  <2> QED
    BY <2>2, <2>3, <2>4, <2>5, <2>6, IdleFacts DEF TypeOK
<1>4. ASSUME NEW h \in Handoffs, RequestHandoff(r, h) PROVE DeskInv'
  <2> DEFINE new == [req[r] EXCEPT !.step = "requested", !.id = h]
  <2>1. new \in ReqRow /\ new.step = "requested" /\ new.id = h
    BY <1>0, IdsAreNumbers DEF ReqRow
  <2>2. Legal(new)
    BY <2>1 DEF Legal
  <2>3. req' = [req EXCEPT ![r] = new] /\ UNCHANGED <<visit, handoff, answer, made, rung, connected>>
    BY <1>0, <1>4 DEF RequestHandoff, TypeOK, ReqRow
  <2> HIDE DEF new
  <2>4. /\ req' \in [Requests -> ReqRow] /\ req'[r] = new
        /\ \A q \in Requests \ {r} : req'[q] = req[q]
    BY <2>1, <2>3 DEF TypeOK
  <2>5. TypeOK' /\ (\A q \in Requests : Legal(req'[q])) /\ CommittedApart' /\ AnswerMatchesEffect'
    BY <2>2, <2>3, <2>4 DEF TypeOK, CommittedApart, AnswerMatchesEffect
  <2>6. PendingApart'
    BY <2>1, <2>3, <2>4 DEF PendingApart, Writing
  <2>7. InsertedOnce'
    BY <1>4, <2>1, <2>3, <2>4 DEF InsertedOnce, RequestHandoff, NextHandoff, UnusedHandoff
  <2> QED
    BY <2>5, <2>6, <2>7
<1>5. ASSUME NEW h \in Handoffs, NEW u \in Users, AcceptRead(r, h, u) PROVE DeskInv'
  <2> DEFINE new == [Idle EXCEPT !.step = "accepting", !.id = h, !.user = u]
  <2>1. new \in ReqRow /\ Legal(new) /\ new.step = "accepting"
    BY IdsAreNumbers DEF Idle, ReqRow, Legal, NoVisit, NoKey
  <2> QED
    BY <1>0, <1>5, <2>1, RequestMoves DEF AcceptRead
<1>6. ASSUME NEW sent \in BOOLEAN, Ring(r, sent) \/ RingFails(r, sent) PROVE DeskInv'
  <2> DEFINE h == req[r].id
             u == req[r].user
             new == [req[r] EXCEPT !.step = "rung"]
  <2>1. req[r].step = "accepting" /\ h \in Handoffs /\ u \in Users
    BY <1>0, <1>6 DEF Ring, RingFails, Legal
  <2>2. new \in ReqRow /\ Legal(new) /\ new.step = "rung"
    BY <1>0, <2>1 DEF ReqRow, Legal
  <2>3. rung[h] \in Seq(BOOLEAN) /\ Append(rung[h], handoff[h].status = "accepted") \in Seq(BOOLEAN)
    BY <1>0, <2>1
  <2>4. rung' \in [Handoffs -> Seq(BOOLEAN)] /\ connected' \in [Handoffs -> SUBSET Users]
    <3>1. /\ rung' = [rung EXCEPT ![h] = Append(rung[h], handoff[h].status = "accepted")]
          /\ connected' = [connected EXCEPT ![h] = connected[h] \cup {u}] \/ connected' = connected
      BY <1>6 DEF Ring, RingFails
    <3>2. rung' \in [Handoffs -> Seq(BOOLEAN)]
      BY <1>0, <2>3, <3>1
    <3>3. connected[h] \cup {u} \in SUBSET Users
      BY <1>0, <2>1
    <3>4. connected' \in [Handoffs -> SUBSET Users]
      BY <1>0, <3>1, <3>3
    <3> QED
      BY <3>2, <3>4
  <2>5. UNCHANGED <<visit, handoff, answer, made>>
    BY <1>6 DEF Ring, RingFails
  <2>6. req' = [req EXCEPT ![r] = new] \/ req' = [req EXCEPT ![r] = Idle]
    BY <1>0, <1>6 DEF Ring, RingFails, TypeOK, ReqRow
  <2> HIDE DEF new
  <2> QED
    BY <2>2, <2>4, <2>5, <2>6, IdleFacts, RequestMoves
<1> QED
  BY <1>1, <1>2, <1>3, <1>4, <1>5, <1>6 DEF HandoffStep

\* Every step keeps the invariant.
LEMMA DeskStep == DeskInv /\ [Next]_vars => DeskInv'
<1> SUFFICES ASSUME DeskInv, [Next]_vars PROVE DeskInv'
  OBVIOUS
<1>1. ASSUME NEW r \in Requests, Abort(r) PROVE DeskInv'
  BY <1>1, IdleFacts, RequestMoves DEF Abort, DeskInv, TypeOK
<1>2. CASE UNCHANGED vars
  BY <1>2 DEF vars, DeskInv, TypeOK, CommittedApart, PendingApart, Writing,
              AnswerMatchesEffect, InsertedOnce
<1> QED
  BY <1>1, <1>2, DeskVisitStep, DeskHandoffStep DEF Next

\* The invariant holds in every behaviour.
THEOREM DeskInvariant == Spec => []DeskInv
<1>1. Init => DeskInv
  BY DeskInit
<1>2. DeskInv /\ [Next]_vars => DeskInv'
  BY DeskStep
<1> QED
  BY <1>1, <1>2, PTL DEF Spec

-----------------------------------------------------------------------------
(* What the runs check *)

\* Every variable keeps its type.
THEOREM DeskTyped == Spec => []TypeOK
<1>1. DeskInv => TypeOK
  BY DEF DeskInv
<1> QED
  BY <1>1, DeskInvariant, PTL

\* The exclusion constraint, checked against committed and pending rows when a
\* row is written, never lets an agent be in two places at once.
THEOREM NobodyDoubleBooked == Spec => []NoDoubleBooking
<1>1. DeskInv => NoDoubleBooking
  BY ApartNotOccupied DEF DeskInv, CommittedApart, NoDoubleBooking
<1> QED
  BY <1>1, DeskInvariant, PTL

\* The row and the stored response commit together, so neither is ever there
\* without the other.
THEOREM AnswersMatch == Spec => []AnswerMatchesEffect
<1>1. DeskInv => AnswerMatchesEffect
  BY DEF DeskInv
<1> QED
  BY <1>1, DeskInvariant, PTL

\* Who accepted a hand-over first stays its assignee: an accept re-checks the
\* status, and the only other write is of a hand-over not there before.
THEOREM FirstAcceptStays == Spec => AssigneeStays
<1>1. ASSUME DeskInv, [Next]_vars, NEW h \in Handoffs, handoff[h].status = "accepted"
      PROVE  handoff'[h] = handoff[h]
  <2>1. handoff \in [Handoffs -> HandoffRow]
    BY <1>1 DEF DeskInv, TypeOK
  <2>2. ASSUME NEW r \in Requests, RequestCommit(r) PROVE handoff'[h] = handoff[h]
    <3>1. req[r].id # h
      BY <1>1, <2>2 DEF DeskInv, InsertedOnce, RequestCommit
    <3> QED
      BY <2>1, <2>2, <3>1 DEF RequestCommit
  <2>3. ASSUME NEW r \in Requests, AcceptWrite(r) PROVE handoff'[h] = handoff[h]
    BY <1>1, <2>1, <2>3 DEF AcceptWrite, OpenHandoff
  <2>4. ASSUME NEW r \in Requests, VisitStep(r) PROVE handoff' = handoff
    BY <2>4, Zenon DEF VisitStep, Schedule, Call, BookCommit, MoveCommit, CancelWrite,
                       CancelRead, Book, Move
  <2>5. ASSUME NEW r \in Requests, HandoffStep(r) PROVE handoff'[h] = handoff[h]
    BY <2>2, <2>3, <2>5, Zenon DEF HandoffStep, Transfer, Call, RequestHandoff, AcceptRead,
                                   Ring, RingFails
  <2> QED
    BY <1>1, <2>4, <2>5 DEF Next, Abort, vars
<1>2. DeskInv /\ [Next]_vars =>
        [\A h \in Handoffs : handoff[h].status = "accepted" => handoff'[h] = handoff[h]]_vars
  BY <1>1
<1> QED
  BY <1>2, DeskInvariant, PTL DEF Spec, AssigneeStays

-----------------------------------------------------------------------------
(* Counting requests *)

\* The calls running under a key; the rows it made and the calls still running
\* fit in the requests there are.
Running(o) == {r \in Requests : req[r].op = o}
KeyCount(o) == IsFiniteSet(made[o])
               /\ Cardinality(made[o]) + Cardinality(Running(o)) <= Cardinality(Requests)
KeysInv == \A o \in Operations : KeyCount(o)

\* The rings of an accepted hand-over, and the requests that may still ring for
\* it, are fewer than the requests: one of them was the one that accepted.
LateOf(rings) == {i \in DOMAIN rings : rings[i]}
Accepting(h) == {r \in Requests : req[r].step = "accepting" /\ req[r].id = h}
RingCount(h) ==
  IF handoff[h].status = "accepted"
    THEN Cardinality(LateOf(rung[h])) + Cardinality(Accepting(h)) < Cardinality(Requests)
    ELSE LateOf(rung[h]) = {}
RingsInv == \A h \in Handoffs : RingCount(h)

\* A pending version of a visit has the stamp of the row it replaces, which its
\* writer's lock keeps as it is; a new visit has none.
Stamped(row) == row.stamped
StampsInv ==
  \A r \in Requests :
    /\ req[r].step = "booked" => ~Stamped(req[r].row)
    /\ req[r].step = "moved" => (Stamped(req[r].row) <=> Stamped(visit[req[r].id]))
    /\ \A q \in Requests \ {r} : Writing(r) /\ Writing(q) => req[r].id # req[q].id

CountInv == DeskInv /\ KeysInv /\ RingsInv /\ StampsInv

-----------------------------------------------------------------------------
(* What a step does to the requests *)

Step(r) == VisitStep(r) \/ HandoffStep(r) \/ Abort(r)

\* A set of requests is finite, and no larger than all of them.
LEMMA RequestsFinite ==
  ASSUME NEW S \in SUBSET Requests
  PROVE  /\ IsFiniteSet(S) /\ Cardinality(S) \in Nat /\ Cardinality(Requests) \in Nat
         /\ Cardinality(S) <= Cardinality(Requests)
  BY RequestAssumption, FS_Subset, FS_CardinalityType

\* A set with one element more.
LEMMA OneMore ==
  ASSUME NEW S, IsFiniteSet(S), NEW e
  PROVE  /\ IsFiniteSet(S \cup {e}) /\ Cardinality(S \cup {e}) \in Nat
         /\ Cardinality(S \cup {e}) <= Cardinality(S) + 1
<1>1. /\ IsFiniteSet(S \cup {e}) /\ Cardinality(S) \in Nat
      /\ Cardinality(S \cup {e}) = IF e \in S THEN Cardinality(S) ELSE Cardinality(S) + 1
  BY FS_AddElement, FS_CardinalityType
<1> QED
  BY <1>1

\* One request moves.
LEMMA OthersStay ==
  ASSUME DeskInv, NEW r \in Requests, Step(r)
  PROVE  \A q \in Requests \ {r} : req'[q] = req[q]
<1>0. req \in [Requests -> ReqRow]
  BY DEF DeskInv, TypeOK
<1>1. CASE Schedule(r) \/ Transfer(r)
  <2>1. \E new : req' = [req EXCEPT ![r] = new]
    BY <1>1, Zenon DEF Schedule, Transfer, Call
  <2> QED
    BY <1>0, <2>1
<1>2. CASE BookCommit(r) \/ RequestCommit(r)
  BY <1>0, <1>2 DEF BookCommit, RequestCommit, Commit
<1>3. CASE MoveCommit(r) \/ CancelWrite(r) \/ AcceptWrite(r) \/ Abort(r)
  BY <1>0, <1>3 DEF MoveCommit, CancelWrite, AcceptWrite, Abort
<1>4. ASSUME NEW v \in Visits, CancelRead(r, v)
      PROVE  \A q \in Requests \ {r} : req'[q] = req[q]
  BY <1>0, <1>4 DEF CancelRead
<1>5. ASSUME NEW v \in Visits, NEW agent \in Agents \cup {None}, NEW at \in Times,
             NEW len \in Lengths, Book(r, v, agent, at, len)
      PROVE  \A q \in Requests \ {r} : req'[q] = req[q]
  BY <1>0, <1>5 DEF Book
<1>6. ASSUME NEW v \in Visits, NEW agent \in Agents \cup {None}, NEW at \in Times,
             NEW len \in Lengths, NEW status \in NewStatuses, Move(r, v, agent, at, len, status)
      PROVE  \A q \in Requests \ {r} : req'[q] = req[q]
  BY <1>0, <1>6 DEF Move
<1>7. ASSUME NEW h \in Handoffs, RequestHandoff(r, h)
      PROVE  \A q \in Requests \ {r} : req'[q] = req[q]
  BY <1>0, <1>7 DEF RequestHandoff
<1>8. ASSUME NEW h \in Handoffs, NEW u \in Users, AcceptRead(r, h, u)
      PROVE  \A q \in Requests \ {r} : req'[q] = req[q]
  BY <1>0, <1>8 DEF AcceptRead
<1>9. ASSUME NEW sent \in BOOLEAN, Ring(r, sent) \/ RingFails(r, sent)
      PROVE  \A q \in Requests \ {r} : req'[q] = req[q]
  BY <1>0, <1>9 DEF Ring, RingFails
<1> QED
  BY <1>1, <1>2, <1>3, <1>4, <1>5, <1>6, <1>7, <1>8, <1>9 DEF Step, VisitStep, HandoffStep

-----------------------------------------------------------------------------
(* Only calls that looked before the first commit make another row *)

KeyCall(r) == \E o \in Operations : /\ req[r] = Idle /\ answer[o] = None /\ req'[r].op = o
                                    /\ UNCHANGED made

\* A step begins a call under a key, commits one, or leaves the keys alone.
LEMMA KeySteps ==
  ASSUME DeskInv, NEW r \in Requests, Step(r)
  PROVE  \/ UNCHANGED made /\ req'[r].op \in {req[r].op, NoKey}
         \/ KeyCall(r)
         \/ Commit(r)
<1>0. req \in [Requests -> ReqRow] /\ req[r] \in ReqRow
  BY DEF DeskInv, TypeOK
<1>1. Idle.op = NoKey
  BY DEF Idle
<1>2. ASSUME NEW o \in Operations \cup {NoKey}, NEW step, Call(r, o, step)
      PROVE  UNCHANGED made /\ (req'[r].op \in {req[r].op, NoKey} \/ KeyCall(r))
  <2>1. req'[r] = [Idle EXCEPT !.step = step, !.op = o] /\ UNCHANGED made /\ req[r] = Idle
    BY <1>0, <1>2 DEF Call
  <2>2. req'[r].op = o
    BY <2>1 DEF Idle
  <2>3. CASE o = NoKey
    BY <2>1, <2>2, <2>3
  <2>4. CASE o # NoKey
    <3>1. o \in Operations /\ answer[o] = None
      BY <1>2, <2>4 DEF Call, Unanswered
    <3> QED
      BY <2>1, <2>2, <3>1 DEF KeyCall
  <2> QED
    BY <2>3, <2>4
<1>3. CASE Schedule(r) \/ Transfer(r)
  <2>1. PICK o \in Operations \cup {NoKey}, step \in {"scheduling", "transferring"} :
          Call(r, o, step)
    BY <1>3 DEF Schedule, Transfer, Operations, Tools
  <2> QED
    BY <1>2, <2>1
<1>4. CASE BookCommit(r) \/ RequestCommit(r)
  BY <1>4 DEF BookCommit, RequestCommit
<1>5. CASE MoveCommit(r) \/ CancelWrite(r) \/ AcceptWrite(r) \/ Abort(r)
  <2>1. UNCHANGED made /\ req' = [req EXCEPT ![r] = Idle]
    BY <1>5 DEF MoveCommit, CancelWrite, AcceptWrite, Abort
  <2> QED
    BY <1>0, <1>1, <2>1
<1> DEFINE Kept == UNCHANGED made /\ req'[r].op \in {req[r].op, NoKey}
<1>6. ASSUME NEW v \in Visits, CancelRead(r, v) PROVE Kept
  BY <1>0, <1>6 DEF CancelRead, Idle
<1>7. ASSUME NEW v \in Visits, NEW agent \in Agents \cup {None}, NEW at \in Times,
             NEW len \in Lengths, Book(r, v, agent, at, len)
      PROVE  Kept
  BY <1>0, <1>7 DEF Book, ReqRow
<1>8. ASSUME NEW v \in Visits, NEW agent \in Agents \cup {None}, NEW at \in Times,
             NEW len \in Lengths, NEW status \in NewStatuses, Move(r, v, agent, at, len, status)
      PROVE  Kept
  BY <1>0, <1>8 DEF Move, Idle
<1>9. ASSUME NEW h \in Handoffs, RequestHandoff(r, h) PROVE Kept
  BY <1>0, <1>9 DEF RequestHandoff, ReqRow
<1>10. ASSUME NEW h \in Handoffs, NEW u \in Users, AcceptRead(r, h, u) PROVE Kept
  BY <1>0, <1>10 DEF AcceptRead, Idle
<1>11. CASE \E sent \in BOOLEAN : Ring(r, sent)
  BY <1>0, <1>11 DEF Ring, ReqRow
<1>12. CASE \E sent \in BOOLEAN : RingFails(r, sent)
  BY <1>0, <1>1, <1>12 DEF RingFails
<1> QED
  BY <1>3, <1>4, <1>5, <1>6, <1>7, <1>8, <1>9, <1>10, <1>11, <1>12
     DEF Step, VisitStep, HandoffStep

\* Every step keeps the count.
LEMMA KeyStep ==
  ASSUME DeskInv, KeysInv, NEW r \in Requests, Step(r)
  PROVE  KeysInv'
<1>0. /\ req \in [Requests -> ReqRow] /\ made \in [Operations -> SUBSET Nat]
      /\ Idle.op = NoKey /\ NoKey \notin Operations
  BY DEF DeskInv, TypeOK, Idle, NoKey, Operations, Tools
<1>1. \A q \in Requests \ {r} : req'[q] = req[q]
  BY OthersStay
<1> SUFFICES ASSUME NEW o \in Operations PROVE KeyCount(o)'
  BY DEF KeysInv
<1>2. /\ KeyCount(o) /\ Running(o) \in SUBSET Requests /\ Running(o)' \in SUBSET Requests
  BY DEF KeysInv, Running
<1>3. /\ IsFiniteSet(made[o]) /\ Cardinality(made[o]) \in Nat
      /\ Cardinality(made[o]) + Cardinality(Running(o)) <= Cardinality(Requests)
      /\ Cardinality(Running(o)) \in Nat /\ Cardinality(Running(o)') \in Nat
      /\ Cardinality(Requests) \in Nat /\ Cardinality(Running(o)') <= Cardinality(Requests)
  BY <1>2, RequestsFinite, FS_CardinalityType DEF KeyCount
<1>4. ASSUME UNCHANGED made, Running(o)' \in SUBSET Running(o) PROVE KeyCount(o)'
  <2>1. Cardinality(Running(o)') <= Cardinality(Running(o))
    BY <1>2, <1>4, RequestsFinite, FS_Subset
  <2>2. Cardinality(made'[o]) + Cardinality(Running(o)') <= Cardinality(Requests)
    BY <1>3, <1>4, <2>1
  <2> QED
    BY <1>3, <1>4, <2>2 DEF KeyCount
<1>5. CASE UNCHANGED made /\ req'[r].op \in {req[r].op, NoKey}
  <2>1. Running(o)' \in SUBSET Running(o)
    BY <1>0, <1>1, <1>5 DEF Running
  <2> QED
    BY <1>4, <1>5, <2>1
<1>6. CASE KeyCall(r)
  <2>1. PICK p \in Operations : req[r] = Idle /\ answer[p] = None /\ req'[r].op = p /\ UNCHANGED made
    BY <1>6 DEF KeyCall
  <2>2. CASE p = o
    <3>1. made[o] = {}
      BY <2>1, <2>2 DEF DeskInv, AnswerMatchesEffect
    <3>2. Cardinality(made'[o]) = 0 /\ IsFiniteSet(made'[o])
      BY <2>1, <3>1, FS_EmptySet
    <3>3. Cardinality(made'[o]) + Cardinality(Running(o)') <= Cardinality(Requests)
      BY <1>3, <3>2
    <3> QED
      BY <3>2, <3>3 DEF KeyCount
  <2>3. CASE p # o
    <3>1. Running(o)' \in SUBSET Running(o)
      BY <1>1, <2>1, <2>3 DEF Running
    <3> QED
      BY <1>4, <2>1, <3>1
  <2> QED
    BY <2>2, <2>3
<1>7. CASE Commit(r)
  <2>1. /\ made'[o] = IF o = req[r].op THEN made[o] \cup {req[r].id} ELSE made[o]
        /\ req'[r] = Idle
    BY <1>0, <1>7 DEF Commit
  <2>2. CASE o = req[r].op
    <3>1. r \in Running(o) /\ Running(o)' = Running(o) \ {r}
      BY <1>0, <1>1, <2>1, <2>2 DEF Running
    <3>2. Cardinality(Running(o)') = Cardinality(Running(o)) - 1
      BY <1>2, <3>1, RequestsFinite, FS_RemoveElement
    <3>3. /\ IsFiniteSet(made'[o]) /\ Cardinality(made'[o]) \in Nat
          /\ Cardinality(made'[o]) <= Cardinality(made[o]) + 1
      <4>1. made'[o] = made[o] \cup {req[r].id}
        BY <2>1, <2>2
      <4> QED
        BY <1>3, <4>1, OneMore
    <3>4. Cardinality(made'[o]) + Cardinality(Running(o)') <= Cardinality(Requests)
      BY <1>3, <3>2, <3>3
    <3> QED
      BY <3>3, <3>4 DEF KeyCount
  <2>3. CASE o # req[r].op
    <3>1. Running(o)' \in SUBSET Running(o)
      BY <1>0, <1>1, <2>1 DEF Running
    <3>2. Cardinality(Running(o)') <= Cardinality(Running(o))
      BY <1>2, <3>1, RequestsFinite, FS_Subset
    <3>3. made'[o] = made[o]
      BY <2>1, <2>3
    <3>4. Cardinality(made'[o]) + Cardinality(Running(o)') <= Cardinality(Requests)
      BY <1>3, <3>2, <3>3
    <3> QED
      BY <1>3, <3>3, <3>4 DEF KeyCount
  <2> QED
    BY <2>2, <2>3
<1> QED
  BY <1>5, <1>6, <1>7, KeySteps

-----------------------------------------------------------------------------
(* Nobody starts to ring for an accepted hand-over *)

Rings1(r) ==
  LET h == req[r].id IN
  /\ req[r].step = "accepting" /\ req'[r].step # "accepting"
  /\ rung' = [rung EXCEPT ![h] = Append(@, handoff[h].status = "accepted")]
  /\ UNCHANGED handoff

\* A step rings, starts or ends an accept, inserts a hand-over, or does not
\* touch hand-overs.
LEMMA RingSteps ==
  ASSUME DeskInv, NEW r \in Requests, Step(r)
  PROVE  \/ UNCHANGED <<handoff, rung>> /\ req'[r].step # "accepting"
         \/ \E h \in Handoffs, u \in Users : AcceptRead(r, h, u)
         \/ Rings1(r)
         \/ AcceptWrite(r)
         \/ RequestCommit(r)
<1>0. req \in [Requests -> ReqRow] /\ req[r] \in ReqRow /\ Idle.step = "idle"
  BY DEF DeskInv, TypeOK, Idle
<1> DEFINE Aside == UNCHANGED <<handoff, rung>> /\ req'[r].step # "accepting"
<1>1. ASSUME NEW o, NEW step \in {"scheduling", "transferring"}, Call(r, o, step) PROVE Aside
  BY <1>0, <1>1 DEF Call, Idle
<1>2. CASE Schedule(r) \/ Transfer(r)
  <2>1. PICK o \in Operations \cup {NoKey}, step \in {"scheduling", "transferring"} :
          Call(r, o, step)
    BY <1>2 DEF Schedule, Transfer, Operations, Tools
  <2> QED
    BY <1>1, <2>1
<1>3. CASE BookCommit(r)
  BY <1>0, <1>3 DEF BookCommit, Commit
<1>4. CASE MoveCommit(r) \/ CancelWrite(r) \/ Abort(r)
  <2>1. UNCHANGED <<handoff, rung>> /\ req' = [req EXCEPT ![r] = Idle]
    BY <1>4 DEF MoveCommit, CancelWrite, Abort
  <2> QED
    BY <1>0, <2>1
<1>5. ASSUME NEW v \in Visits, CancelRead(r, v) PROVE Aside
  BY <1>0, <1>5 DEF CancelRead, Idle
<1>6. ASSUME NEW v \in Visits, NEW agent \in Agents \cup {None}, NEW at \in Times,
             NEW len \in Lengths, Book(r, v, agent, at, len)
      PROVE  Aside
  BY <1>0, <1>6 DEF Book, ReqRow
<1>7. ASSUME NEW v \in Visits, NEW agent \in Agents \cup {None}, NEW at \in Times,
             NEW len \in Lengths, NEW status \in NewStatuses, Move(r, v, agent, at, len, status)
      PROVE  Aside
  BY <1>0, <1>7 DEF Move, Idle
<1>8. ASSUME NEW h \in Handoffs, RequestHandoff(r, h) PROVE Aside
  BY <1>0, <1>8 DEF RequestHandoff, ReqRow
<1>9. ASSUME NEW sent \in BOOLEAN, Ring(r, sent) PROVE Rings1(r)
  <2>1. req'[r].step = "rung"
    BY <1>0, <1>9 DEF Ring, ReqRow
  <2> QED
    BY <1>9, <2>1 DEF Ring, Rings1
<1>10. ASSUME NEW sent \in BOOLEAN, RingFails(r, sent) PROVE Rings1(r)
  <2>1. req' = [req EXCEPT ![r] = Idle]
    BY <1>10, Zenon DEF RingFails
  <2>2. req'[r].step = "idle"
    BY <1>0, <2>1
  <2>3. /\ req[r].step = "accepting" /\ UNCHANGED handoff
        /\ rung' = [rung EXCEPT ![req[r].id] = Append(@, handoff[req[r].id].status = "accepted")]
    BY <1>10, Zenon DEF RingFails
  <2> QED
    BY <2>2, <2>3 DEF Rings1
<1> QED
  BY <1>2, <1>3, <1>4, <1>5, <1>6, <1>7, <1>8, <1>9, <1>10 DEF Step, VisitStep, HandoffStep

\* Rings are finitely many.
LEMMA LateFinite ==
  ASSUME NEW s \in Seq(BOOLEAN)
  PROVE  IsFiniteSet(LateOf(s)) /\ Cardinality(LateOf(s)) \in Nat
<1>1. Len(s) \in Nat /\ DOMAIN s = 1..Len(s) /\ IsFiniteSet(1..Len(s))
  BY LenProperties, FS_Interval
<1>2. LateOf(s) \in SUBSET (1..Len(s))
  BY <1>1 DEF LateOf
<1> QED
  BY <1>1, <1>2, FS_Subset, FS_CardinalityType

\* What one more ring does to them.
LEMMA LateRing ==
  ASSUME NEW s \in Seq(BOOLEAN), NEW b \in BOOLEAN
  PROVE  /\ LateOf(Append(s, b)) \in SUBSET (LateOf(s) \cup {Len(s) + 1})
         /\ ~b => LateOf(Append(s, b)) = LateOf(s)
<1>1. /\ Len(s) \in Nat /\ DOMAIN s = 1..Len(s) /\ DOMAIN Append(s, b) = 1..(Len(s) + 1)
      /\ Append(s, b)[Len(s) + 1] = b
      /\ \A i \in 1..Len(s) : Append(s, b)[i] = s[i]
  BY AppendProperties, LenProperties
<1>2. 1..(Len(s) + 1) = (1..Len(s)) \cup {Len(s) + 1} /\ Len(s) + 1 \notin 1..Len(s)
  BY <1>1
<1>3. \A i \in DOMAIN Append(s, b) : i \in 1..Len(s) \/ i = Len(s) + 1
  BY <1>1, <1>2
<1>4. ASSUME NEW i \in LateOf(Append(s, b)) PROVE i \in LateOf(s) \/ (i = Len(s) + 1 /\ b)
  <2>1. i \in DOMAIN Append(s, b) /\ Append(s, b)[i]
    BY <1>4, Zenon DEF LateOf
  <2>2. CASE i \in 1..Len(s)
    <3>1. Append(s, b)[i] = s[i] /\ i \in DOMAIN s
      BY <1>1, <2>2, Zenon
    <3> QED
      BY <2>1, <3>1, Zenon DEF LateOf
  <2>3. CASE i = Len(s) + 1
    BY <1>1, <2>1, <2>3, Zenon
  <2> QED
    BY <1>3, <2>1, <2>2, <2>3
<1>5. ASSUME NEW i \in LateOf(s) PROVE i \in LateOf(Append(s, b))
  <2>1. i \in 1..Len(s) /\ s[i]
    BY <1>1, <1>5, Zenon DEF LateOf
  <2>2. i \in DOMAIN Append(s, b) /\ Append(s, b)[i] = s[i]
    BY <1>1, <1>2, <2>1, Zenon
  <2> QED
    BY <2>1, <2>2, Zenon DEF LateOf
<1> QED
  BY <1>4, <1>5

\* Every step keeps the count.
LEMMA RingStep ==
  ASSUME DeskInv, RingsInv, NEW r \in Requests, Step(r)
  PROVE  RingsInv'
<1>0. /\ req \in [Requests -> ReqRow] /\ rung \in [Handoffs -> Seq(BOOLEAN)]
      /\ handoff \in [Handoffs -> HandoffRow]
      /\ Legal(req[r]) /\ Idle.step = "idle"
  BY DEF DeskInv, TypeOK, Idle
<1>1. \A q \in Requests \ {r} : req'[q] = req[q]
  BY OthersStay
<1> SUFFICES ASSUME NEW h \in Handoffs PROVE RingCount(h)'
  BY DEF RingsInv
<1> DEFINE L == LateOf(rung[h])
           A == Accepting(h)
           N == Cardinality(Requests)
<1>2. RingCount(h) /\ A \in SUBSET Requests /\ A' \in SUBSET Requests
  BY DEF RingsInv, Accepting
<1>3. /\ IsFiniteSet(L) /\ Cardinality(L) \in Nat /\ N \in Nat
      /\ IsFiniteSet(A) /\ Cardinality(A) \in Nat /\ Cardinality(A') \in Nat
  BY <1>0, <1>2, LateFinite, RequestsFinite
<1>4. ASSUME UNCHANGED <<handoff, rung>>,
             handoff[h].status = "accepted" => A' \in SUBSET A
      PROVE RingCount(h)'
  <2>1. CASE handoff[h].status = "accepted"
    <3>1. Cardinality(A') <= Cardinality(A)
      BY <1>3, <1>4, <2>1, FS_Subset
    <3>2. Cardinality(L) + Cardinality(A) < N
      BY <1>2, <2>1 DEF RingCount
    <3>3. Cardinality(L) + Cardinality(A') < N
      BY <1>3, <3>1, <3>2
    <3> QED
      BY <1>4, <2>1, <3>3 DEF RingCount
  <2>2. CASE handoff[h].status # "accepted"
    BY <1>2, <1>4, <2>2 DEF RingCount
  <2> QED
    BY <2>1, <2>2
<1>5. CASE UNCHANGED <<handoff, rung>> /\ req'[r].step # "accepting"
  <2>1. A' \in SUBSET A
    BY <1>1, <1>5 DEF Accepting
  <2> QED
    BY <1>4, <1>5, <2>1
<1>6. ASSUME NEW g \in Handoffs, NEW u \in Users, AcceptRead(r, g, u) PROVE RingCount(h)'
  <2>1. /\ UNCHANGED <<handoff, rung>> /\ handoff[g].status = "requested"
        /\ req'[r] = [Idle EXCEPT !.step = "accepting", !.id = g, !.user = u]
    BY <1>0, <1>6 DEF AcceptRead, OpenHandoff
  <2>2. req'[r].id = g
    BY <2>1 DEF Idle
  <2>3. handoff[h].status = "accepted" => A' \in SUBSET A
    BY <1>1, <2>1, <2>2 DEF Accepting
  <2> QED
    BY <1>4, <2>1, <2>3
<1>7. CASE Rings1(r)
  <2>1. PICK g : g = req[r].id
    OBVIOUS
  <2>2. /\ g \in Handoffs /\ UNCHANGED handoff /\ req[r].step = "accepting"
        /\ req'[r].step # "accepting"
        /\ rung'[g] = Append(rung[g], handoff[g].status = "accepted")
        /\ \A k \in Handoffs \ {g} : rung'[k] = rung[k]
    BY <1>0, <1>7, <2>1 DEF Rings1, Legal
  <2>3. CASE h = g
    <3>0. (handoff[h].status = "accepted") \in BOOLEAN
      OBVIOUS
    <3>1. CASE handoff[h].status = "accepted"
      <4>1. r \in A /\ A' = A \ {r}
        BY <1>1, <2>1, <2>2, <2>3 DEF Accepting
      <4>2. Cardinality(A') = Cardinality(A) - 1
        BY <1>3, <4>1, FS_RemoveElement
      <4>3. LateOf(rung'[h]) \in SUBSET (L \cup {Len(rung[h]) + 1})
        BY <1>0, <2>2, <2>3, <3>0, LateRing, Zenon
      <4>4. /\ IsFiniteSet(L \cup {Len(rung[h]) + 1})
            /\ Cardinality(L \cup {Len(rung[h]) + 1}) \in Nat
            /\ Cardinality(L \cup {Len(rung[h]) + 1}) <= Cardinality(L) + 1
        BY <1>3, OneMore
      <4>5. /\ Cardinality(LateOf(rung'[h])) \in Nat
            /\ Cardinality(LateOf(rung'[h])) <= Cardinality(L \cup {Len(rung[h]) + 1})
        BY <4>3, <4>4, FS_Subset, FS_CardinalityType
      <4>6. Cardinality(L) + Cardinality(A) < N
        BY <1>2, <3>1 DEF RingCount
      <4>7. Cardinality(LateOf(rung'[h])) + Cardinality(A') < N
        BY <1>3, <4>2, <4>4, <4>5, <4>6
      <4> QED
        BY <2>2, <3>1, <4>7 DEF RingCount
    <3>2. CASE handoff[h].status # "accepted"
      <4>1. LateOf(rung'[h]) = LateOf(rung[h])
        BY <1>0, <2>2, <2>3, <3>0, <3>2, LateRing, Zenon
      <4> QED
        BY <1>2, <2>2, <3>2, <4>1 DEF RingCount
    <3> QED
      BY <3>1, <3>2
  <2>4. CASE h # g
    <3>1. A' \in SUBSET A
      BY <1>1, <2>1, <2>2, <2>4 DEF Accepting
    <3>2. UNCHANGED handoff /\ rung'[h] = rung[h]
      BY <2>2, <2>4
    <3>3. Cardinality(A') <= Cardinality(A)
      BY <1>3, <3>1, FS_Subset
    <3>4. handoff[h].status = "accepted" => Cardinality(L) + Cardinality(A) < N
      BY <1>2 DEF RingCount
    <3>5. handoff[h].status = "accepted" => Cardinality(L) + Cardinality(A') < N
      BY <1>3, <3>3, <3>4
    <3> QED
      BY <1>2, <3>2, <3>5 DEF RingCount
  <2> QED
    BY <2>3, <2>4
<1>8. CASE AcceptWrite(r)
  <2>1. PICK g : g = req[r].id
    OBVIOUS
  <2>2. /\ g \in Handoffs /\ UNCHANGED rung /\ req[r].step = "rung" /\ req'[r] = Idle
        /\ handoff' = IF handoff[g].status = "requested"
                      THEN [handoff EXCEPT ![g] = [status |-> "accepted", user |-> req[r].user]]
                      ELSE handoff
    BY <1>0, <1>8, <2>1 DEF AcceptWrite, OpenHandoff, Legal
  <2>3. A' \in SUBSET (Requests \ {r}) /\ A' \in SUBSET A
    BY <1>0, <1>1, <2>2 DEF Accepting
  <2>4. CASE h = g /\ handoff[g].status = "requested"
    <3>1. L = {} /\ handoff'[h].status = "accepted"
      BY <1>0, <1>2, <2>2, <2>4 DEF RingCount
    <3>2. Cardinality(L) = 0 /\ Cardinality(A') < N
      <4>1. Cardinality(Requests \ {r}) = N - 1 /\ IsFiniteSet(Requests \ {r})
        BY RequestAssumption, FS_RemoveElement
      <4>2. Cardinality(A') <= Cardinality(Requests \ {r})
        BY <2>3, <4>1, FS_Subset
      <4> QED
        <5>1. Cardinality(L) = 0
          BY <3>1, FS_EmptySet
        <5>2. Cardinality(A') < N
          BY <1>3, <4>1, <4>2
        <5> QED
          BY <5>1, <5>2
    <3>3. Cardinality(L) + Cardinality(A') < N
      BY <1>3, <3>2
    <3> QED
      BY <2>2, <3>1, <3>3 DEF RingCount
  <2>5. CASE ~(h = g /\ handoff[g].status = "requested")
    <3>1. handoff'[h] = handoff[h]
      BY <1>0, <2>2, <2>5
    <3>2. Cardinality(A') <= Cardinality(A)
      BY <1>3, <2>3, FS_Subset
    <3>3. handoff[h].status = "accepted" => Cardinality(L) + Cardinality(A) < N
      BY <1>2 DEF RingCount
    <3>4. handoff[h].status = "accepted" => Cardinality(L) + Cardinality(A') < N
      BY <1>3, <3>2, <3>3
    <3> QED
      BY <1>2, <2>2, <3>1, <3>4 DEF RingCount
  <2> QED
    BY <2>4, <2>5
<1>9. CASE RequestCommit(r)
  <2>1. PICK g : g = req[r].id
    OBVIOUS
  <2>2. /\ g \in Handoffs /\ UNCHANGED rung /\ req'[r] = Idle
        /\ handoff' = [handoff EXCEPT ![g].status = "requested"]
        /\ handoff[g].status = "absent"
    BY <1>0, <1>9, <2>1 DEF RequestCommit, Commit, Legal, DeskInv, InsertedOnce
  <2>3. A' \in SUBSET A
    BY <1>0, <1>1, <2>2 DEF Accepting
  <2>4. handoff'[h].status = "accepted" <=> handoff[h].status = "accepted"
    BY <1>0, <2>2 DEF HandoffRow
  <2>5. Cardinality(A') <= Cardinality(A)
    BY <1>3, <2>3, FS_Subset
  <2>6. handoff[h].status = "accepted" => Cardinality(L) + Cardinality(A) < N
    BY <1>2 DEF RingCount
  <2>7. handoff[h].status = "accepted" => Cardinality(L) + Cardinality(A') < N
    BY <1>3, <2>5, <2>6
  <2> QED
    BY <1>2, <2>2, <2>4, <2>7 DEF RingCount
<1> QED
  BY <1>5, <1>6, <1>7, <1>8, <1>9, RingSteps

-----------------------------------------------------------------------------
(* A stamp is put by a cancellation only *)

\* The steps that write a version of a visit, or commit one.
Writes(r) ==
  \/ \E v \in Visits, agent \in Agents \cup {None}, at \in Times, len \in Lengths :
       \/ Book(r, v, agent, at, len)
       \/ \E status \in NewStatuses : Move(r, v, agent, at, len, status)
  \/ BookCommit(r) \/ MoveCommit(r) \/ CancelWrite(r)

\* Every other step leaves visits alone, and its request writing none.
LEMMA WriteSteps ==
  ASSUME DeskInv, NEW r \in Requests, Step(r)
  PROVE  Writes(r) \/ (UNCHANGED visit /\ ~Writing(r)')
<1>0. req \in [Requests -> ReqRow] /\ req[r] \in ReqRow /\ Idle.step = "idle"
  BY DEF DeskInv, TypeOK, Idle
<1> DEFINE Aside == UNCHANGED visit /\ ~Writing(r)'
<1>1. ASSUME NEW o, NEW step \in {"scheduling", "transferring"}, Call(r, o, step) PROVE Aside
  BY <1>0, <1>1 DEF Call, Idle, Writing
<1>2. CASE Schedule(r) \/ Transfer(r)
  <2>1. PICK o \in Operations \cup {NoKey}, step \in {"scheduling", "transferring"} :
          Call(r, o, step)
    BY <1>2 DEF Schedule, Transfer, Operations, Tools
  <2> QED
    BY <1>1, <2>1
<1>3. CASE RequestCommit(r)
  BY <1>0, <1>3 DEF RequestCommit, Commit, Writing
<1>4. CASE AcceptWrite(r) \/ Abort(r)
  <2>1. UNCHANGED visit /\ req' = [req EXCEPT ![r] = Idle]
    BY <1>4, Zenon DEF AcceptWrite, Abort
  <2> QED
    BY <1>0, <2>1 DEF Writing
<1>5. ASSUME NEW v \in Visits, CancelRead(r, v) PROVE Aside
  BY <1>0, <1>5 DEF CancelRead, Idle, Writing
<1>6. ASSUME NEW h \in Handoffs, RequestHandoff(r, h) PROVE Aside
  BY <1>0, <1>6 DEF RequestHandoff, ReqRow, Writing
<1>7. ASSUME NEW h \in Handoffs, NEW u \in Users, AcceptRead(r, h, u) PROVE Aside
  BY <1>0, <1>7 DEF AcceptRead, Idle, Writing
<1>8. ASSUME NEW sent \in BOOLEAN, Ring(r, sent) PROVE Aside
  BY <1>0, <1>8 DEF Ring, ReqRow, Writing
<1>9. ASSUME NEW sent \in BOOLEAN, RingFails(r, sent) PROVE Aside
  <2>1. UNCHANGED visit /\ req' = [req EXCEPT ![r] = Idle]
    BY <1>9, Zenon DEF RingFails
  <2> QED
    BY <1>0, <2>1 DEF Writing
<1> QED
  BY <1>2, <1>3, <1>4, <1>5, <1>6, <1>7, <1>8, <1>9
     DEF Step, VisitStep, HandoffStep, Writes

\* What each write does.
LEMMA WriteFacts ==
  ASSUME DeskInv, NEW r \in Requests, NEW v, NEW agent \in Agents \cup {None}, NEW at \in Times,
         NEW len \in Lengths
  PROVE  /\ Book(r, v, agent, at, len) =>
              /\ UNCHANGED visit /\ req'[r].step = "booked" /\ req'[r].id = v
              /\ ~Stamped(req'[r].row) /\ ~RowLocked(v)
         /\ v \in Visits => \A status \in NewStatuses : Move(r, v, agent, at, len, status) =>
              /\ UNCHANGED visit /\ req'[r].step = "moved" /\ req'[r].id = v
              /\ (Stamped(req'[r].row) <=> Stamped(visit[v])) /\ ~RowLocked(v)
<1>0. req \in [Requests -> ReqRow] /\ req[r] \in ReqRow /\ visit \in [Visits -> VisitRow \cup {NoVisit}]
  BY DEF DeskInv, TypeOK
<1>1. ASSUME Book(r, v, agent, at, len)
      PROVE  /\ UNCHANGED visit /\ req'[r].step = "booked" /\ req'[r].id = v
             /\ ~Stamped(req'[r].row) /\ ~RowLocked(v)
  <2>1. /\ UNCHANGED visit /\ req'[r].step = "booked" /\ req'[r].id = v
        /\ req'[r].row = NewVisit(agent, at, len)
    BY <1>0, <1>1 DEF Book, ReqRow
  <2>2. NewVisit(agent, at, len).stamped = FALSE
    BY DEF NewVisit
  <2>3. ~RowLocked(v)
    BY <1>1 DEF Book, NextVisit, Unused
  <2>4. Stamped(req'[r].row) = FALSE
    BY <2>1, <2>2 DEF Stamped
  <2> QED
    BY <2>1, <2>3, <2>4
<1>2. ASSUME v \in Visits, NEW status \in NewStatuses, Move(r, v, agent, at, len, status)
      PROVE  /\ UNCHANGED visit /\ req'[r].step = "moved" /\ req'[r].id = v
             /\ (Stamped(req'[r].row) <=> Stamped(visit[v])) /\ ~RowLocked(v)
  <2> DEFINE row == [visit[v] EXCEPT !.status = status, !.agent = agent, !.at = at, !.len = len]
  <2>1. visit[v] \in VisitRow /\ ~RowLocked(v) /\ UNCHANGED visit
    BY <1>0, <1>2 DEF Move
  <2>2. row.stamped = visit[v].stamped
    BY <2>1 DEF VisitRow
  <2>3. req' = [req EXCEPT ![r] = [Idle EXCEPT !.step = "moved", !.id = v, !.row = row]]
    BY <1>2 DEF Move
  <2> HIDE DEF row
  <2>4. req'[r].step = "moved" /\ req'[r].id = v /\ req'[r].row = row
    BY <1>0, <2>3 DEF Idle
  <2>5. Stamped(req'[r].row) = Stamped(visit[v])
    BY <2>2, <2>4 DEF Stamped
  <2> QED
    BY <2>1, <2>4, <2>5, Zenon
<1> QED
  BY <1>1, <1>2

\* A request whose write goes elsewhere, or is none, keeps its stamp.
LEMMA StampKept ==
  ASSUME StampsInv, NEW r \in Requests, \A q \in Requests \ {r} : req'[q] = req[q],
         \A q \in Requests \ {r} : Writing(q) => visit'[req[q].id] = visit[req[q].id],
         \/ ~Writing(r)'
         \/ req'[r].step = "booked" /\ ~Stamped(req'[r].row) /\ ~RowLocked(req'[r].id)
         \/ /\ req'[r].step = "moved" /\ ~RowLocked(req'[r].id)
            /\ (Stamped(req'[r].row) <=> Stamped(visit'[req'[r].id]))
  PROVE  StampsInv'
<1>1. ASSUME NEW q \in Requests
      PROVE  /\ req'[q].step = "booked" => ~Stamped(req'[q].row)
             /\ req'[q].step = "moved" => (Stamped(req'[q].row) <=> Stamped(visit'[req'[q].id]))
  <2>1. CASE q = r
    <3>1. req'[r].step \in {"booked", "moved"} <=> Writing(r)'
      BY DEF Writing
    <3> QED
      BY <2>1, <3>1
  <2>2. CASE q # r
    <3>1. req'[q] = req[q]
      BY <2>2
    <3>2. req[q].step = "moved" => visit'[req[q].id] = visit[req[q].id]
      BY <2>2 DEF Writing
    <3>3. /\ req[q].step = "booked" => ~Stamped(req[q].row)
          /\ req[q].step = "moved" => (Stamped(req[q].row) <=> Stamped(visit[req[q].id]))
      BY DEF StampsInv
    <3> QED
      BY <3>1, <3>2, <3>3
  <2> QED
    BY <2>1, <2>2
<1>2. ASSUME NEW p \in Requests, NEW q \in Requests \ {p}, Writing(p)', Writing(q)'
      PROVE  req'[p].id # req'[q].id
  <2>1. \A s \in Requests \ {r} : (Writing(s)' <=> Writing(s)) /\ req'[s].id = req[s].id
    BY DEF Writing
  <2>2. Writing(r)' => \A s \in Requests : Writing(s) => req[s].id # req'[r].id
    BY DEF RowLocked
  <2>3. \A s \in Requests : \A t \in Requests \ {s} : Writing(s) /\ Writing(t) => req[s].id # req[t].id
    BY DEF StampsInv
  <2>4. CASE p = r
    BY <1>2, <2>1, <2>2, <2>4
  <2>5. CASE q = r
    BY <1>2, <2>1, <2>2, <2>5
  <2>6. CASE p # r /\ q # r
    BY <1>2, <2>1, <2>3, <2>6
  <2> QED
    BY <2>4, <2>5, <2>6
<1> QED
  BY <1>1, <1>2 DEF StampsInv

\* Every step keeps the stamps.
LEMMA StampStep ==
  ASSUME DeskInv, StampsInv, NEW r \in Requests, Step(r)
  PROVE  StampsInv'
<1>0. /\ req \in [Requests -> ReqRow] /\ visit \in [Visits -> VisitRow \cup {NoVisit}]
      /\ Legal(req[r]) /\ Idle.step = "idle"
  BY DEF DeskInv, TypeOK, Idle
<1>1. \A q \in Requests \ {r} : req'[q] = req[q]
  BY OthersStay
<1>2. CASE UNCHANGED visit /\ ~Writing(r)'
  BY <1>1, <1>2, StampKept
<1>3. ASSUME NEW v \in Visits, NEW agent \in Agents \cup {None}, NEW at \in Times,
             NEW len \in Lengths, Book(r, v, agent, at, len)
      PROVE  StampsInv'
  BY <1>1, <1>3, WriteFacts, StampKept
<1>4. ASSUME NEW v \in Visits, NEW agent \in Agents \cup {None}, NEW at \in Times,
             NEW len \in Lengths, NEW status \in NewStatuses, Move(r, v, agent, at, len, status)
      PROVE  StampsInv'
  <2>1. /\ UNCHANGED visit /\ req'[r].step = "moved" /\ req'[r].id = v
        /\ (Stamped(req'[r].row) <=> Stamped(visit[v])) /\ ~RowLocked(v)
    BY <1>4, WriteFacts
  <2> QED
    BY <1>1, <2>1, StampKept
<1>5. ASSUME NEW v, req' = [req EXCEPT ![r] = Idle], \A w \in Visits \ {v} : visit'[w] = visit[w],
             \A q \in Requests \ {r} : Writing(q) => req[q].id # v
      PROVE  StampsInv'
  <2>1. ~Writing(r)'
    BY <1>0, <1>5 DEF Writing
  <2>2. \A q \in Requests \ {r} : Writing(q) => req[q].id \in Visits
    BY DEF DeskInv, Legal, Writing
  <2> QED
    BY <1>1, <1>5, <2>1, <2>2, StampKept
<1>6. CASE BookCommit(r) \/ MoveCommit(r)
  <2>1. /\ req' = [req EXCEPT ![r] = Idle] /\ Writing(r)
        /\ visit' = [visit EXCEPT ![req[r].id] = req[r].row]
    BY <1>6, Zenon DEF BookCommit, MoveCommit, Commit, Writing
  <2>2. \A w \in Visits \ {req[r].id} : visit'[w] = visit[w]
    BY <1>0, <2>1
  <2>3. \A q \in Requests \ {r} : Writing(q) => req[q].id # req[r].id
    BY <2>1 DEF StampsInv
  <2> QED
    BY <1>5, <2>1, <2>2, <2>3
<1>7. CASE CancelWrite(r)
  <2>1. /\ req' = [req EXCEPT ![r] = Idle] /\ ~RowLocked(req[r].id)
        /\ visit' = [visit EXCEPT ![req[r].id] = CancelledRow(@)]
    BY <1>7 DEF CancelWrite
  <2>2. \A w \in Visits \ {req[r].id} : visit'[w] = visit[w]
    BY <1>0, <2>1
  <2>3. \A q \in Requests \ {r} : Writing(q) => req[q].id # req[r].id
    BY <2>1 DEF RowLocked
  <2> QED
    BY <1>5, <2>1, <2>2, <2>3
<1> QED
  BY <1>2, <1>3, <1>4, <1>6, <1>7, WriteSteps DEF Writes

\* A stamp is put on a visit that is neither cancelled nor completed.
LEMMA StampPut ==
  ASSUME DeskInv, StampsInv, NEW r \in Requests, Step(r), NEW v \in Visits,
         visit[v] # NoVisit, ~visit[v].stamped, visit'[v].stamped
  PROVE  visit[v].status \notin {"cancelled", "completed"}
<1>0. /\ req \in [Requests -> ReqRow] /\ visit \in [Visits -> VisitRow \cup {NoVisit}]
  BY DEF DeskInv, TypeOK
<1>1. ~Stamped(visit[v]) /\ Stamped(visit'[v])
  BY DEF Stamped
<1>2. visit' # visit
  BY <1>1
<1>3. CASE BookCommit(r) \/ MoveCommit(r)
  <2>1. /\ visit' = [visit EXCEPT ![req[r].id] = req[r].row]
        /\ req[r].step = "booked" \/ req[r].step = "moved"
    BY <1>3, Zenon DEF BookCommit, MoveCommit
  <2>2. CASE v = req[r].id
    <3>1. visit'[v] = req[r].row
      BY <1>0, <2>1, <2>2
    <3>2. Stamped(req[r].row) => Stamped(visit[v])
      BY <2>1, <2>2 DEF StampsInv
    <3> QED
      BY <1>1, <3>1, <3>2
  <2>3. CASE v # req[r].id
    <3>1. visit'[v] = visit[v]
      BY <1>0, <2>1, <2>3
    <3> QED
      BY <1>1, <3>1
  <2> QED
    BY <2>2, <2>3
<1>4. CASE CancelWrite(r)
  <2>1. Cancellable(req[r].id) /\ visit' = [visit EXCEPT ![req[r].id] = CancelledRow(@)]
    BY <1>4 DEF CancelWrite
  <2>2. v = req[r].id
    <3>1. v # req[r].id => visit'[v] = visit[v]
      BY <1>0, <2>1
    <3> QED
      BY <1>1, <3>1
  <2> QED
    BY <2>1, <2>2 DEF Cancellable
<1>5. ASSUME NEW w \in Visits, NEW agent \in Agents \cup {None}, NEW at \in Times,
             NEW len \in Lengths, \/ Book(r, w, agent, at, len)
                                  \/ \E status \in NewStatuses : Move(r, w, agent, at, len, status)
      PROVE  FALSE
  BY <1>2, <1>5, WriteFacts
<1> QED
  BY <1>2, <1>3, <1>4, <1>5, WriteSteps DEF Writes

-----------------------------------------------------------------------------
(* Theorems about what was counted *)

\* The empty tables count nothing.
LEMMA CountInit == Init => CountInv
<1> SUFFICES ASSUME Init PROVE CountInv
  OBVIOUS
<1>1. DeskInv
  BY DeskInit
<1>2. \A r \in Requests : req[r] = Idle /\ req[r].step = "idle"
  BY IdleFacts DEF Init
<1>3. KeysInv
  <2> SUFFICES ASSUME NEW o \in Operations PROVE KeyCount(o)
    BY DEF KeysInv
  <2>1. made[o] = {} /\ Running(o) \in SUBSET Requests
    BY DEF Init, Running
  <2>2. IsFiniteSet(made[o]) /\ Cardinality(made[o]) = 0
    BY <2>1, FS_EmptySet
  <2> QED
    BY <2>1, <2>2, RequestsFinite DEF KeyCount
<1>4. RingsInv
  BY DEF RingsInv, RingCount, LateOf, Init
<1>5. StampsInv
  BY <1>2 DEF StampsInv, Writing
<1> QED
  BY <1>1, <1>3, <1>4, <1>5 DEF CountInv

\* Every step keeps the counts.
LEMMA CountStep == CountInv /\ [Next]_vars => CountInv'
<1> SUFFICES ASSUME CountInv, [Next]_vars PROVE CountInv'
  OBVIOUS
<1>0. DeskInv /\ KeysInv /\ RingsInv /\ StampsInv /\ DeskInv'
  BY DeskStep DEF CountInv
<1>1. ASSUME NEW r \in Requests, Step(r) PROVE CountInv'
  BY <1>0, <1>1, KeyStep, RingStep, StampStep DEF CountInv
<1>2. CASE UNCHANGED vars
  <2>1. UNCHANGED <<visit, handoff, made, rung, req>>
    BY <1>2 DEF vars
  <2>2. KeysInv'
    BY <1>0, <2>1 DEF KeysInv, KeyCount, Running
  <2>3. RingsInv'
    BY <1>0, <2>1 DEF RingsInv, RingCount, Accepting
  <2>4. StampsInv'
    BY <1>0, <2>1 DEF StampsInv, Writing
  <2> QED
    BY <1>0, <2>2, <2>3, <2>4 DEF CountInv
<1> QED
  BY <1>1, <1>2 DEF Next, Step

\* The counts hold in every behaviour.
THEOREM CountInvariant == Spec => []CountInv
  BY CountInit, CountStep, PTL DEF Spec

\* A key creates at most one row for each call that ran beside the first.
THEOREM KeyRaces == Spec => []KeyRacesOnly
<1>1. CountInv => KeyRacesOnly
  <2> SUFFICES ASSUME CountInv, NEW o \in Operations
               PROVE  Cardinality(made[o]) <= Cardinality(Requests)
    BY DEF KeyRacesOnly
  <2>1. KeyCount(o) /\ Running(o) \in SUBSET Requests
    BY DEF CountInv, KeysInv, Running
  <2>2. Cardinality(made[o]) \in Nat /\ Cardinality(Running(o)) \in Nat /\ Cardinality(Requests) \in Nat
    BY <2>1, RequestsFinite, FS_CardinalityType DEF KeyCount
  <2> QED
    BY <2>1, <2>2 DEF KeyCount
<1> QED
  BY <1>1, CountInvariant, PTL

\* Staff are rung for an accepted hand-over only by requests that were
\* accepting it when it was.
THEOREM LateRings == Spec => []LateRingsBounded
<1>1. CountInv => LateRingsBounded
  <2> SUFFICES ASSUME CountInv, NEW h \in Handoffs
               PROVE  Cardinality(LateOf(rung[h])) < Cardinality(Requests)
    BY DEF LateRingsBounded, LateOf
  <2>1. RingCount(h) /\ rung[h] \in Seq(BOOLEAN) /\ Accepting(h) \in SUBSET Requests
    BY DEF CountInv, RingsInv, DeskInv, TypeOK, Accepting
  <2>2. /\ Cardinality(LateOf(rung[h])) \in Nat /\ Cardinality(Accepting(h)) \in Nat
        /\ Cardinality(Requests) \in Nat
    BY <2>1, LateFinite, RequestsFinite
  <2>3. CASE handoff[h].status = "accepted"
    BY <2>1, <2>2, <2>3 DEF RingCount
  <2>4. CASE handoff[h].status # "accepted"
    <3>1. Cardinality(LateOf(rung[h])) = 0
      BY <2>1, <2>4, FS_EmptySet DEF RingCount
    <3>2. Cardinality(Requests) # 0
      BY RequestAssumption, FS_EmptySet
    <3> QED
      BY <2>2, <3>1, <3>2
  <2> QED
    BY <2>3, <2>4
<1> QED
  BY <1>1, CountInvariant, PTL

\* A cancellation re-checks the row it updates: a visit completed or cancelled
\* meanwhile is not stamped.
THEOREM CompletedSpared == Spec => CancelSparesCompleted
<1>1. CountInv /\ [Next]_vars =>
        [\A v \in Visits :
           /\ visit[v] # NoVisit /\ ~visit[v].stamped /\ visit'[v].stamped
           => visit[v].status \notin {"cancelled", "completed"}]_vars
  BY StampPut DEF CountInv, Next, Step
<1> QED
  BY <1>1, CountInvariant, PTL DEF Spec, CancelSparesCompleted
=============================================================================
