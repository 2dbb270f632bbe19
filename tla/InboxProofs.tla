------------------------------ MODULE InboxProofs ------------------------------
(***************************************************************************)
(* Proofs about Inbox, for any contacts, messages, deliveries and requests: *)
(* no recorded delivery has lost its message, a message is answered once   *)
(* for each handling of it, a newcomer gets one lead, and the AI does not  *)
(* act for someone who wants a person.                                     *)
(*                                                                         *)
(* The states in between are what makes this hard: a request has written a *)
(* message's row and not stored the message, opened a lead of a contact    *)
(* nobody else can see, closed a lead without having committed it.  The    *)
(* invariant says, row by row, what a request still owes.                  *)
(***************************************************************************)
EXTENDS Inbox, FiniteSetTheorems, SequenceTheorems, TLAPS

\* The steps in which a delivery handles its current message, and those before
\* the message is on a lead.
Early == {"resolving", "matching", "storing"}
Late == {"reading", "acting", "replying"}
Handles(r, m) == req[r].kind = "delivery" /\ req[r].step \in Early \cup Late /\ Message(r) = m

\* A lead of c that is committed or r's own.
Belongs(l, c, r) == l \in Leads /\ lead[l].contact = c /\ lead[l].by \in {Saved, r}

\* A request works for the sender of its message, whose row it has written, not
\* answered, and put on a lead of the sender's that it can see.
RequestSound(r) ==
  LET q == req[r]
  IN /\ q.step \in {"recording", "storing"} \cup Late => q.kind = "delivery"
     /\ q.kind = "delivery" /\ q.step # "committing" =>
          q.at \in 1..Len(q.batch) /\ q.contact = From[q.batch[q.at]]
     /\ q.step \in {"resolving", "matching"} => q.contact \in Contacts
     /\ q.step \in {"matching", "storing"} \cup Late => contact[q.contact] \in {Saved, r}
     /\ q.step \in {"storing"} \cup Late => Belongs(q.lead, q.contact, r)
     /\ \A m \in Messages : Handles(r, m) => row[m].by = r /\ outside[m] <= undone[m]

\* A message is on a lead of its sender when the request that wrote it goes on
\* to the next, and has been answered at most once since it was last undone.
MessageSound(m) ==
  /\ row[m].by = Absent => outside[m] <= undone[m]
  /\ outside[m] <= 1 + undone[m]
  /\ row[m].by = Saved => Belongs(row[m].lead, From[m], Saved)
  /\ \A r \in Requests :
       row[m].by = r => \/ Handles(r, m) /\ req[r].step \in Early
                        \/ Belongs(row[m].lead, From[m], r)

\* A lead that is not committed is open and held by nobody else, and its contact is the
\* opener's or committed.
LeadSound(l) ==
  /\ lead[l].by # Absent => lead[l].contact \in Contacts
  /\ \A r \in Requests :
       /\ lead[l].by = r => lead[l].status = "open" /\ contact[lead[l].contact] \in {Saved, r}
       /\ lead[l].holder = r => lead[l].by \in {Saved, r}

\* A contact comes with a lead: the request that wrote it is yet to open or match one,
\* or has; a newcomer's that is committed has a committed one.
ContactSound(c) ==
  /\ contact[c] = Saved /\ c \notin Known => \E l \in Leads : Belongs(l, c, Saved)
  /\ \A r \in Requests :
       contact[c] = r => \/ req[r].step = "matching" /\ req[r].contact = c
                         \/ \E l \in Leads : Belongs(l, c, r)

\* Of two leads that were resolved for a newcomer the later was opened because a lead
\* had been closed, or was about to be by the same request.
Resolved(l, c) == lead[l].by # Absent /\ lead[l].contact = c /\ lead[l].via = "resolver"
Turned(l, c) == lead[l].by = Saved /\ lead[l].contact = c /\ lead[l].status # "open"
Closing(l, c, r) == Belongs(l, c, r) /\ lead[l].closing /\ lead[l].holder = r
PairSound(k, l, c) ==
  Resolved(k, c) /\ Resolved(l, c) =>
    \/ \E x \in Leads : Turned(x, c)
    \/ \E x \in Leads, r \in Requests : Closing(x, c, r) /\ r \in {lead[k].by, lead[l].by}

InboxInv ==
  /\ TypeOK
  /\ \A r \in Requests : RequestSound(r)
  /\ \A m \in Messages : MessageSound(m)
  /\ \A l \in Leads : LeadSound(l)
  /\ \A c \in Contacts : ContactSound(c)
  /\ \A c \in Contacts \ Known : \A k \in Leads : \A l \in Leads \ {k} : PairSound(k, l, c)

-----------------------------------------------------------------------------
(* Types *)

\* The request a transaction is, and the marks of its end, are apart.
LEMMA Apart ==
  /\ \A r \in Requests : r # Saved /\ r # Absent /\ r # None
  /\ Saved # Absent
  /\ From \in [Messages -> Contacts] /\ None \notin Contacts
  /\ MaxLeads \in Nat /\ MaxCrashes \in Nat
  BY InboxAssumption DEF Saved, Absent, None

\* What the types say of one request, lead, row.
LEMMA RowTypes ==
  ASSUME TypeOK
  PROVE  /\ \A r \in Requests : req[r] \in ReqRow
         /\ \A l \in Leads : lead[l] \in LeadRow
         /\ \A m \in Messages : row[m] \in MessageRow /\ outside[m] \in Nat /\ undone[m] \in Nat
                                /\ due[m] \in Nat
         /\ \A c \in Contacts : contact[c] \in Writers /\ thread[c] \in Thread
  BY DEF TypeOK

\* A request that goes on to its next event, or to its end, is one.
LEMMA NextEventType ==
  ASSUME TypeOK, NEW r \in Requests, NEW b \in BOOLEAN, RequestSound(r), req[r].kind = "delivery",
         req[r].step # "committing"
  PROVE  /\ NextEvent(r) \in ReqRow
         /\ [NextEvent(r) EXCEPT !.broken = b] \in ReqRow
         /\ \A n \in {NextEvent(r), [NextEvent(r) EXCEPT !.broken = b]} :
              /\ n.kind = "delivery"
              /\ \/ n.step = "committing"
                 \/ n.step = "recording" /\ n.at \in 1..Len(n.batch)
                    /\ n.contact = From[n.batch[n.at]]
PROOF
<1> DEFINE q == req[r]
           Onto(c, i) == [q EXCEPT !.step = "recording", !.at = i, !.lead = None,
                                   !.plan = NoPlan, !.contact = c]
           more == Onto(From[q.batch[q.at + 1]], q.at + 1)
           over == [q EXCEPT !.step = "committing", !.lead = None, !.plan = NoPlan]
<1>1. q \in ReqRow /\ q.at \in 1..Len(q.batch) /\ q.kind = "delivery" /\ q.batch \in Seq(Messages)
  BY RowTypes DEF RequestSound, ReqRow
<1>2. NextEvent(r) = IF q.at < Len(q.batch) THEN more ELSE over
  BY DEF NextEvent
<1>3. From \in [Messages -> Contacts]
  BY Apart
<1> HIDE DEF q
<1>4. ASSUME q.at < Len(q.batch)
      PROVE  /\ more \in ReqRow /\ more.kind = "delivery" /\ more.step = "recording"
             /\ more.at = q.at + 1 /\ more.at \in 1..Len(q.batch) /\ more.batch = q.batch
             /\ more.contact = From[q.batch[q.at + 1]]
  <2>1. From[q.batch[q.at + 1]] \in Contacts
    BY <1>1, <1>3, <1>4
  <2>2. q.at + 1 \in Nat /\ q.at + 1 \in 1..Len(q.batch)
    BY <1>1, <1>4
  <2>3. \A c \in Contacts, i \in Nat :
          /\ Onto(c, i).kind = q.kind /\ Onto(c, i).step = "recording" /\ Onto(c, i).at = i
          /\ Onto(c, i).batch = q.batch /\ Onto(c, i).contact = c
    BY <1>1 DEF ReqRow
  <2>4. \A c \in Contacts, i \in Nat : Onto(c, i) \in ReqRow
    BY <1>1 DEF ReqRow, Steps
  <2> HIDE DEF Onto
  <2> QED BY <2>1, <2>2, <2>3, <2>4, <1>1
<1>5. over \in ReqRow /\ over.kind = "delivery" /\ over.step = "committing"
  BY <1>1 DEF ReqRow, Steps
<1> HIDE DEF more, over
<1> DEFINE Goes(n) == /\ n \in ReqRow
                       /\ n.kind = "delivery"
                       /\ \/ n.step = "committing"
                          \/ n.step = "recording" /\ n.at \in 1..Len(n.batch)
                             /\ n.contact = From[n.batch[n.at]]
<1>6. Goes(NextEvent(r))
  BY <1>2, <1>4, <1>5
<1>7. ASSUME NEW n \in ReqRow
      PROVE  LET x == [n EXCEPT !.broken = b]
             IN x \in ReqRow /\ x.kind = n.kind /\ x.step = n.step /\ x.at = n.at
                /\ x.batch = n.batch /\ x.contact = n.contact
  BY DEF ReqRow
<1>8. ASSUME NEW n, Goes(n) PROVE Goes([n EXCEPT !.broken = b])
  <2> DEFINE x == [n EXCEPT !.broken = b]
  <2>1. x \in ReqRow /\ x.kind = n.kind /\ x.step = n.step /\ x.at = n.at
        /\ x.batch = n.batch /\ x.contact = n.contact
    BY <1>7, <1>8
  <2> HIDE DEF x
  <2>2. Goes(x)
    BY <2>1, <1>8
  <2> QED BY <2>2 DEF x
<1>9. Goes([NextEvent(r) EXCEPT !.broken = b])
  BY <1>6, <1>8
<1> QED BY <1>6, <1>9

-----------------------------------------------------------------------------
(* Steps of one request *)

\* The leads keep their contacts and statuses; a row that a request closes stays held, and
\* a request takes hold of rows it can see.
LeadsKept ==
  \A l \in Leads :
    /\ lead'[l].by = lead[l].by /\ lead'[l].contact = lead[l].contact
    /\ lead'[l].via = lead[l].via /\ lead'[l].status = lead[l].status
    /\ \A q \in Requests :
         /\ lead[l].closing /\ lead[l].holder = q => lead'[l].closing /\ lead'[l].holder = q
         /\ lead'[l].holder = q => lead[l].holder = q \/ lead[l].by \in {Saved, q}

\* What is a lead of the contact stays one, and a pair of leads stays explained.
LEMMA KeptLeads ==
  ASSUME LeadsKept
  PROVE  /\ \A l, c, r : Belongs(l, c, r) <=> Belongs(l, c, r)'
         /\ \A k, l \in Leads : \A c : PairSound(k, l, c) => PairSound(k, l, c)'
PROOF
<1>1. \A l \in Leads :
        /\ lead'[l].by = lead[l].by /\ lead'[l].contact = lead[l].contact
        /\ lead'[l].via = lead[l].via /\ lead'[l].status = lead[l].status
  BY DEF LeadsKept
<1>2. \A l, c, r : Belongs(l, c, r) <=> Belongs(l, c, r)'
  BY <1>1 DEF Belongs
<1>3. \A x \in Leads : \A c : Turned(x, c) => Turned(x, c)'
  BY <1>1 DEF Turned
<1>4. \A x \in Leads, r \in Requests : \A c : Closing(x, c, r) => Closing(x, c, r)'
  BY <1>2, Zenon DEF Closing, LeadsKept
<1>5. \A x \in Leads : \A c : Resolved(x, c)' => Resolved(x, c)
  BY <1>1 DEF Resolved
<1> QED BY <1>1, <1>2, <1>3, <1>4, <1>5, Zenon DEF PairSound

\* A request that goes on, and leaves contacts and leads to whom they were, preserves
\* the invariant when it stays sound: a message it answers it leaves, a message it stops
\* handling is on a lead, and a contact it resolved comes with one.
LEMMA RequestProgress ==
  ASSUME InboxInv, TypeOK', NEW r \in Requests, RequestSound(r)', LeadsKept,
         contact' = contact, undone' = undone,
         \A q \in Requests \ {r} : req'[q] = req[q],
         \A m \in Messages :
           /\ row'[m].by = row[m].by
           /\ \/ row'[m].lead = row[m].lead
              \/ Handles(r, m) /\ Belongs(row'[m].lead, From[m], r)
           /\ \/ outside'[m] = outside[m]
              \/ Handles(r, m) /\ ~Handles(r, m)' /\ outside'[m] = outside[m] + 1
           /\ Handles(r, m) /\ req[r].step \in Early =>
                \/ Handles(r, m)' /\ req'[r].step \in Early
                \/ Belongs(row'[m].lead, From[m], r),
         req[r].step = "matching" => \E l \in Leads : Belongs(l, req[r].contact, r)
  PROVE  InboxInv'
PROOF
<1>1. /\ TypeOK
      /\ \A q \in Requests : RequestSound(q)
      /\ \A m \in Messages : MessageSound(m)
      /\ \A l \in Leads : LeadSound(l)
      /\ \A c \in Contacts : ContactSound(c)
      /\ \A c \in Contacts \ Known : \A k \in Leads : \A l \in Leads \ {k} : PairSound(k, l, c)
  BY DEF InboxInv
<1>2. /\ \A l, c, q : Belongs(l, c, q) <=> Belongs(l, c, q)'
      /\ \A k, l \in Leads : \A c : PairSound(k, l, c) => PairSound(k, l, c)'
  BY KeptLeads
<1>3. \A l \in Leads :
        /\ lead'[l].by = lead[l].by /\ lead'[l].contact = lead[l].contact
        /\ lead'[l].via = lead[l].via /\ lead'[l].status = lead[l].status
  BY DEF LeadsKept
<1>4. \A m \in Messages : Handles(r, m) => row[m].by = r /\ outside[m] <= undone[m]
  BY <1>1 DEF RequestSound
<1>5. \A q \in Requests \ {r} : \A m \in Messages : Handles(q, m) <=> Handles(q, m)'
  BY DEF Handles, Message
<1>6. ASSUME NEW q \in Requests PROVE RequestSound(q)'
  <2>1. CASE q = r
    BY <2>1
  <2>2. CASE q # r
    <3>1. RequestSound(q) /\ req'[q] = req[q]
      BY <1>1, <2>2
    <3>2. \A m \in Messages : Handles(q, m)' => row'[m].by = q /\ outside'[m] <= undone'[m]
      <4> SUFFICES ASSUME NEW m \in Messages, Handles(q, m)'
                   PROVE  row'[m].by = q /\ outside'[m] <= undone'[m]
        OBVIOUS
      <4>1. row[m].by = q /\ outside[m] <= undone[m]
        BY <1>5, <2>2, <3>1 DEF RequestSound
      <4>2. ~Handles(r, m)
        BY <4>1, <1>4, <2>2
      <4> QED BY <4>1, <4>2
    <3> QED BY <3>1, <3>2, <1>2 DEF RequestSound
  <2> QED BY <2>1, <2>2
<1>7. ASSUME NEW m \in Messages PROVE MessageSound(m)'
  <2>1. MessageSound(m) /\ row'[m].by = row[m].by
    BY <1>1
  <2>2. CASE Handles(r, m)
    <3>1. row[m].by = r /\ outside[m] <= undone[m]
      BY <1>4, <2>2
    <3>2. outside[m] \in Nat /\ undone[m] \in Nat
      BY <1>1, RowTypes
    <3>3. outside'[m] <= 1 + undone'[m]
      BY <3>1, <3>2
    <3>4. r # Saved /\ r # Absent
      BY Apart
    <3>5. \/ Handles(r, m)' /\ req'[r].step \in Early
          \/ Belongs(row'[m].lead, From[m], r)
      <4>1. CASE req[r].step \in Early
        BY <2>2, <4>1
      <4>2. CASE req[r].step \notin Early
        <5>1. Belongs(row[m].lead, From[m], r)
          BY <2>1, <3>1, <4>2 DEF MessageSound
        <5> QED BY <5>1
      <4> QED BY <4>1, <4>2
    <3> QED BY <2>1, <3>1, <3>3, <3>4, <3>5, <1>2 DEF MessageSound
  <2>3. CASE ~Handles(r, m)
    <3>1. row'[m].lead = row[m].lead /\ outside'[m] = outside[m]
      BY <2>3
    <3>2. \A q \in Requests : Handles(q, m) => q # r /\ Handles(q, m)' /\ req'[q].step = req[q].step
      BY <1>5, <2>3
    <3> QED BY <2>1, <3>1, <3>2, <1>2 DEF MessageSound
  <2> QED BY <2>2, <2>3
<1>8. ASSUME NEW l \in Leads PROVE LeadSound(l)'
  <2>1. LeadSound(l)
    BY <1>1
  <2>2. \A q \in Requests : lead'[l].holder = q => lead'[l].by \in {Saved, q}
    BY <2>1, <1>3, Zenon DEF LeadSound, LeadsKept
  <2> QED BY <2>1, <2>2, <1>3 DEF LeadSound
<1>9. ASSUME NEW c \in Contacts PROVE ContactSound(c)'
  <2>1. ContactSound(c)
    BY <1>1
  <2>2. \A q \in Requests :
          contact'[c] = q => \/ req'[q].step = "matching" /\ req'[q].contact = c
                             \/ \E l \in Leads : Belongs(l, c, q)
    BY <2>1 DEF ContactSound
  <2> QED BY <2>1, <2>2, <1>2 DEF ContactSound
<1>10. ASSUME NEW c \in Contacts \ Known, NEW k \in Leads, NEW l \in Leads \ {k}
       PROVE  PairSound(k, l, c)'
  BY <1>1, <1>2
<1> QED BY <1>6, <1>7, <1>8, <1>9, <1>10 DEF InboxInv

\* No request is a request row.
LEMMA IdleType == Idle \in ReqRow
PROOF
<1>1. <<>> \in Seq(Messages)
  OBVIOUS
<1> QED BY <1>1 DEF Idle, ReqRow, Kinds, Steps

\* A request that begins handles nothing yet.
LEMMA BeginProgress ==
  ASSUME InboxInv, NEW r \in Requests, NEW new \in ReqRow, Begin(r, new),
         UNCHANGED <<contact, lead, thread, row, outside, undone, silenced, crashes>>,
         due' \in [Messages -> Nat],
         \/ new.kind = "delivery" /\ new.step = "recording" /\ new.at \in 1..Len(new.batch)
            /\ new.contact = From[new.batch[new.at]]
         \/ new.kind \in {"enquiry", "trigger"} /\ new.step = "resolving"
            /\ new.contact \in Contacts
         \/ new.kind \in {"enquiry", "trigger"} /\ new.step = "matching" /\ new.contact \in Contacts
            /\ contact[new.contact] = Saved
  PROVE  InboxInv'
PROOF
<1>1. TypeOK /\ req \in [Requests -> ReqRow]
  BY DEF InboxInv, TypeOK
<1>2. req[r].kind = "none" /\ req[r].step = "idle"
  BY DEF Begin, Idle
<1>3. req' \in [Requests -> ReqRow] /\ req'[r] = new /\ \A q \in Requests \ {r} : req'[q] = req[q]
  BY <1>1 DEF Begin
<1>4. TypeOK'
  BY <1>1, <1>3 DEF TypeOK
<1>5. LeadsKept
  BY DEF LeadsKept
<1>6. \A m \in Messages : ~Handles(r, m) /\ ~Handles(r, m)'
  BY <1>2, <1>3 DEF Handles, Early, Late
<1>7. RequestSound(r)'
  BY <1>3, <1>6 DEF RequestSound, Late
<1> QED BY <1>2, <1>3, <1>4, <1>5, <1>6, <1>7, RequestProgress

\* A delivery begins with its first message.
LEMMA ReceiveStep ==
  ASSUME InboxInv, NEW r \in Requests, NEW b \in Batches, Receive(r, b)
  PROVE  InboxInv'
PROOF
<1> DEFINE new == [Idle EXCEPT !.kind = "delivery", !.step = "recording", !.batch = b, !.at = 1,
                               !.contact = From[b[1]]]
<1>1. b \in Seq(Messages) /\ 1 \in 1..Len(b)
  <2>1. PICK n \in 1..MaxBatch : b \in [1..n -> Messages]
    BY DEF Batches
  <2>2. n \in Nat /\ n >= 1
    BY InboxAssumption
  <2> QED BY <2>1, <2>2
<1>2. From[b[1]] \in Contacts
  BY <1>1, Apart
<1>3. new \in ReqRow /\ new.kind = "delivery" /\ new.step = "recording" /\ new.batch = b
      /\ new.at = 1 /\ new.contact = From[b[1]]
  BY <1>1, <1>2 DEF Idle, ReqRow, Kinds, Steps
<1>4. due' \in [Messages -> Nat]
  <2>1. due \in [Messages -> Nat] /\ \A m \in InBatch(b) : due[m] > 0
    BY DEF Receive, InboxInv, TypeOK
  <2>2. due' = [m \in Messages |-> IF m \in InBatch(b) THEN due[m] - 1 ELSE due[m]]
    BY DEF Receive
  <2> QED BY <2>1, <2>2
<1>5. Begin(r, new) /\ UNCHANGED <<contact, lead, thread, row, outside, undone, silenced, crashes>>
  BY DEF Receive
<1> HIDE DEF new
<1> QED BY <1>1, <1>3, <1>4, <1>5, BeginProgress

\* An enquiry has its contact to resolve.
LEMMA EnquireStep ==
  ASSUME InboxInv, NEW r \in Requests, NEW c \in Contacts, Enquire(r, c)
  PROVE  InboxInv'
PROOF
<1> DEFINE new == [Idle EXCEPT !.kind = "enquiry", !.step = "resolving", !.contact = c]
<1>1. new \in ReqRow /\ new.kind = "enquiry" /\ new.step = "resolving" /\ new.contact = c
  BY IdleType DEF Idle, ReqRow, Kinds, Steps
<1>2. due' \in [Messages -> Nat]
  BY DEF Enquire, InboxInv, TypeOK
<1>3. Begin(r, new) /\ UNCHANGED <<contact, lead, thread, row, outside, undone, silenced, crashes>>
  BY DEF Enquire
<1> HIDE DEF new
<1> QED BY <1>1, <1>2, <1>3, BeginProgress

\* A trigger's contact is committed.
LEMMA TriggerStep ==
  ASSUME InboxInv, NEW r \in Requests, NEW c \in Contacts, Trigger(r, c)
  PROVE  InboxInv'
PROOF
<1> DEFINE new == [Idle EXCEPT !.kind = "trigger", !.step = "matching", !.contact = c]
<1>1. new \in ReqRow /\ new.kind = "trigger" /\ new.step = "matching" /\ new.contact = c
  BY IdleType DEF Idle, ReqRow, Kinds, Steps
<1>2. due' \in [Messages -> Nat]
  BY DEF Trigger, InboxInv, TypeOK
<1>3. Begin(r, new) /\ UNCHANGED <<contact, lead, thread, row, outside, undone, silenced, crashes>>
      /\ contact[c] = Saved
  BY DEF Trigger
<1> HIDE DEF new
<1> QED BY <1>1, <1>2, <1>3, BeginProgress

\* A request that leaves its event for the next one, or for its end.
LEMMA LeaveProgress ==
  ASSUME InboxInv, TypeOK', NEW r \in Requests, LeadsKept, contact' = contact, undone' = undone,
         req[r].kind = "delivery", req[r].step \in {"recording"} \cup Late,
         NEW b \in BOOLEAN,
         req'[r] \in {NextEvent(r), [NextEvent(r) EXCEPT !.broken = b]},
         \A q \in Requests \ {r} : req'[q] = req[q],
         \A m \in Messages :
           /\ row'[m].by = row[m].by /\ row'[m].lead = row[m].lead
           /\ \/ outside'[m] = outside[m]
              \/ Handles(r, m) /\ outside'[m] = outside[m] + 1
  PROVE  InboxInv'
PROOF
<1>1. TypeOK /\ RequestSound(r)
  BY DEF InboxInv
<1>2. /\ req'[r].kind = "delivery"
      /\ \/ req'[r].step = "committing"
         \/ req'[r].step = "recording" /\ req'[r].at \in 1..Len(req'[r].batch)
            /\ req'[r].contact = From[req'[r].batch[req'[r].at]]
  <2>1. req[r].step # "committing"
    BY DEF Late
  <2>2. \A n \in {NextEvent(r), [NextEvent(r) EXCEPT !.broken = b]} :
              /\ n.kind = "delivery"
              /\ \/ n.step = "committing"
                 \/ n.step = "recording" /\ n.at \in 1..Len(n.batch)
                    /\ n.contact = From[n.batch[n.at]]
    BY <2>1, <1>1, NextEventType, Zenon
  <2> QED BY <2>2
<1>3. \A m \in Messages : ~Handles(r, m)'
  BY <1>2 DEF Handles, Early, Late
<1>4. RequestSound(r)'
  BY <1>2, <1>3 DEF RequestSound, Late
<1>5. req[r].step \notin Early /\ req[r].step # "matching"
  BY DEF Early, Late
<1> QED BY <1>3, <1>4, <1>5, RequestProgress

\* A request that only changes its step.
LEMMA GotoTyped ==
  ASSUME TypeOK, NEW r \in Requests, NEW s \in Steps, Goto(r, s)
  PROVE  /\ req' \in [Requests -> ReqRow]
         /\ req'[r].kind = req[r].kind /\ req'[r].step = s /\ req'[r].contact = req[r].contact
         /\ req'[r].batch = req[r].batch /\ req'[r].at = req[r].at /\ req'[r].lead = req[r].lead
         /\ \A q \in Requests \ {r} : req'[q] = req[q]
PROOF
<1> DEFINE new == [req[r] EXCEPT !.step = s]
<1>1. req \in [Requests -> ReqRow] /\ req[r] \in ReqRow /\ req' = [req EXCEPT ![r] = new]
  BY DEF TypeOK, Goto
<1>2. new \in ReqRow /\ new.kind = req[r].kind /\ new.step = s /\ new.contact = req[r].contact
      /\ new.batch = req[r].batch /\ new.at = req[r].at /\ new.lead = req[r].lead
  BY <1>1 DEF ReqRow
<1> HIDE DEF new
<1> QED BY <1>1, <1>2

\* A delivery that has been recorded already is left for the next one.
LEMMA RepeatedStep ==
  ASSUME InboxInv, NEW r \in Requests, RecordEvent(r), ~Fresh(row[Message(r)].by)
  PROVE  InboxInv'
PROOF
<1>1. TypeOK /\ RequestSound(r) /\ req \in [Requests -> ReqRow]
  BY DEF InboxInv, TypeOK
<1>2. req[r].step = "recording" /\ row' = row /\ req' = [req EXCEPT ![r] = NextEvent(r)]
      /\ UNCHANGED <<contact, lead, thread, due, outside, undone, silenced, crashes>>
  BY DEF RecordEvent, RecordAs, At
<1>3. req[r].kind = "delivery"
  BY <1>1, <1>2 DEF RequestSound
<1>4. NextEvent(r) \in ReqRow
  BY <1>1, <1>2, <1>3, NextEventType
<1>5. TypeOK'
  BY <1>1, <1>2, <1>4 DEF TypeOK
<1>6. req'[r] = NextEvent(r) /\ \A q \in Requests \ {r} : req'[q] = req[q]
  BY <1>1, <1>2
<1>7. LeadsKept
  BY <1>2 DEF LeadsKept
<1> QED BY <1>2, <1>3, <1>5, <1>6, <1>7, LeaveProgress

\* A delivery that is new is recorded by the request that will handle it.
LEMMA RecordStep ==
  ASSUME InboxInv, NEW r \in Requests, RecordEvent(r), Fresh(row[Message(r)].by)
  PROVE  InboxInv'
PROOF
<1> DEFINE n == Message(r)
<1>1. /\ TypeOK
      /\ \A q \in Requests : RequestSound(q)
      /\ \A m \in Messages : MessageSound(m)
      /\ \A l \in Leads : LeadSound(l)
      /\ \A c \in Contacts : ContactSound(c)
      /\ \A c \in Contacts \ Known : \A k \in Leads : \A l \in Leads \ {k} : PairSound(k, l, c)
  BY DEF InboxInv
<1>2. /\ req[r].step = "recording"
      /\ row' = [row EXCEPT ![n].by = r] /\ Goto(r, "resolving")
      /\ row[n].by = Absent
      /\ UNCHANGED <<contact, lead, thread, due, outside, undone, silenced, crashes>>
  BY DEF RecordEvent, RecordAs, At, Fresh
<1>3. /\ req[r].kind = "delivery" /\ n = req[r].batch[req[r].at]
      /\ req[r].at \in 1..Len(req[r].batch)
      /\ req[r].contact = From[n]
  BY <1>1, <1>2 DEF RequestSound, Message
<1>4. n \in Messages
  <2>1. req[r].batch \in Seq(Messages)
    BY <1>1, RowTypes DEF ReqRow
  <2> QED BY <2>1, <1>3
<1>5. /\ req' \in [Requests -> ReqRow]
      /\ req'[r].kind = "delivery" /\ req'[r].step = "resolving" /\ req'[r].contact = From[n]
      /\ req'[r].batch = req[r].batch /\ req'[r].at = req[r].at
      /\ \A q \in Requests \ {r} : req'[q] = req[q]
  BY <1>1, <1>2, <1>3, GotoTyped DEF Steps
<1> HIDE DEF n
<1>6. /\ row' \in [Messages -> MessageRow] /\ row'[n].by = r
      /\ \A m \in Messages \ {n} : row'[m] = row[m]
  <2> DEFINE new == [row[n] EXCEPT !.by = r]
  <2>1. row \in [Messages -> MessageRow] /\ row[n] \in MessageRow
    BY <1>1, <1>4 DEF TypeOK
  <2>2. new \in MessageRow /\ new.by = r
    BY <2>1 DEF MessageRow, Writers
  <2>3. row' = [row EXCEPT ![n] = new]
    BY <1>2
  <2> HIDE DEF new
  <2> QED BY <2>1, <2>2, <2>3, <1>4
<1>7. TypeOK'
  BY <1>1, <1>2, <1>5, <1>6 DEF TypeOK
<1>8. LeadsKept
  BY <1>2 DEF LeadsKept
<1>9. /\ \A l, c, q : Belongs(l, c, q) <=> Belongs(l, c, q)'
      /\ \A k, l \in Leads : \A c : PairSound(k, l, c) => PairSound(k, l, c)'
  BY <1>8, KeptLeads
<1>10. \A q \in Requests \ {r} : \A m \in Messages : Handles(q, m) <=> Handles(q, m)'
  BY <1>5 DEF Handles, Message
<1>11. \A m \in Messages : ~Handles(r, m) /\ (Handles(r, m)' <=> m = n)
  <2>1. Message(r)' = n
    BY <1>3, <1>5 DEF Message
  <2>2. req[r].step \notin Early \cup Late /\ req'[r].step \in Early \cup Late
    BY <1>2, <1>5 DEF Early, Late
  <2> QED BY <2>1, <2>2, <1>5 DEF Handles
<1>12. r # Absent /\ r # Saved
  BY Apart
<1>13. outside[n] <= undone[n]
  BY <1>1, <1>2, <1>4 DEF MessageSound
<1>14. ASSUME NEW q \in Requests PROVE RequestSound(q)'
  <2>1. CASE q = r
    <3>1. req'[r].contact \in Contacts
      BY <1>4, <1>5, Apart
    <3>2. \A m \in Messages : Handles(r, m)' => row'[m].by = r /\ outside'[m] <= undone'[m]
      BY <1>2, <1>6, <1>11, <1>13
    <3>3. req'[r].at \in 1..Len(req'[r].batch) /\ req'[r].contact = From[req'[r].batch[req'[r].at]]
      BY <1>3, <1>5
    <3> QED BY <2>1, <3>1, <3>2, <3>3, <1>5 DEF RequestSound, Late
  <2>2. CASE q # r
    <3>1. RequestSound(q) /\ req'[q] = req[q]
      BY <1>1, <1>5, <2>2
    <3>2. \A m \in Messages : Handles(q, m)' => row'[m].by = q /\ outside'[m] <= undone'[m]
      BY <1>2, <1>6, <1>10, <2>2, <3>1, Apart DEF RequestSound
    <3> QED BY <3>1, <3>2, <1>2, <1>9 DEF RequestSound
  <2> QED BY <2>1, <2>2
<1>15. ASSUME NEW m \in Messages PROVE MessageSound(m)'
  <2>1. MessageSound(m)
    BY <1>1
  <2>2. CASE m = n
    <3>1. Handles(r, m)' /\ req'[r].step \in Early
      BY <1>5, <1>11, <2>2 DEF Early
    <3> QED BY <2>1, <2>2, <3>1, <1>2, <1>6, <1>12 DEF MessageSound
  <2>3. CASE m # n
    <3>1. \A q \in Requests : Handles(q, m) => Handles(q, m)' /\ req'[q].step = req[q].step
      BY <1>5, <1>10, <1>11
    <3> QED BY <2>1, <2>3, <3>1, <1>2, <1>6, <1>9 DEF MessageSound
  <2> QED BY <2>2, <2>3
<1>16. ASSUME NEW l \in Leads PROVE LeadSound(l)'
  BY <1>1, <1>2 DEF LeadSound
<1>17. ASSUME NEW c \in Contacts PROVE ContactSound(c)'
  <2>1. ContactSound(c)
    BY <1>1
  <2>2. \A q \in Requests :
          contact'[c] = q => \/ req'[q].step = "matching" /\ req'[q].contact = c
                             \/ \E l \in Leads : Belongs(l, c, q)
    BY <2>1, <1>2, <1>5 DEF ContactSound
  <2> QED BY <2>1, <2>2, <1>2, <1>9 DEF ContactSound
<1> QED BY <1>1, <1>7, <1>9, <1>14, <1>15, <1>16, <1>17 DEF InboxInv

\* A request that is the first to know a contact writes it; another has it committed.
LEMMA ResolveStep == ASSUME InboxInv, NEW r \in Requests, ResolveContact(r) PROVE InboxInv'
PROOF
<1> DEFINE c == req[r].contact
<1>1. /\ TypeOK
      /\ \A q \in Requests : RequestSound(q)
      /\ \A m \in Messages : MessageSound(m)
      /\ \A l \in Leads : LeadSound(l)
      /\ \A d \in Contacts : ContactSound(d)
      /\ \A d \in Contacts \ Known : \A k \in Leads : \A l \in Leads \ {k} : PairSound(k, l, d)
  BY DEF InboxInv
<1>2. /\ req[r].step = "resolving" /\ contact[c] \in {Saved, Absent, r}
      /\ contact' = [contact EXCEPT ![c] = IF @ = Absent THEN r ELSE @]
      /\ Goto(r, "matching")
      /\ UNCHANGED <<lead, thread, row, due, outside, undone, silenced, crashes>>
  BY DEF ResolveContact, ResolveAs, At, Waits
<1>3. c \in Contacts /\ contact \in [Contacts -> Writers]
  BY <1>1, <1>2 DEF RequestSound, TypeOK
<1>4. /\ req' \in [Requests -> ReqRow]
      /\ req'[r].kind = req[r].kind /\ req'[r].step = "matching" /\ req'[r].contact = c
      /\ req'[r].batch = req[r].batch /\ req'[r].at = req[r].at
      /\ \A q \in Requests \ {r} : req'[q] = req[q]
  BY <1>1, <1>2, GotoTyped DEF Steps
<1> HIDE DEF c
<1>5. r # Absent /\ r # Saved /\ Saved # Absent /\ \A q \in Requests : q # Absent /\ q # Saved
  BY Apart
<1>6. /\ contact' \in [Contacts -> Writers]
      /\ contact'[c] \in {Saved, r}
      /\ contact[c] # Absent => contact' = contact
      /\ contact[c] = Absent => contact'[c] = r
      /\ \A d \in Contacts \ {c} : contact'[d] = contact[d]
  BY <1>2, <1>3, <1>5 DEF Writers
<1>7. TypeOK'
  BY <1>1, <1>2, <1>4, <1>6 DEF TypeOK
<1>8. LeadsKept
  BY <1>2 DEF LeadsKept
<1>9. /\ \A l, d, q : Belongs(l, d, q) <=> Belongs(l, d, q)'
      /\ \A k, l \in Leads : \A d : PairSound(k, l, d) => PairSound(k, l, d)'
  BY <1>8, KeptLeads
<1>10. \A q \in Requests : \A m \in Messages : Handles(q, m) <=> Handles(q, m)'
  <2>1. \A q \in Requests \ {r} : \A m \in Messages : Handles(q, m) <=> Handles(q, m)'
    BY <1>4 DEF Handles, Message
  <2>2. Message(r)' = Message(r)
    BY <1>4 DEF Message
  <2>3. req[r].step \in Early /\ req'[r].step \in Early
    BY <1>2, <1>4 DEF Early
  <2>4. \A m \in Messages : Handles(r, m) <=> Handles(r, m)'
    BY <2>2, <2>3, <1>4 DEF Handles
  <2> QED BY <2>1, <2>4
<1>11. \A q \in Requests : \A d \in Contacts :
         contact[d] \in {Saved, q} => contact'[d] \in {Saved, q}
  BY <1>5, <1>6
<1>12. ASSUME NEW q \in Requests PROVE RequestSound(q)'
  <2>1. RequestSound(q)
    BY <1>1
  <2>2. \A m \in Messages : Handles(q, m)' => row'[m].by = q /\ outside'[m] <= undone'[m]
    BY <1>2, <1>10, <2>1 DEF RequestSound
  <2>3. CASE q = r
    <3>1. req[r].kind = "delivery" =>
            req[r].at \in 1..Len(req[r].batch) /\ c = From[req[r].batch[req[r].at]]
      BY <1>2, <2>1, <2>3 DEF RequestSound, c
    <3>2. contact'[req'[r].contact] \in {Saved, r} /\ req'[r].contact \in Contacts
      BY <1>3, <1>4, <1>6
    <3> QED BY <1>4, <2>2, <2>3, <3>1, <3>2 DEF RequestSound, Late
  <2>4. CASE q # r
    <3>1. req'[q] = req[q]
      BY <1>4, <2>4
    <3>2. req[q].step \in {"matching", "storing"} \cup Late => req[q].contact \in Contacts
      <4>1. req[q] \in ReqRow
        BY <1>1, RowTypes
      <4>2. CASE req[q].step = "matching"
        BY <2>1, <4>2 DEF RequestSound
      <4>3. CASE req[q].step \in {"storing"} \cup Late
        <5>1. Belongs(req[q].lead, req[q].contact, q)
          BY <2>1, <4>3 DEF RequestSound
        <5> QED BY <5>1, <1>1, Apart DEF Belongs, LeadSound
      <4> QED BY <4>2, <4>3
    <3> QED BY <1>9, <1>11, <2>1, <2>2, <3>1, <3>2 DEF RequestSound
  <2> QED BY <2>3, <2>4
<1>13. ASSUME NEW m \in Messages PROVE MessageSound(m)'
  <2>1. MessageSound(m)
    BY <1>1
  <2>2. \A q \in Requests : req[q].step \in Early => req'[q].step \in Early
    BY <1>4 DEF Early
  <2> QED BY <1>2, <1>9, <1>10, <2>1, <2>2 DEF MessageSound
<1>14. ASSUME NEW l \in Leads PROVE LeadSound(l)'
  <2>1. LeadSound(l)
    BY <1>1
  <2> QED BY <1>2, <1>5, <1>11, <2>1 DEF LeadSound
<1>15. ASSUME NEW d \in Contacts PROVE ContactSound(d)'
  <2>1. ContactSound(d)
    BY <1>1
  <2>2. contact'[d] = Saved => contact[d] = Saved
    BY <1>5, <1>6
  <2>3. \A q \in Requests :
          contact'[d] = q => \/ req'[q].step = "matching" /\ req'[q].contact = d
                             \/ \E l \in Leads : Belongs(l, d, q)
    <3> SUFFICES ASSUME NEW q \in Requests, contact'[d] = q
                 PROVE  \/ req'[q].step = "matching" /\ req'[q].contact = d
                        \/ \E l \in Leads : Belongs(l, d, q)
      OBVIOUS
    <3>1. CASE contact[d] = q
      BY <2>1, <3>1, <1>2, <1>4 DEF ContactSound
    <3>2. CASE contact[d] # q
      BY <3>2, <1>4, <1>6
    <3> QED BY <3>1, <3>2
  <2> QED BY <2>1, <2>2, <2>3, <1>9 DEF ContactSound
<1> QED BY <1>1, <1>7, <1>9, <1>12, <1>13, <1>14, <1>15 DEF InboxInv

\* A request works with a lead it found open.
LEMMA MatchStep ==
  ASSUME InboxInv, NEW r \in Requests, NEW l \in Leads, MatchLead(r, l)
  PROVE  InboxInv'
PROOF
<1> DEFINE new == [req[r] EXCEPT !.lead = l, !.step = AfterMatch(r)]
<1>1. TypeOK /\ RequestSound(r) /\ req \in [Requests -> ReqRow] /\ req[r] \in ReqRow
  BY DEF InboxInv, TypeOK
<1>2. /\ req[r].step = "matching" /\ l \in OpenLeads(r) /\ req' = [req EXCEPT ![r] = new]
      /\ UNCHANGED <<contact, lead, thread, row, due, outside, undone, silenced, crashes>>
  BY DEF MatchLead, At
<1>3. AfterMatch(r) = IF req[r].kind = "delivery" THEN "storing" ELSE "committing"
  BY DEF AfterMatch
<1>4. /\ new \in ReqRow /\ new.kind = req[r].kind /\ new.step = AfterMatch(r)
      /\ new.contact = req[r].contact /\ new.batch = req[r].batch /\ new.at = req[r].at
      /\ new.lead = l
  <2>1. AfterMatch(r) \in Steps
    BY <1>3 DEF Steps
  <2> QED BY <2>1, <1>1 DEF ReqRow
<1> HIDE DEF new
<1>5. req' \in [Requests -> ReqRow] /\ req'[r] = new /\ \A q \in Requests \ {r} : req'[q] = req[q]
  BY <1>1, <1>2, <1>4
<1>6. TypeOK'
  BY <1>1, <1>2, <1>5 DEF TypeOK
<1>7. LeadsKept
  BY <1>2 DEF LeadsKept
<1>8. Belongs(l, req[r].contact, r)
  BY <1>2 DEF OpenLeads, Visible, Belongs
<1>9. Belongs(l, req[r].contact, r)'
  BY <1>2, <1>4, <1>5, <1>8 DEF Belongs
<1>10. \A m \in Messages : /\ Handles(r, m)' => Handles(r, m)
                           /\ Handles(r, m) => Handles(r, m)' /\ req'[r].step \in Early
  <2>1. Message(r)' = Message(r)
    BY <1>4, <1>5 DEF Message
  <2>2. req[r].step \in Early \cup Late
    BY <1>2 DEF Early
  <2>3. req[r].kind = "delivery" => req'[r].step \in Early
    BY <1>3, <1>4, <1>5 DEF Early
  <2> QED BY <2>1, <2>2, <2>3, <1>4, <1>5 DEF Handles
<1>11. RequestSound(r)'
  <2>1. \A m \in Messages : Handles(r, m)' => row'[m].by = r /\ outside'[m] <= undone'[m]
    BY <1>1, <1>2, <1>10 DEF RequestSound
  <2> QED BY <1>1, <1>2, <1>3, <1>4, <1>5, <2>1, <1>9 DEF RequestSound, Late
<1> QED BY <1>2, <1>5, <1>6, <1>7, <1>8, <1>10, <1>11, RequestProgress

\* A lead is opened for a contact that is the request's own or committed; if it has
\* a lead already, that one was closed or the request is closing it.
LEMMA OpenStep == ASSUME InboxInv, NEW r \in Requests, OpenLead(r) PROVE InboxInv'
PROOF
<1>c. PICK c : c = req[r].contact
  OBVIOUS
<1>n. PICK n : n = NewLead
  OBVIOUS
<1> DEFINE via == IF req[r].kind = "enquiry" THEN "enquiry" ELSE "resolver"
           opened == [NoLead EXCEPT !.by = r, !.contact = c, !.status = "open", !.via = via]
           new == [req[r] EXCEPT !.lead = n, !.step = AfterMatch(r)]
<1>1. /\ TypeOK
      /\ \A q \in Requests : RequestSound(q)
      /\ \A m \in Messages : MessageSound(m)
      /\ \A l \in Leads : LeadSound(l)
      /\ \A d \in Contacts : ContactSound(d)
      /\ \A d \in Contacts \ Known : \A k \in Leads : \A l \in Leads \ {k} : PairSound(k, l, d)
  BY DEF InboxInv
<1>2. /\ req[r].step = "matching"
      /\ req[r].kind = "enquiry" \/ OpenLeads(r) = {}
      /\ \E l \in Leads : lead[l].by = Absent
      /\ lead' = [lead EXCEPT ![n] = opened]
      /\ req' = [req EXCEPT ![r] = new]
      /\ UNCHANGED <<contact, thread, row, due, outside, undone, silenced, crashes>>
  <2>1. req' = [req EXCEPT ![r] = new]
    BY <1>n DEF OpenLead
  <2> QED BY <2>1, <1>c, <1>n DEF OpenLead, At
<1>3. n \in Leads /\ lead[n].by = Absent
  BY <1>2, <1>n DEF NewLead
<1>4. c \in Contacts /\ contact[c] \in {Saved, r}
  BY <1>1, <1>2, <1>c DEF RequestSound
<1>5. req \in [Requests -> ReqRow] /\ req[r] \in ReqRow /\ lead \in [Leads -> LeadRow]
  BY <1>1 DEF TypeOK
<1>6. AfterMatch(r) = IF req[r].kind = "delivery" THEN "storing" ELSE "committing"
  BY DEF AfterMatch
<1>7. /\ new \in ReqRow /\ new.kind = req[r].kind /\ new.step = AfterMatch(r)
      /\ new.contact = c /\ new.batch = req[r].batch /\ new.at = req[r].at
      /\ new.lead = n
  <2>1. AfterMatch(r) \in Steps
    BY <1>6 DEF Steps
  <2> QED BY <2>1, <1>3, <1>5, <1>c DEF ReqRow
<1>8. /\ opened \in LeadRow /\ opened.by = r /\ opened.contact = c /\ opened.status = "open"
      /\ opened.via = via
  <2>1. via \in {"resolver", "enquiry"}
    OBVIOUS
  <2> HIDE DEF via
  <2>2. opened.by = r /\ opened.contact = c /\ opened.status = "open" /\ opened.via = via
    BY DEF NoLead
  <2>3. opened \in LeadRow
    BY <2>1, <1>4 DEF NoLead, LeadRow, Writers, Statuses
  <2> QED BY <2>2, <2>3
<1> HIDE DEF opened, new
<1>9. req' \in [Requests -> ReqRow] /\ req'[r] = new /\ \A q \in Requests \ {r} : req'[q] = req[q]
  BY <1>2, <1>5, <1>7
<1>10. /\ lead' \in [Leads -> LeadRow] /\ lead'[n] = opened
       /\ \A l \in Leads \ {n} : lead'[l] = lead[l]
  BY <1>2, <1>3, <1>5, <1>8
<1>11. TypeOK'
  BY <1>1, <1>2, <1>9, <1>10 DEF TypeOK
<1>12. r # Absent /\ r # Saved /\ Saved # Absent /\ \A q \in Requests : q # Absent /\ q # Saved
  BY Apart
<1>13. \A q \in Requests \cup {Saved} : \A l, d : Belongs(l, d, q) => Belongs(l, d, q)'
  BY <1>3, <1>10, <1>12 DEF Belongs
<1>14. Belongs(n, c, r)'
  BY <1>3, <1>8, <1>10 DEF Belongs
<1>15. /\ \A q \in Requests \ {r} : \A m \in Messages : Handles(q, m) <=> Handles(q, m)'
       /\ \A m \in Messages : /\ Handles(r, m)' => Handles(r, m)
                              /\ Handles(r, m) => Handles(r, m)' /\ req'[r].step \in Early
  <2>1. Message(r)' = Message(r)
    BY <1>7, <1>9 DEF Message
  <2>2. req[r].step \in Early \cup Late
    BY <1>2 DEF Early
  <2>3. req[r].kind = "delivery" => req'[r].step \in Early
    BY <1>6, <1>7, <1>9 DEF Early
  <2>4. \A q \in Requests \ {r} : \A m \in Messages : Handles(q, m) <=> Handles(q, m)'
    BY <1>9 DEF Handles, Message
  <2>5. \A m \in Messages : /\ Handles(r, m)' => Handles(r, m)
                            /\ Handles(r, m) => Handles(r, m)' /\ req'[r].step \in Early
    BY <2>1, <2>2, <2>3, <1>7, <1>9 DEF Handles
  <2> QED BY <2>4, <2>5
<1>16. ASSUME NEW q \in Requests PROVE RequestSound(q)'
  <2>1. RequestSound(q)
    BY <1>1
  <2>2. \A m \in Messages : Handles(q, m)' => row'[m].by = q /\ outside'[m] <= undone'[m]
    <3>1. \A m \in Messages : Handles(q, m)' => Handles(q, m)
      BY <1>15
    <3> QED BY <3>1, <1>2, <2>1 DEF RequestSound
  <2>3. CASE q = r
    <3>1. req[r].kind = "delivery" =>
            req[r].at \in 1..Len(req[r].batch) /\ c = From[req[r].batch[req[r].at]]
      BY <1>2, <2>1, <2>3, <1>c DEF RequestSound
    <3> QED BY <1>2, <1>4, <1>6, <1>7, <1>9, <1>14, <2>2, <2>3, <3>1 DEF RequestSound, Late
  <2>4. CASE q # r
    <3>1. req'[q] = req[q]
      BY <1>9, <2>4
    <3> QED BY <1>2, <1>13, <2>1, <2>2, <3>1 DEF RequestSound
  <2> QED BY <2>3, <2>4
<1>17. ASSUME NEW m \in Messages PROVE MessageSound(m)'
  <2>1. MessageSound(m)
    BY <1>1
  <2>2. \A q \in Requests : Handles(q, m) /\ req[q].step \in Early
                              => Handles(q, m)' /\ req'[q].step \in Early
    BY <1>9, <1>15
  <2> QED BY <1>2, <1>13, <2>1, <2>2 DEF MessageSound
<1>18. ASSUME NEW l \in Leads PROVE LeadSound(l)'
  <2>1. CASE l = n
    <3>1. opened.holder = None
      BY DEF opened, NoLead
    <3>2. \A q \in Requests : q # None
      BY Apart
    <3> QED BY <1>2, <1>4, <1>8, <1>10, <2>1, <3>1, <3>2 DEF LeadSound
  <2>2. CASE l # n
    BY <1>1, <1>2, <1>10, <2>2 DEF LeadSound
  <2> QED BY <2>1, <2>2
<1>19. ASSUME NEW d \in Contacts PROVE ContactSound(d)'
  <2>1. ContactSound(d)
    BY <1>1
  <2>2. \A q \in Requests :
          contact'[d] = q => \/ req'[q].step = "matching" /\ req'[q].contact = d
                             \/ (\E l \in Leads : Belongs(l, d, q))'
    <3> SUFFICES ASSUME NEW q \in Requests, contact'[d] = q
                 PROVE  \/ req'[q].step = "matching" /\ req'[q].contact = d
                        \/ (\E l \in Leads : Belongs(l, d, q))'
      OBVIOUS
    <3>1. \/ req[q].step = "matching" /\ req[q].contact = d
          \/ \E l \in Leads : Belongs(l, d, q)
      BY <1>2, <2>1 DEF ContactSound
    <3>2. CASE q = r /\ d = c
      BY <3>2, <1>3, <1>14
    <3>3. CASE q = r /\ d # c
      BY <3>1, <3>3, <1>13, <1>c
    <3>4. CASE q # r
      BY <3>1, <3>4, <1>9, <1>13
    <3> QED BY <3>2, <3>3, <3>4
  <2> QED BY <2>1, <2>2, <1>2, <1>13 DEF ContactSound
<1>20. \A x \in Leads : \A d :
         /\ Turned(x, d) => Turned(x, d)'
         /\ \A q \in Requests : Closing(x, d, q) => Closing(x, d, q)'
  <2> SUFFICES ASSUME NEW x \in Leads, NEW d
               PROVE  /\ Turned(x, d) => Turned(x, d)'
                      /\ \A q \in Requests : Closing(x, d, q) => Closing(x, d, q)'
    OBVIOUS
  <2>1. CASE x = n
    BY <2>1, <1>3, <1>12 DEF Turned, Closing, Belongs
  <2>2. CASE x # n
    BY <2>2, <1>10, Zenon DEF Turned, Closing, Belongs
  <2> QED BY <2>1, <2>2
<1>21. ASSUME c \notin Known, NEW l \in Leads \ {n}, Resolved(l, c)', req[r].kind # "enquiry"
       PROVE  \/ (\E x \in Leads : Turned(x, c))'
              \/ (\E x \in Leads : Closing(x, c, r))'
  <2>1. lead[l].by # Absent /\ lead[l].contact = c /\ lead[l].by \in Writers
    BY <1>1, <1>10, <1>21, RowTypes DEF Resolved, LeadRow
  <2>2. PICK x \in Leads : Belongs(x, c, r)
    <3>1. CASE lead[l].by \in {Saved, r}
      BY <2>1, <3>1 DEF Belongs
    <3>2. CASE lead[l].by \notin {Saved, r}
      <4>1. contact[c] = Saved
        BY <2>1, <3>2, <1>1, <1>4, <1>12 DEF LeadSound, Writers
      <4>2. \E x \in Leads : Belongs(x, c, Saved)
        BY <4>1, <1>1, <1>4, <1>21 DEF ContactSound
      <4> QED BY <4>2 DEF Belongs
    <3> QED BY <3>1, <3>2
  <2>3. x \notin OpenLeads(r)
    BY <1>2, <1>21
  <2>4. lead[x].status = "closed" \/ Closing(x, c, r)
    BY <2>2, <2>3, <1>c, Zenon DEF OpenLeads, Visible, Closing, Belongs
  <2>5. CASE lead[x].status = "closed"
    <3>1. lead[x].by # r
      BY <2>5, <1>1 DEF LeadSound
    <3>2. Turned(x, c)
      BY <2>2, <2>5, <3>1 DEF Belongs, Turned
    <3> QED BY <3>2, <1>20
  <2>6. CASE Closing(x, c, r)
    BY <2>6, <1>20
  <2> QED BY <2>4, <2>5, <2>6
<1>22. ASSUME NEW d \in Contacts \ Known, NEW k \in Leads, NEW l \in Leads \ {k}
       PROVE  PairSound(k, l, d)'
  <2>1. CASE k # n /\ l # n
    <3>1. PairSound(k, l, d)
      BY <1>1
    <3>2. lead'[k] = lead[k] /\ lead'[l] = lead[l]
      BY <1>10, <2>1
    <3>3. (Resolved(k, d)' => Resolved(k, d)) /\ (Resolved(l, d)' => Resolved(l, d))
      BY <3>2 DEF Resolved
    <3> QED BY <3>1, <3>2, <3>3, <1>20 DEF PairSound
  <2>2. Resolved(n, d)' => d = c /\ req[r].kind # "enquiry" /\ lead'[n].by = r
    BY <1>8, <1>10 DEF Resolved
  <2>3. CASE k = n
    BY <2>2, <2>3, <1>21 DEF PairSound
  <2>4. CASE l = n
    BY <2>2, <2>4, <1>21 DEF PairSound
  <2> QED BY <2>1, <2>3, <2>4
<1> QED BY <1>11, <1>16, <1>17, <1>18, <1>19, <1>22 DEF InboxInv

\* A message is put on the lead its request works with.
LEMMA StoreStep == ASSUME InboxInv, NEW r \in Requests, Store(r) PROVE InboxInv'
PROOF
<1>n. PICK n : n = Message(r)
  OBVIOUS
<1>c. PICK c : c = req[r].contact
  OBVIOUS
<1>l. PICK l : l = req[r].lead
  OBVIOUS
<1>1. TypeOK /\ RequestSound(r)
  BY DEF InboxInv
<1>2. /\ req[r].step = "storing"
      /\ thread' = [thread EXCEPT ![c] = IF @.by = Absent THEN [by |-> r, lead |-> l] ELSE @]
      /\ row' = [row EXCEPT ![n].lead = l]
      /\ Goto(r, "reading")
      /\ UNCHANGED <<contact, lead, due, outside, undone, silenced, crashes>>
  BY <1>n, <1>c, <1>l DEF Store, At
<1>3. /\ req[r].kind = "delivery" /\ n = req[r].batch[req[r].at]
      /\ req[r].at \in 1..Len(req[r].batch)
      /\ c = From[n] /\ contact[c] \in {Saved, r} /\ Belongs(l, c, r)
  BY <1>1, <1>2, <1>n, <1>c, <1>l DEF RequestSound, Message
<1>4. n \in Messages
  <2>1. req[r].batch \in Seq(Messages)
    BY <1>1, RowTypes DEF ReqRow
  <2> QED BY <2>1, <1>3
<1>5. /\ req' \in [Requests -> ReqRow]
      /\ req'[r].kind = "delivery" /\ req'[r].step = "reading" /\ req'[r].contact = c
      /\ req'[r].batch = req[r].batch /\ req'[r].at = req[r].at /\ req'[r].lead = l
      /\ \A q \in Requests \ {r} : req'[q] = req[q]
  BY <1>1, <1>2, <1>3, <1>c, <1>l, GotoTyped DEF Steps
<1>6. l \in Leads
  BY <1>3 DEF Belongs
<1>7. /\ row' \in [Messages -> MessageRow] /\ row'[n].lead = l /\ row'[n].by = row[n].by
      /\ \A m \in Messages \ {n} : row'[m] = row[m]
  <2> DEFINE new == [row[n] EXCEPT !.lead = l]
  <2>1. row \in [Messages -> MessageRow] /\ row[n] \in MessageRow
    BY <1>1, <1>4 DEF TypeOK
  <2>2. new \in MessageRow /\ new.lead = l /\ new.by = row[n].by
    BY <2>1, <1>6 DEF MessageRow
  <2>3. row' = [row EXCEPT ![n] = new]
    BY <1>2
  <2> HIDE DEF new
  <2> QED BY <2>1, <2>2, <2>3, <1>4
<1>8. thread' \in [Contacts -> Thread]
  <2>1. [by |-> r, lead |-> l] \in Thread
    BY <1>6 DEF Thread, Writers
  <2>2. thread \in [Contacts -> Thread]
    BY <1>1 DEF TypeOK
  <2> QED BY <2>1, <2>2, <1>2
<1>9. TypeOK'
  BY <1>1, <1>2, <1>5, <1>7, <1>8 DEF TypeOK
<1>10. LeadsKept
  BY <1>2 DEF LeadsKept
<1>11. \A m \in Messages : (Handles(r, m) <=> m = n) /\ (Handles(r, m)' <=> m = n)
  <2>1. Message(r)' = n /\ Message(r) = n
    BY <1>3, <1>5, <1>n DEF Message
  <2>2. req[r].step \in Early \cup Late /\ req'[r].step \in Early \cup Late
    BY <1>2, <1>5 DEF Early, Late
  <2> QED BY <2>1, <2>2, <1>3, <1>5 DEF Handles
<1>12. contact' = contact /\ undone' = undone /\ outside' = outside /\ lead' = lead
       /\ req[r].step = "storing"
  BY <1>2
<1>13. Belongs(l, c, r)'
  <2>1. Belongs(l, c, r)
    BY <1>3
  <2> QED BY <2>1, <1>12 DEF Belongs
<1>14. RequestSound(r)'
  <2>1. \A m \in Messages : Handles(r, m)' => row'[m].by = r /\ outside'[m] <= undone'[m]
    BY <1>1, <1>7, <1>11, <1>12 DEF RequestSound
  <2>2. req'[r].at \in 1..Len(req'[r].batch) /\ req'[r].contact = From[req'[r].batch[req'[r].at]]
    BY <1>3, <1>5
  <2>3. contact'[req'[r].contact] \in {Saved, r}
    BY <1>3, <1>5, <1>12
  <2> QED BY <1>5, <1>13, <2>1, <2>2, <2>3 DEF RequestSound, Late
<1>15. \A m \in Messages :
         /\ row'[m].by = row[m].by
         /\ row'[m].lead = row[m].lead \/ (Handles(r, m) /\ Belongs(row'[m].lead, From[m], r))
         /\ Handles(r, m) => Belongs(row'[m].lead, From[m], r)
  BY <1>3, <1>7, <1>11
<1> QED BY <1>5, <1>9, <1>10, <1>14, <1>12, <1>15, RequestProgress

-----------------------------------------------------------------------------
(* The AI's turn *)

\* A request in its turn handles the message it has stored.
LEMMA Turning ==
  ASSUME InboxInv, NEW r \in Requests, req[r].step \in Late
  PROVE  /\ TypeOK /\ RequestSound(r) /\ req[r] \in ReqRow
         /\ req[r].kind = "delivery" /\ req[r].step # "committing" /\ req[r].step \notin Early
         /\ Message(r) \in Messages /\ Handles(r, Message(r))
         /\ req[r].lead \in Leads /\ lead[req[r].lead].by \in {Saved, r}
PROOF
<1>1. TypeOK /\ RequestSound(r) /\ req[r] \in ReqRow
  BY RowTypes DEF InboxInv
<1>2. req[r].kind = "delivery" /\ req[r].step # "committing" /\ req[r].step \notin Early
  BY <1>1 DEF RequestSound, Late, Early
<1>3. /\ req[r].at \in 1..Len(req[r].batch) /\ req[r].batch \in Seq(Messages)
      /\ req[r].lead \in Leads /\ lead[req[r].lead].by \in {Saved, r}
  BY <1>1, <1>2 DEF RequestSound, ReqRow, Belongs
<1>4. Message(r) \in Messages
  BY <1>3 DEF Message
<1> QED BY <1>1, <1>2, <1>3, <1>4 DEF Handles

\* A request that stays with its message has not answered it.
LEMMA StayProgress ==
  ASSUME InboxInv, TypeOK', NEW r \in Requests, LeadsKept, contact' = contact, undone' = undone,
         outside' = outside, req[r].step \in Late, req'[r].step \in Late,
         req'[r].kind = req[r].kind, req'[r].batch = req[r].batch, req'[r].at = req[r].at,
         req'[r].contact = req[r].contact, req'[r].lead = req[r].lead,
         \A q \in Requests \ {r} : req'[q] = req[q],
         \A m \in Messages : row'[m].by = row[m].by /\ row'[m].lead = row[m].lead
  PROVE  InboxInv'
PROOF
<1>1. RequestSound(r) /\ req[r].kind = "delivery" /\ req[r].step \notin Early
      /\ req[r].step # "matching" /\ req[r].step # "committing" /\ req'[r].step # "committing"
      /\ req'[r].step \notin {"resolving", "matching"}
  BY Turning DEF Early, Late
<1>2. \A m \in Messages : Handles(r, m)' <=> Handles(r, m)
  <2>1. Message(r)' = Message(r)
    BY DEF Message
  <2> QED BY <2>1 DEF Handles
<1>3. \A l, c, q : Belongs(l, c, q) <=> Belongs(l, c, q)'
  BY KeptLeads
<1>4. RequestSound(r)'
  <2>1. \A m \in Messages : Handles(r, m)' => row'[m].by = r /\ outside'[m] <= undone'[m]
    BY <1>1, <1>2 DEF RequestSound
  <2>2. Belongs(req[r].lead, req[r].contact, r) /\ contact[req[r].contact] \in {Saved, r}
    BY <1>1 DEF RequestSound
  <2>3. req[r].at \in 1..Len(req[r].batch) /\ req[r].contact = From[req[r].batch[req[r].at]]
    BY <1>1 DEF RequestSound
  <2> QED BY <1>1, <1>3, <2>1, <2>2, <2>3 DEF RequestSound
<1> QED BY <1>1, <1>2, <1>4, RequestProgress

\* A field of the message's row that the invariant does not look at.
LEMMA MessageNoted ==
  ASSUME TypeOK, NEW n \in Messages, NEW new \in MessageRow,
         new.by = row[n].by, new.lead = row[n].lead, row' = [row EXCEPT ![n] = new]
  PROVE  /\ row' \in [Messages -> MessageRow]
         /\ \A m \in Messages : row'[m].by = row[m].by /\ row'[m].lead = row[m].lead
BY DEF TypeOK

\* Locking a lead that is free takes no other request's hold.
LEMMA LeadLocked ==
  ASSUME TypeOK, NEW r \in Requests, NEW l \in Leads, Free(l, r), NEW b \in BOOLEAN,
         lead[l].by \in {Saved, r},
         lead' \in {Lock(l, r), [Lock(l, r) EXCEPT ![l].closing = @ \/ b]}
  PROVE  lead' \in [Leads -> LeadRow] /\ LeadsKept
PROOF
<1> DEFINE held == [lead[l] EXCEPT !.holder = r]
           closed == [lead[l] EXCEPT !.holder = r, !.closing = @ \/ b]
<1>1. lead \in [Leads -> LeadRow] /\ lead[l] \in LeadRow
  BY DEF TypeOK
<1>2. /\ held \in LeadRow /\ held.by = lead[l].by /\ held.contact = lead[l].contact
      /\ held.via = lead[l].via /\ held.status = lead[l].status /\ held.holder = r
      /\ held.closing <=> lead[l].closing
  BY <1>1 DEF LeadRow
<1>3. /\ closed.by = lead[l].by /\ closed.contact = lead[l].contact
      /\ closed.via = lead[l].via /\ closed.status = lead[l].status /\ closed.holder = r
      /\ lead[l].closing => closed.closing
  BY <1>1 DEF LeadRow
<1>4. closed \in LeadRow
  BY <1>1 DEF LeadRow
<1>5. \/ lead' = [lead EXCEPT ![l] = held]
      \/ lead' = [lead EXCEPT ![l] = closed]
  BY <1>1 DEF Lock
<1> HIDE DEF held, closed
<1>6. /\ lead' \in [Leads -> LeadRow] /\ lead'[l] \in {held, closed}
      /\ \A k \in Leads \ {l} : lead'[k] = lead[k]
  BY <1>1, <1>2, <1>4, <1>5
<1>7. /\ lead'[l].by = lead[l].by /\ lead'[l].contact = lead[l].contact
      /\ lead'[l].via = lead[l].via /\ lead'[l].status = lead[l].status /\ lead'[l].holder = r
      /\ lead[l].closing => lead'[l].closing
  BY <1>2, <1>3, <1>6
<1>8. \A q \in Requests : lead[l].holder = q => q = r
  BY Apart DEF Free
<1>9. LeadsKept
  BY <1>6, <1>7, <1>8, Zenon DEF LeadsKept
<1> QED BY <1>6, <1>9

\* What the executors leave is what a message's row may hold.
LEMMA PlanTypes ==
  /\ \A plan \in Plans \cup {NoPlan} : plan.human \in BOOLEAN
  /\ \A plan : Effect(plan) \subseteq Acts \cup {"handoff"}
  /\ \A plan : plan.action = "CALL_NOW" => Silent(plan)
PROOF
<1>1. \A x \in Readings : NeedsHuman(x) \in BOOLEAN
  BY DEF NeedsHuman
<1>2. \A x \in Readings : Plan(x).human = NeedsHuman(x)
  BY DEF Plan
<1>3. \A plan \in Plans : plan.human \in BOOLEAN
  BY <1>1, <1>2 DEF Plans
<1>4. NoPlan.human \in BOOLEAN
  BY DEF NoPlan
<1>5. \A plan : Effect(plan) \subseteq Acts \cup {"handoff"}
  BY DEF Effect, Acts
<1>6. \A plan : plan.action = "CALL_NOW" => Silent(plan)
  BY DEF Silent
<1> QED BY <1>3, <1>4, <1>5, <1>6

\* A turn is skipped.
LEMMA SkipStep == ASSUME InboxInv, NEW r \in Requests, SkipTurn(r) PROVE InboxInv'
PROOF
<1>1. /\ req[r].step = "reading" /\ req' = [req EXCEPT ![r] = NextEvent(r)]
      /\ UNCHANGED <<contact, lead, thread, row, due, outside, undone, silenced, crashes>>
  BY DEF SkipTurn, At
<1>2. req[r].step \in Late
  BY <1>1 DEF Late
<1>3. TypeOK /\ RequestSound(r) /\ req[r].kind = "delivery" /\ req[r].step # "committing"
      /\ req \in [Requests -> ReqRow]
  BY <1>2, Turning DEF TypeOK
<1>4. NextEvent(r) \in ReqRow
  BY <1>3, NextEventType
<1>5. /\ req' \in [Requests -> ReqRow] /\ req'[r] = NextEvent(r)
      /\ \A q \in Requests \ {r} : req'[q] = req[q]
  BY <1>1, <1>3, <1>4
<1>6. TypeOK'
  BY <1>1, <1>3, <1>5 DEF TypeOK
<1>7. LeadsKept
  BY <1>1 DEF LeadsKept
<1> QED BY <1>1, <1>2, <1>3, <1>5, <1>6, <1>7, LeaveProgress

\* What was understood is written to the lead, and a plan is made.
LEMMA UnderstandStep ==
  ASSUME InboxInv, NEW r \in Requests, NEW plan \in Plans, NEW learns \in BOOLEAN,
         NEW broken \in BOOLEAN, Understand(r, plan, learns, broken)
  PROVE  InboxInv'
PROOF
<1>n. PICK n : n = Message(r)
  OBVIOUS
<1> DEFINE new == [req[r] EXCEPT !.plan = plan, !.broken = broken, !.step = "acting"]
           noted == [row[n] EXCEPT !.human = plan.human]
<1>1. /\ req[r].step = "reading" /\ row' = [row EXCEPT ![n].human = plan.human]
      /\ req' = [req EXCEPT ![r].plan = plan, ![r].broken = broken, ![r].step = "acting"]
      /\ UNCHANGED <<contact, thread, due, outside, undone, silenced, crashes>>
  BY <1>n DEF Understand, At
<1>2. req[r].step \in Late
  BY <1>1 DEF Late
<1>3. TypeOK /\ req[r] \in ReqRow /\ n \in Messages /\ req[r].lead \in Leads
      /\ req \in [Requests -> ReqRow] /\ row[n] \in MessageRow
  BY <1>2, <1>n, Turning, RowTypes DEF TypeOK
<1>4. /\ new \in ReqRow /\ new.kind = req[r].kind /\ new.batch = req[r].batch
      /\ new.at = req[r].at /\ new.contact = req[r].contact /\ new.lead = req[r].lead
      /\ new.step = "acting"
  <2>1. new.kind = req[r].kind /\ new.batch = req[r].batch
        /\ new.at = req[r].at /\ new.contact = req[r].contact /\ new.lead = req[r].lead
        /\ new.step = "acting"
    BY <1>3 DEF ReqRow
  <2>2. new \in ReqRow
    BY <1>3 DEF ReqRow, Steps
  <2> QED BY <2>1, <2>2
<1>5. /\ req' \in [Requests -> ReqRow] /\ req'[r] = new
      /\ \A q \in Requests \ {r} : req'[q] = req[q]
  <2>1. req' = [req EXCEPT ![r] = new]
    BY <1>1
  <2> HIDE DEF new
  <2> QED BY <2>1, <1>3, <1>4
<1>6. noted \in MessageRow /\ noted.by = row[n].by /\ noted.lead = row[n].lead
  <2>1. \A b \in BOOLEAN : LET x == [row[n] EXCEPT !.human = b]
                           IN x \in MessageRow /\ x.by = row[n].by /\ x.lead = row[n].lead
    BY <1>3 DEF MessageRow
  <2>2. plan.human \in BOOLEAN
    BY PlanTypes
  <2> QED BY <2>1, <2>2
<1>7. /\ row' \in [Messages -> MessageRow]
      /\ \A m \in Messages : row'[m].by = row[m].by /\ row'[m].lead = row[m].lead
  <2>1. row' = [row EXCEPT ![n] = noted]
    BY <1>1
  <2> HIDE DEF noted
  <2> QED BY <2>1, <1>3, <1>6, MessageNoted
<1>8. lead' \in [Leads -> LeadRow] /\ LeadsKept
  <2>1. CASE learns /\ ~broken
    <3>1. Free(req[r].lead, r) /\ lead' = Lock(req[r].lead, r)
      BY <2>1 DEF Understand
    <3>2. lead' \in {Lock(req[r].lead, r),
                     [Lock(req[r].lead, r) EXCEPT ![req[r].lead].closing = @ \/ TRUE]}
      BY <3>1
    <3>3. req[r].lead \in Leads /\ lead[req[r].lead].by \in {Saved, r} /\ TypeOK
      BY <1>2, Turning
    <3> QED BY <3>1, <3>2, <3>3, LeadLocked
  <2>2. CASE ~(learns /\ ~broken)
    <3>1. lead' = lead
      BY <2>2 DEF Understand
    <3> QED BY <3>1, <1>3 DEF TypeOK, LeadsKept
  <2> QED BY <2>1, <2>2
<1> HIDE DEF new, noted
<1>9. TypeOK'
  BY <1>1, <1>3, <1>5, <1>7, <1>8 DEF TypeOK
<1>10. req'[r].step \in Late
  BY <1>4, <1>5 DEF Late
<1> QED BY <1>1, <1>2, <1>4, <1>5, <1>7, <1>8, <1>9, <1>10, StayProgress

\* A turn that ends: what is written of the message, and where the request goes.
LEMMA TurnEnded ==
  ASSUME InboxInv, NEW r \in Requests, req[r].step \in Late, NEW turn \in Turns, NEW b \in BOOLEAN,
         TurnEnds(r, turn, b),
         UNCHANGED <<contact, lead, thread, due, undone, silenced, crashes>>,
         \A m \in Messages :
           \/ outside'[m] = outside[m]
           \/ m = Message(r) /\ outside'[m] = outside[m] + 1,
         outside' \in [Messages -> Nat]
  PROVE  InboxInv'
PROOF
<1>n. PICK n : n = Message(r)
  OBVIOUS
<1> DEFINE noted == [row[n] EXCEPT !.turn = turn]
           new == [NextEvent(r) EXCEPT !.broken = b]
<1>1. row' = [row EXCEPT ![n] = noted] /\ req' = [req EXCEPT ![r] = new]
  BY <1>n DEF TurnEnds
<1>2. /\ TypeOK /\ RequestSound(r) /\ req[r].kind = "delivery" /\ req[r].step # "committing"
      /\ n \in Messages /\ Handles(r, n) /\ req \in [Requests -> ReqRow] /\ row[n] \in MessageRow
  BY <1>n, Turning, RowTypes DEF TypeOK
<1>3. noted \in MessageRow /\ noted.by = row[n].by /\ noted.lead = row[n].lead
  BY <1>2 DEF MessageRow
<1>4. new \in ReqRow
  BY <1>2, NextEventType
<1> HIDE DEF noted
<1>5. /\ row' \in [Messages -> MessageRow]
      /\ \A m \in Messages : row'[m].by = row[m].by /\ row'[m].lead = row[m].lead
  BY <1>1, <1>2, <1>3, MessageNoted
<1>6. /\ req' \in [Requests -> ReqRow] /\ req'[r] = new
      /\ \A q \in Requests \ {r} : req'[q] = req[q]
  <2> HIDE DEF new
  <2> QED BY <1>1, <1>2, <1>4
<1>7. TypeOK'
  <2> HIDE DEF new
  <2> QED BY <1>2, <1>5, <1>6 DEF TypeOK
<1>8. LeadsKept
  BY DEF LeadsKept
<1>9. \A m \in Messages : \/ outside'[m] = outside[m]
                          \/ Handles(r, m) /\ outside'[m] = outside[m] + 1
  BY <1>n, <1>2
<1> QED BY <1>2, <1>5, <1>6, <1>7, <1>8, <1>9, LeaveProgress

\* An executor raises.
LEMMA ActFailsStep ==
  ASSUME InboxInv, NEW r \in Requests, NEW b \in BOOLEAN, ActFails(r, b)
  PROVE  InboxInv'
PROOF
<1>1. req[r].step \in Late
  BY DEF ActFails, At, Late
<1>2. /\ TurnEnds(r, "failed", b)
      /\ UNCHANGED <<contact, lead, thread, due, outside, undone, silenced, crashes>>
      /\ "failed" \in Turns
  BY DEF ActFails, Turns
<1>3. outside' \in [Messages -> Nat]
  BY <1>2 DEF InboxInv, TypeOK
<1> QED BY <1>1, <1>2, <1>3, TurnEnded

\* The reply is sent, once.
LEMMA ReplyStep ==
  ASSUME InboxInv, NEW r \in Requests, NEW recorded \in BOOLEAN, NEW b \in BOOLEAN,
         Reply(r, recorded, b)
  PROVE  InboxInv'
PROOF
<1> DEFINE turn == IF recorded \/ Plain(req[r].plan) THEN "done" ELSE "failed"
<1>1. req[r].step \in Late
  BY DEF Reply, At, Late
<1>2. /\ TurnEnds(r, turn, b)
      /\ outside' = [outside EXCEPT ![Message(r)] = @ + 1]
      /\ UNCHANGED <<contact, lead, thread, due, undone, silenced, crashes>>
  BY DEF Reply
<1>3. turn \in Turns
  BY DEF Turns
<1>4. outside \in [Messages -> Nat] /\ Message(r) \in Messages
  BY <1>1, Turning DEF TypeOK
<1>5. outside' \in [Messages -> Nat]
      /\ \A m \in Messages : \/ outside'[m] = outside[m]
                             \/ m = Message(r) /\ outside'[m] = outside[m] + 1
  BY <1>2, <1>4
<1> HIDE DEF turn
<1> QED BY <1>1, <1>2, <1>3, <1>5, TurnEnded

\* No reply is sent.
LEMMA ReplyFailsStep == ASSUME InboxInv, NEW r \in Requests, ReplyFails(r) PROVE InboxInv'
PROOF
<1>1. req[r].step \in Late
  BY DEF ReplyFails, At, Late
<1>2. /\ \E turn \in Turns : TurnEnds(r, turn, FALSE)
      /\ UNCHANGED <<contact, lead, thread, due, outside, undone, silenced, crashes>>
  BY DEF ReplyFails, Turns
<1>3. outside' \in [Messages -> Nat]
  BY <1>2 DEF InboxInv, TypeOK
<1> QED BY <1>1, <1>2, <1>3, TurnEnded

\* The executor writes: a call is placed by a turn that ends with it.
LEMMA ActStep == ASSUME InboxInv, NEW r \in Requests, Act(r) PROVE InboxInv'
PROOF
<1>n. PICK n : n = Message(r)
  OBVIOUS
<1>p. PICK plan : plan = req[r].plan
  OBVIOUS
<1>t. PICK turn : turn = IF Silent(plan) THEN "done" ELSE "none"
  OBVIOUS
<1> DEFINE noted == [row[n] EXCEPT !.did = @ \cup Effect(plan), !.turn = turn]
           new == IF Silent(plan) THEN NextEvent(r) ELSE [req[r] EXCEPT !.step = "replying"]
<1>1. /\ req[r].step = "acting"
      /\ row' = [row EXCEPT ![n] = noted]
      /\ outside' = [outside EXCEPT ![n] = IF plan.action = "CALL_NOW" THEN @ + 1 ELSE @]
      /\ req' = [req EXCEPT ![r] = new]
      /\ UNCHANGED <<contact, thread, due, undone, silenced, crashes>>
  <2>1. row' = [row EXCEPT ![n] = noted]
    BY <1>n, <1>p, <1>t DEF Act
  <2>2. req' = [req EXCEPT ![r] = new]
    BY <1>p DEF Act
  <2> QED BY <2>1, <2>2, <1>n, <1>p DEF Act, At
<1>2. req[r].step \in Late
  BY <1>1 DEF Late
<1>3. /\ TypeOK /\ RequestSound(r) /\ req[r].kind = "delivery" /\ req[r].step # "committing"
      /\ req[r] \in ReqRow /\ req[r].lead \in Leads /\ outside \in [Messages -> Nat]
      /\ n \in Messages /\ Handles(r, n) /\ req \in [Requests -> ReqRow] /\ row[n] \in MessageRow
  BY <1>2, <1>n, Turning, RowTypes DEF TypeOK
<1>4. noted \in MessageRow /\ noted.by = row[n].by /\ noted.lead = row[n].lead
  <2>1. turn \in Turns
    BY <1>t DEF Turns
  <2>2. row[n].did \cup Effect(plan) \in SUBSET (Acts \cup {"handoff"})
    BY <1>3, PlanTypes DEF MessageRow
  <2>3. \A x \in SUBSET (Acts \cup {"handoff"}) :
          LET y == [row[n] EXCEPT !.did = x, !.turn = turn]
          IN y \in MessageRow /\ y.by = row[n].by /\ y.lead = row[n].lead
    BY <1>3, <2>1 DEF MessageRow
  <2>4. PICK x \in SUBSET (Acts \cup {"handoff"}) : x = row[n].did \cup Effect(plan)
    BY <2>2
  <2>5. noted = [row[n] EXCEPT !.did = x, !.turn = turn]
    BY <2>4
  <2> HIDE DEF noted
  <2> QED BY <2>3, <2>4, <2>5, Zenon
<1> HIDE DEF noted
<1>5. /\ row' \in [Messages -> MessageRow]
      /\ \A m \in Messages : row'[m].by = row[m].by /\ row'[m].lead = row[m].lead
  BY <1>1, <1>3, <1>4, MessageNoted
<1>6. new \in ReqRow
  <2>1. NextEvent(r) \in ReqRow
    BY <1>3, NextEventType
  <2>2. [req[r] EXCEPT !.step = "replying"] \in ReqRow
    BY <1>3 DEF ReqRow, Steps
  <2> QED BY <2>1, <2>2
<1>7. /\ req' \in [Requests -> ReqRow] /\ req'[r] = new
      /\ \A q \in Requests \ {r} : req'[q] = req[q]
  <2> HIDE DEF new
  <2> QED BY <1>1, <1>3, <1>6
<1>8. lead' \in [Leads -> LeadRow] /\ LeadsKept
  <2>1. CASE Locks(plan)
    <3> DEFINE b == plan.action = "MARK_NOT_INTERESTED"
    <3>1. /\ Free(req[r].lead, r)
          /\ lead' = [Lock(req[r].lead, r) EXCEPT ![req[r].lead].closing = @ \/ b]
      BY <2>1, <1>p DEF Act
    <3>2. b \in BOOLEAN
      OBVIOUS
    <3> HIDE DEF b
    <3>3. req[r].lead \in Leads /\ lead[req[r].lead].by \in {Saved, r} /\ TypeOK
      BY <1>2, Turning
    <3> QED BY <3>1, <3>2, <3>3, LeadLocked
  <2>2. CASE ~Locks(plan)
    <3>1. lead' = lead
      BY <2>2, <1>p DEF Act
    <3> QED BY <3>1, <1>3 DEF TypeOK, LeadsKept
  <2> QED BY <2>1, <2>2
<1>9. /\ outside' \in [Messages -> Nat]
      /\ \A m \in Messages : \/ outside'[m] = outside[m]
                             \/ Handles(r, m) /\ outside'[m] = outside[m] + 1
      /\ ~Silent(plan) => outside' = outside
  BY <1>1, <1>3, PlanTypes
<1>10. TypeOK'
  <2> HIDE DEF new
  <2> QED BY <1>1, <1>3, <1>5, <1>7, <1>8, <1>9 DEF TypeOK
<1>11. CASE Silent(plan)
  <2>1. req'[r] = NextEvent(r)
    BY <1>7, <1>11
  <2> QED BY <2>1, <1>1, <1>2, <1>3, <1>5, <1>7, <1>8, <1>9, <1>10, LeaveProgress
<1>12. CASE ~Silent(plan)
  <2>1. req'[r] = [req[r] EXCEPT !.step = "replying"]
    BY <1>7, <1>12
  <2>2. /\ req'[r].kind = req[r].kind /\ req'[r].batch = req[r].batch /\ req'[r].at = req[r].at
        /\ req'[r].contact = req[r].contact /\ req'[r].lead = req[r].lead
        /\ req'[r].step = "replying"
    BY <2>1, <1>3 DEF ReqRow
  <2>3. req'[r].step \in Late
    BY <2>2 DEF Late
  <2> HIDE DEF new
  <2> QED BY <2>2, <2>3, <1>1, <1>2, <1>5, <1>7, <1>8, <1>9, <1>10, <1>12, StayProgress
<1> QED BY <1>11, <1>12

-----------------------------------------------------------------------------
(* A transaction ends *)

\* How a lead's row ends with the transaction of r.
LeadEnds(l, r, kept) ==
  \/ ~kept /\ lead[l].by = r /\ lead'[l] = NoLead
  \/ /\ kept \/ lead[l].by # r
     /\ lead'[l].by = Ended(lead[l].by, r, kept)
     /\ lead'[l].contact = lead[l].contact /\ lead'[l].via = lead[l].via
     /\ lead'[l].holder = IF lead[l].holder = r THEN None ELSE lead[l].holder
     /\ lead[l].closing /\ lead[l].holder # r => lead'[l].closing
     /\ lead'[l].status = IF kept /\ lead[l].closing /\ lead[l].holder = r THEN "closed"
                          ELSE lead[l].status

\* The rows of a transaction become visible, or vanish; the others stay.
LEMMA LeadsEnd ==
  ASSUME TypeOK, NEW r \in Requests, NEW kept \in BOOLEAN, Ends(r, kept)
  PROVE  lead' \in [Leads -> LeadRow] /\ \A l \in Leads : LeadEnds(l, r, kept)
PROOF
<1>1. lead' = [l \in Leads |-> EndedLead(lead[l], r, kept)]
  BY DEF Ends
<1>2. ASSUME NEW x \in LeadRow
      PROVE  /\ EndedLead(x, r, kept) \in LeadRow
             /\ \/ ~kept /\ x.by = r /\ EndedLead(x, r, kept) = NoLead
                \/ /\ kept \/ x.by # r
                   /\ EndedLead(x, r, kept).by = Ended(x.by, r, kept)
                   /\ EndedLead(x, r, kept).contact = x.contact
                   /\ EndedLead(x, r, kept).via = x.via
                   /\ EndedLead(x, r, kept).holder = IF x.holder = r THEN None ELSE x.holder
                   /\ x.closing /\ x.holder # r => EndedLead(x, r, kept).closing
                   /\ EndedLead(x, r, kept).status =
                        IF kept /\ x.closing /\ x.holder = r THEN "closed" ELSE x.status
  <2> DEFINE With(b, h, k, s) == [x EXCEPT !.by = b, !.holder = h, !.closing = k, !.status = s]
  <2>1. NoLead \in LeadRow
    BY DEF NoLead, LeadRow, Writers, Statuses
  <2>2. PICK b \in Writers : b = Ended(x.by, r, kept)
    BY DEF Ended, LeadRow, Writers
  <2>3. PICK h \in Requests \cup {None} : h = IF x.holder = r THEN None ELSE x.holder
    BY DEF LeadRow
  <2>4. x.closing \in BOOLEAN
    BY DEF LeadRow
  <2>5. PICK k \in BOOLEAN : k = (x.closing /\ x.holder # r)
    BY <2>4
  <2>6. PICK s \in Statuses : s = IF kept /\ x.closing /\ x.holder = r THEN "closed" ELSE x.status
    BY DEF LeadRow, Statuses
  <2>7. ~(~kept /\ x.by = r) => EndedLead(x, r, kept) = With(b, h, k, s)
    BY <2>2, <2>3, <2>5, <2>6 DEF EndedLead
  <2>8. With(b, h, k, s) \in LeadRow
    BY DEF LeadRow
  <2>9. /\ With(b, h, k, s).by = b /\ With(b, h, k, s).contact = x.contact
        /\ With(b, h, k, s).via = x.via /\ With(b, h, k, s).holder = h
        /\ With(b, h, k, s).status = s
    BY DEF LeadRow
  <2>10. With(b, h, k, s).closing = k
    BY DEF LeadRow
  <2> HIDE DEF With
  <2>11. CASE ~kept /\ x.by = r
    <3>1. EndedLead(x, r, kept) = NoLead
      BY <2>11 DEF EndedLead
    <3> QED BY <2>1, <2>11, <3>1
  <2>12. CASE ~(~kept /\ x.by = r)
    <3>1. PICK e : e = EndedLead(x, r, kept)
      OBVIOUS
    <3>2. e = With(b, h, k, s)
      BY <2>7, <2>12, <3>1
    <3>3. e \in LeadRow /\ e.by = b /\ e.contact = x.contact /\ e.via = x.via
          /\ e.holder = h /\ e.status = s
      BY <2>8, <2>9, <3>2
    <3>4. x.closing /\ x.holder # r => e.closing
      BY <2>10, <2>5, <3>2
    <3>5. /\ EndedLead(x, r, kept) \in LeadRow
          /\ EndedLead(x, r, kept).by = Ended(x.by, r, kept)
          /\ EndedLead(x, r, kept).contact = x.contact
          /\ EndedLead(x, r, kept).via = x.via
          /\ EndedLead(x, r, kept).holder = IF x.holder = r THEN None ELSE x.holder
          /\ EndedLead(x, r, kept).status =
               IF kept /\ x.closing /\ x.holder = r THEN "closed" ELSE x.status
      BY <3>1, <3>3, <2>2, <2>3, <2>6
    <3>6. x.closing /\ x.holder # r => EndedLead(x, r, kept).closing
      BY <3>1, <3>4
    <3> QED BY <2>12, <3>5, <3>6
  <2> QED BY <2>11, <2>12
<1>3. \A l \in Leads : lead[l] \in LeadRow /\ lead'[l] = EndedLead(lead[l], r, kept)
  BY <1>1, RowTypes
<1>4. lead' \in [Leads -> LeadRow]
  BY <1>1, <1>2, <1>3
<1>5. ASSUME NEW l \in Leads PROVE LeadEnds(l, r, kept)
  <2>1. PICK x \in LeadRow : x = lead[l]
    BY <1>3
  <2>2. lead'[l] = EndedLead(x, r, kept)
    BY <1>3, <2>1
  <2> QED BY <1>2, <2>1, <2>2 DEF LeadEnds
<1> QED BY <1>4, <1>5

\* The tables a transaction leaves are tables.
LEMMA EndTypes ==
  ASSUME TypeOK, NEW r \in Requests, NEW kept \in BOOLEAN, Ends(r, kept),
         due' \in [Messages -> Nat], silenced' \subseteq Messages, crashes' \in 0..MaxCrashes
  PROVE  TypeOK'
PROOF
<1>1. contact' \in [Contacts -> Writers]
  <2>1. \A c \in Contacts : Ended(contact[c], r, kept) \in Writers
    BY RowTypes DEF Ended, Writers
  <2> QED BY <2>1 DEF Ends
<1>2. lead' \in [Leads -> LeadRow]
  BY LeadsEnd
<1>3. thread' \in [Contacts -> Thread]
  <2>1. NoThread \in Thread
    BY DEF NoThread, Thread, Writers
  <2>2. \A x \in Thread : [x EXCEPT !.by = Saved] \in Thread
    BY DEF Thread, Writers
  <2>3. \A c \in Contacts : thread[c] \in Thread
    BY RowTypes
  <2>4. thread' = [c \in Contacts |-> IF thread[c].by # r THEN thread[c]
                                      ELSE IF kept THEN [thread[c] EXCEPT !.by = Saved]
                                      ELSE NoThread]
    BY DEF Ends
  <2> QED BY <2>1, <2>2, <2>3, <2>4
<1>4. row' \in [Messages -> MessageRow]
  <2>1. NoRow \in MessageRow
    BY DEF NoRow, MessageRow, Writers, Turns
  <2>2. \A x \in MessageRow : [x EXCEPT !.by = Saved] \in MessageRow
    BY DEF MessageRow, Writers
  <2>3. \A m \in Messages : row[m] \in MessageRow
    BY RowTypes
  <2>4. row' = [m \in Messages |-> IF row[m].by # r THEN row[m]
                                   ELSE IF kept THEN [row[m] EXCEPT !.by = Saved]
                                   ELSE NoRow]
    BY DEF Ends
  <2> QED BY <2>1, <2>2, <2>3, <2>4
<1>5. undone' \in [Messages -> Nat]
  <2>1. \A m \in Messages : undone[m] \in Nat
    BY RowTypes
  <2>2. undone' = [m \in Messages |-> IF ~kept /\ m \in Written(r) THEN undone[m] + 1
                                      ELSE undone[m]]
    BY DEF Ends
  <2> QED BY <2>1, <2>2
<1>6. req' \in [Requests -> ReqRow] /\ outside' \in [Messages -> Nat]
  <2>1. req' = [req EXCEPT ![r] = Idle] /\ outside' = outside
    BY DEF Ends
  <2> QED BY <2>1, IdleType DEF TypeOK
<1> QED BY <1>1, <1>2, <1>3, <1>4, <1>5, <1>6 DEF TypeOK

\* What a transaction leaves when it ends: all it wrote, if it is kept, or nothing.
LEMMA EndsStep ==
  ASSUME InboxInv, NEW r \in Requests, NEW kept \in BOOLEAN, Ends(r, kept),
         kept => req[r].step = "committing",
         due' \in [Messages -> Nat], silenced' \subseteq Messages, crashes' \in 0..MaxCrashes
  PROVE  InboxInv'
PROOF
<1>1. /\ TypeOK
      /\ \A q \in Requests : RequestSound(q)
      /\ \A m \in Messages : MessageSound(m)
      /\ \A l \in Leads : LeadSound(l)
      /\ \A c \in Contacts : ContactSound(c)
      /\ \A c \in Contacts \ Known : \A k \in Leads : \A l \in Leads \ {k} : PairSound(k, l, c)
  BY DEF InboxInv
<1>2. TypeOK'
  BY <1>1, EndTypes
<1>3. /\ r # Absent /\ r # Saved /\ Saved # Absent
      /\ \A q \in Requests : q # Absent /\ q # Saved /\ q # None
  BY Apart
<1>4. \A l \in Leads : LeadEnds(l, r, kept)
  BY <1>1, LeadsEnd
<1>5. /\ req'[r] = Idle
      /\ \A q \in Requests \ {r} : req'[q] = req[q]
      /\ outside' = outside
  <2>1. req \in [Requests -> ReqRow]
    BY <1>1 DEF TypeOK
  <2> QED BY <2>1 DEF Ends
<1>6. \A c \in Contacts : contact'[c] = Ended(contact[c], r, kept)
  BY DEF Ends
<1>7. \A m \in Messages :
        /\ row[m].by # r => row'[m] = row[m] /\ undone'[m] = undone[m]
        /\ row[m].by = r /\ kept => /\ row'[m].by = Saved /\ row'[m].lead = row[m].lead
                                    /\ undone'[m] = undone[m]
        /\ row[m].by = r /\ ~kept => row'[m].by = Absent /\ undone'[m] = undone[m] + 1
  <2> SUFFICES ASSUME NEW m \in Messages
               PROVE  /\ row[m].by # r => row'[m] = row[m] /\ undone'[m] = undone[m]
                      /\ row[m].by = r /\ kept => /\ row'[m].by = Saved
                                                  /\ row'[m].lead = row[m].lead
                                                  /\ undone'[m] = undone[m]
                      /\ row[m].by = r /\ ~kept => row'[m].by = Absent /\ undone'[m] = undone[m] + 1
    OBVIOUS
  <2>1. undone'[m] = IF ~kept /\ row[m].by = r THEN undone[m] + 1 ELSE undone[m]
    BY DEF Ends, Written
  <2>2. row'[m] = IF row[m].by # r THEN row[m]
                  ELSE IF kept THEN [row[m] EXCEPT !.by = Saved]
                  ELSE NoRow
    BY DEF Ends
  <2>3. \A x \in MessageRow :
          [x EXCEPT !.by = Saved].by = Saved /\ [x EXCEPT !.by = Saved].lead = x.lead
    BY DEF MessageRow
  <2>4. row[m] \in MessageRow
    BY <1>1, RowTypes
  <2>5. NoRow.by = Absent
    BY DEF NoRow
  <2> QED BY <2>1, <2>2, <2>3, <2>4, <2>5
<1>8. \A l, c : \A q \in Requests \cup {Saved} : Belongs(l, c, q) /\ q # r => Belongs(l, c, q)'
  <2> SUFFICES ASSUME NEW l, NEW c, NEW q \in Requests \cup {Saved}, Belongs(l, c, q), q # r
               PROVE  Belongs(l, c, q)'
    OBVIOUS
  <2>1. l \in Leads /\ lead[l].by # r
    BY <1>3 DEF Belongs
  <2> QED BY <1>4, <2>1 DEF LeadEnds, Ended, Belongs
<1>9. \A l, c : kept /\ Belongs(l, c, r) => Belongs(l, c, Saved)'
  BY <1>4, <1>3 DEF LeadEnds, Ended, Belongs
<1>10. /\ \A m \in Messages : ~Handles(r, m)'
       /\ \A q \in Requests \ {r} : \A m \in Messages : Handles(q, m) <=> Handles(q, m)'
  BY <1>5 DEF Handles, Message, Idle
<1>11. ASSUME NEW q \in Requests PROVE RequestSound(q)'
  <2>1. CASE q = r
    BY <2>1, <1>5, <1>10 DEF RequestSound, Idle, Late
  <2>2. CASE q # r
    <3>1. RequestSound(q) /\ req'[q] = req[q]
      BY <1>1, <1>5, <2>2
    <3>2. \A m \in Messages : Handles(q, m)' => row'[m].by = q /\ outside'[m] <= undone'[m]
      <4> SUFFICES ASSUME NEW m \in Messages, Handles(q, m)'
                   PROVE  row'[m].by = q /\ outside'[m] <= undone'[m]
        OBVIOUS
      <4>1. row[m].by = q /\ outside[m] <= undone[m]
        BY <1>10, <2>2, <3>1 DEF RequestSound
      <4> QED BY <4>1, <1>5, <1>7, <2>2
    <3>3. \A c \in Contacts : contact[c] \in {Saved, q} => contact'[c] \in {Saved, q}
      BY <1>3, <1>6, <2>2 DEF Ended
    <3>4. req[q].step \in {"storing"} \cup Late => Belongs(req[q].lead, req[q].contact, q)'
      BY <3>1, <1>8, <2>2 DEF RequestSound
    <3>5. req[q].step \in {"matching", "storing"} \cup Late => req[q].contact \in Contacts
      <4>1. CASE req[q].step = "matching"
        BY <3>1, <4>1 DEF RequestSound
      <4>2. CASE req[q].step \in {"storing"} \cup Late
        <5>1. req[q].kind = "delivery" /\ req[q].step # "committing"
          BY <3>1, <4>2 DEF RequestSound, Late
        <5>2. req[q].at \in 1..Len(req[q].batch) /\ req[q].contact = From[req[q].batch[req[q].at]]
          BY <3>1, <5>1 DEF RequestSound
        <5>3. req[q].batch \in Seq(Messages)
          BY <1>1, RowTypes DEF ReqRow
        <5>4. From \in [Messages -> Contacts]
          BY Apart
        <5> QED BY <5>2, <5>3, <5>4
      <4> QED BY <4>1, <4>2
    <3> QED BY <3>1, <3>2, <3>3, <3>4, <3>5 DEF RequestSound
  <2> QED BY <2>1, <2>2
<1>12. ASSUME NEW m \in Messages PROVE MessageSound(m)'
  <2>1. MessageSound(m)
    BY <1>1
  <2>2. outside[m] \in Nat /\ undone[m] \in Nat
    BY <1>1, RowTypes
  <2>k. PICK k : k = row[m].lead
    OBVIOUS
  <2>3. CASE row[m].by # r
    <3>1. \A q \in Requests : row[m].by = q =>
            \/ Handles(q, m)' /\ req'[q].step \in Early
            \/ Belongs(k, From[m], q)'
      <4> SUFFICES ASSUME NEW q \in Requests, row[m].by = q
                   PROVE  \/ Handles(q, m)' /\ req'[q].step \in Early
                          \/ Belongs(k, From[m], q)'
        OBVIOUS
      <4>1. q # r
        BY <2>3
      <4>2. \/ Handles(q, m) /\ req[q].step \in Early
            \/ Belongs(k, From[m], q)
        BY <2>1, <2>k DEF MessageSound
      <4> QED BY <4>1, <4>2, <1>5, <1>8, <1>10
    <3>2. row[m].by = Saved => Belongs(k, From[m], Saved)'
      <4>1. row[m].by = Saved => Belongs(k, From[m], Saved)
        BY <2>1, <2>k DEF MessageSound
      <4> QED BY <4>1, <1>3, <1>8
    <3>3. row'[m] = row[m] /\ undone'[m] = undone[m] /\ outside'[m] = outside[m]
      BY <2>3, <1>5, <1>7
    <3> QED BY <2>1, <2>k, <3>1, <3>2, <3>3 DEF MessageSound
  <2>4. CASE row[m].by = r /\ kept
    <3>1. ~Handles(r, m)
      BY <2>4 DEF Handles, Early, Late
    <3>2. Belongs(row[m].lead, From[m], r)
      BY <2>1, <2>4, <3>1 DEF MessageSound
    <3>3. Belongs(k, From[m], Saved)'
      BY <3>2, <2>4, <2>k, <1>9
    <3>4. row'[m].by = Saved /\ row'[m].lead = row[m].lead /\ undone'[m] = undone[m]
          /\ outside'[m] = outside[m]
      BY <2>4, <1>5, <1>7
    <3> QED BY <2>1, <2>k, <3>3, <3>4, <1>3 DEF MessageSound
  <2>5. CASE row[m].by = r /\ ~kept
    <3>1. row'[m].by = Absent /\ undone'[m] = undone[m] + 1 /\ outside'[m] = outside[m]
      BY <2>5, <1>5, <1>7
    <3>2. outside[m] <= 1 + undone[m]
      BY <2>1 DEF MessageSound
    <3>3. outside'[m] <= undone'[m] /\ outside'[m] <= 1 + undone'[m]
      BY <2>2, <3>1, <3>2
    <3> QED BY <3>1, <3>3, <1>3 DEF MessageSound
  <2> QED BY <2>3, <2>4, <2>5
<1>13. ASSUME NEW l \in Leads PROVE LeadSound(l)'
  <2>1. LeadSound(l) /\ LeadEnds(l, r, kept)
    BY <1>1, <1>4
  <2>2. CASE lead'[l] = NoLead
    BY <2>2, <1>3 DEF LeadSound, NoLead
  <2>3. CASE lead'[l] # NoLead
    <3>1. lead[l].by # Absent => lead[l].contact \in Contacts
      BY <2>1 DEF LeadSound
    <3>2. /\ kept \/ lead[l].by # r
          /\ lead'[l].by = Ended(lead[l].by, r, kept)
          /\ lead'[l].contact = lead[l].contact
          /\ lead'[l].holder = IF lead[l].holder = r THEN None ELSE lead[l].holder
          /\ lead'[l].status = IF kept /\ lead[l].closing /\ lead[l].holder = r THEN "closed"
                               ELSE lead[l].status
      BY <2>1, <2>3 DEF LeadEnds
    <3>3. ASSUME NEW q \in Requests, lead'[l].by = q
          PROVE  lead'[l].status = "open" /\ contact'[lead'[l].contact] \in {Saved, q}
      <4>1. q # r /\ lead[l].by = q
        BY <3>2, <3>3, <1>3 DEF Ended
      <4>2. lead[l].status = "open" /\ contact[lead[l].contact] \in {Saved, q}
        BY <2>1, <4>1 DEF LeadSound
      <4>3. lead[l].holder # r
        BY <2>1, <4>1, <1>3 DEF LeadSound
      <4>4. lead'[l].status = "open"
        BY <3>2, <4>2, <4>3
      <4>5. contact'[lead[l].contact] = Ended(contact[lead[l].contact], r, kept)
        BY <3>1, <4>1, <1>3, <1>6
      <4>6. contact'[lead[l].contact] = contact[lead[l].contact]
        BY <4>1, <4>2, <4>5, <1>3 DEF Ended
      <4> QED BY <3>2, <4>2, <4>4, <4>6
    <3>4. ASSUME NEW q \in Requests, lead'[l].holder = q PROVE lead'[l].by \in {Saved, q}
      <4>1. q # r /\ lead[l].holder = q
        BY <3>2, <3>4, <1>3
      <4>2. lead[l].by \in {Saved, q}
        BY <2>1, <4>1 DEF LeadSound
      <4> QED BY <3>2, <4>1, <4>2, <1>3 DEF Ended
    <3>5. lead'[l].by # Absent => lead'[l].contact \in Contacts
      BY <3>1, <3>2, <1>3 DEF Ended
    <3> QED BY <3>3, <3>4, <3>5 DEF LeadSound
  <2> QED BY <2>2, <2>3
<1>14. ASSUME NEW c \in Contacts PROVE ContactSound(c)'
  <2>1. ContactSound(c) /\ contact'[c] = Ended(contact[c], r, kept)
    BY <1>1, <1>6
  <2>2. ASSUME contact'[c] = Saved, c \notin Known PROVE (\E l \in Leads : Belongs(l, c, Saved))'
    <3>1. CASE contact[c] = Saved
      BY <2>1, <2>2, <3>1, <1>3, <1>8 DEF ContactSound
    <3>2. CASE contact[c] # Saved
      <4>1. contact[c] = r /\ kept
        BY <2>1, <2>2, <3>2, <1>3 DEF Ended
      <4>2. \E l \in Leads : Belongs(l, c, r)
        BY <2>1, <4>1 DEF ContactSound
      <4> QED BY <4>1, <4>2, <1>9
    <3> QED BY <3>1, <3>2
  <2>3. ASSUME NEW q \in Requests, contact'[c] = q
        PROVE  \/ req'[q].step = "matching" /\ req'[q].contact = c
               \/ (\E l \in Leads : Belongs(l, c, q))'
    <3>1. q # r /\ contact[c] = q
      BY <2>1, <2>3, <1>3 DEF Ended
    <3>2. \/ req[q].step = "matching" /\ req[q].contact = c
          \/ \E l \in Leads : Belongs(l, c, q)
      BY <2>1, <3>1 DEF ContactSound
    <3> QED BY <3>1, <3>2, <1>5, <1>8
  <2> QED BY <2>2, <2>3 DEF ContactSound
<1>15. ASSUME NEW x \in Leads, NEW c, Turned(x, c) PROVE Turned(x, c)'
  <2>1. lead[x].by = Saved /\ lead[x].contact = c /\ lead[x].status # "open"
    BY <1>15 DEF Turned
  <2>2. lead'[x].by = Saved /\ lead'[x].contact = c /\ lead'[x].status # "open"
    BY <2>1, <1>3, <1>4 DEF LeadEnds, Ended
  <2> QED BY <2>2 DEF Turned
<1>16. ASSUME NEW x \in Leads, NEW c, NEW q \in Requests, Closing(x, c, q)
       PROVE  /\ q # r => Closing(x, c, q)'
              /\ q = r /\ kept => Turned(x, c)'
  <2>1. Belongs(x, c, q) /\ lead[x].closing /\ lead[x].holder = q
    BY <1>16, Zenon DEF Closing
  <2>2. CASE q # r
    <3>1. lead[x].by # r
      BY <2>1, <2>2, <1>3 DEF Belongs
    <3>2. lead'[x].holder = q /\ lead'[x].closing
      BY <2>1, <2>2, <3>1, <1>4 DEF LeadEnds
    <3> QED BY <2>1, <2>2, <3>2, <1>8, Zenon DEF Closing
  <2>3. CASE q = r /\ kept
    <3>1. lead[x].by \in {Saved, r} /\ lead[x].contact = c
      BY <2>1, <2>3 DEF Belongs
    <3>2. lead'[x].by = Saved /\ lead'[x].contact = c /\ lead'[x].status = "closed"
      BY <2>1, <2>3, <3>1, <1>3, <1>4 DEF LeadEnds, Ended
    <3> QED BY <2>3, <3>2 DEF Turned
  <2> QED BY <2>2, <2>3
<1>17. ASSUME NEW l \in Leads, NEW c, Resolved(l, c)'
       PROVE  Resolved(l, c) /\ (lead[l].by # r => lead'[l].by = lead[l].by)
              /\ (lead[l].by = r => kept)
  <2>1. lead'[l].by # Absent /\ lead'[l].contact = c /\ lead'[l].via = "resolver"
    BY <1>17 DEF Resolved
  <2>2. lead'[l] # NoLead
    BY <2>1 DEF NoLead
  <2> QED BY <2>1, <2>2, <1>3, <1>4 DEF LeadEnds, Ended, Resolved
<1>18. ASSUME NEW c \in Contacts \ Known, NEW k \in Leads, NEW l \in Leads \ {k}
       PROVE  PairSound(k, l, c)'
  <2> SUFFICES ASSUME Resolved(k, c)', Resolved(l, c)'
               PROVE  \/ (\E x \in Leads : Turned(x, c))'
                      \/ \E x \in Leads, q \in Requests :
                           Closing(x, c, q)' /\ q \in {lead'[k].by, lead'[l].by}
    BY DEF PairSound
  <2>1. Resolved(k, c) /\ Resolved(l, c)
    BY <1>17
  <2>2. \/ \E x \in Leads : Turned(x, c)
        \/ \E x \in Leads, q \in Requests : Closing(x, c, q) /\ q \in {lead[k].by, lead[l].by}
    BY <1>1, <2>1 DEF PairSound
  <2>3. CASE \E x \in Leads : Turned(x, c)
    BY <2>3, <1>15
  <2>4. ASSUME NEW x \in Leads, NEW q \in Requests, Closing(x, c, q),
               q \in {lead[k].by, lead[l].by}
        PROVE  \/ (\E y \in Leads : Turned(y, c))'
               \/ \E y \in Leads, p \in Requests :
                    Closing(y, c, p)' /\ p \in {lead'[k].by, lead'[l].by}
    <3>1. CASE q = r
      <4>1. kept
        BY <2>4, <3>1, <1>17
      <4> QED BY <4>1, <3>1, <2>4, <1>16
    <3>2. CASE q # r
      <4>1. Closing(x, c, q)'
        BY <3>2, <2>4, <1>16
      <4>2. q \in {lead'[k].by, lead'[l].by}
        BY <3>2, <2>4, <1>17
      <4> QED BY <4>1, <4>2
    <3> QED BY <3>1, <3>2
  <2> QED BY <2>2, <2>3, <2>4
<1> QED BY <1>2, <1>11, <1>12, <1>13, <1>14, <1>18 DEF InboxInv

\* COMMIT keeps what a sound transaction wrote.
LEMMA CommitStep == ASSUME InboxInv, NEW r \in Requests, Commit(r) PROVE InboxInv'
PROOF
<1>1. TypeOK /\ req[r] \in ReqRow
  BY RowTypes DEF InboxInv
<1>2. PICK kept \in BOOLEAN : kept = Sound(r)
  BY <1>1 DEF Sound
<1>3. /\ Ends(r, kept) /\ req[r].step = "committing"
  BY <1>2 DEF Commit, At
<1>4. due' = due /\ crashes' = crashes /\ silenced' \in {silenced, silenced \cup Written(r)}
  BY DEF Commit
<1>5. due' \in [Messages -> Nat] /\ silenced' \subseteq Messages /\ crashes' \in 0..MaxCrashes
  BY <1>1, <1>4 DEF TypeOK, Written
<1> QED BY <1>3, <1>5, EndsStep

\* A request that fails, or dies, leaves nothing.
LEMMA FailStep == ASSUME InboxInv, NEW r \in Requests, Fail(r) \/ Crash(r) PROVE InboxInv'
PROOF
<1>1. TypeOK
  BY DEF InboxInv
<1>2. Ends(r, FALSE) /\ silenced' = silenced
  BY DEF Fail, Crash
<1>3. silenced' \subseteq Messages
  BY <1>1, <1>2 DEF TypeOK
<1>4. CASE Fail(r)
  <2>1. due' \in [Messages -> Nat] /\ crashes' \in 0..MaxCrashes
    BY <1>1, <1>4 DEF Fail, TypeOK
  <2> QED BY <1>2, <1>3, <2>1, EndsStep
<1>5. CASE Crash(r)
  <2>1. due' = [m \in Messages |-> IF m \in InBatch(req[r].batch) THEN due[m] + 1 ELSE due[m]]
    BY <1>5 DEF Crash
  <2>2. due' \in [Messages -> Nat]
    BY <1>1, <2>1, RowTypes
  <2>3. crashes' \in 0..MaxCrashes
    BY <1>1, <1>5, Apart DEF Crash, TypeOK
  <2> QED BY <1>2, <1>3, <2>2, <2>3, EndsStep
<1> QED BY <1>4, <1>5

\* Staff write a status that is not "open" on a lead that is committed and not held.
LEMMA ChangeStatusStep == ASSUME InboxInv, NEW l \in Leads, ChangeStatus(l) PROVE InboxInv'
PROOF
<1>1. /\ TypeOK
      /\ \A q \in Requests : RequestSound(q)
      /\ \A m \in Messages : MessageSound(m)
      /\ \A k \in Leads : LeadSound(k)
      /\ \A c \in Contacts : ContactSound(c)
      /\ \A c \in Contacts \ Known : \A j \in Leads : \A k \in Leads \ {j} : PairSound(j, k, c)
  BY DEF InboxInv
<1>2. PICK s : s = IF lead[l].status = "closed" THEN "reopened" ELSE "closed"
  OBVIOUS
<1>3. s \in Statuses /\ s # "open"
  BY <1>2 DEF Statuses
<1> DEFINE changed == [lead[l] EXCEPT !.status = s]
<1>4. /\ lead[l].by = Saved /\ lead' = [lead EXCEPT ![l] = changed]
      /\ UNCHANGED <<contact, thread, row, due, outside, undone, silenced, crashes, req>>
  BY <1>2 DEF ChangeStatus
<1>5. lead \in [Leads -> LeadRow] /\ lead[l] \in LeadRow
  BY <1>1 DEF TypeOK
<1>6. /\ changed \in LeadRow /\ changed.by = lead[l].by /\ changed.contact = lead[l].contact
      /\ changed.via = lead[l].via /\ changed.holder = lead[l].holder /\ changed.status = s
  BY <1>3, <1>5 DEF LeadRow
<1>7. changed.closing = lead[l].closing
  BY <1>5 DEF LeadRow
<1> HIDE DEF changed
<1>8. /\ lead' \in [Leads -> LeadRow] /\ lead'[l] = changed
      /\ \A k \in Leads \ {l} : lead'[k] = lead[k]
  BY <1>4, <1>5, <1>6
<1>9. TypeOK'
  BY <1>1, <1>4, <1>8 DEF TypeOK
<1>10. \A k \in Leads :
         /\ lead'[k].by = lead[k].by /\ lead'[k].contact = lead[k].contact
         /\ lead'[k].via = lead[k].via /\ lead'[k].holder = lead[k].holder
         /\ \/ lead'[k].status = lead[k].status
            \/ lead[k].by = Saved /\ lead'[k].status # "open"
  BY <1>3, <1>4, <1>6, <1>8
<1>11. \A k \in Leads : lead'[k].closing = lead[k].closing
  BY <1>7, <1>8
<1>12. \A k, c, q : Belongs(k, c, q) <=> Belongs(k, c, q)'
  BY <1>10 DEF Belongs
<1>13. \A q \in Requests : \A m \in Messages : Handles(q, m) <=> Handles(q, m)'
  BY <1>4 DEF Handles, Message
<1>14. ASSUME NEW q \in Requests PROVE RequestSound(q)'
  BY <1>1, <1>4, <1>12, <1>13 DEF RequestSound
<1>15. ASSUME NEW m \in Messages PROVE MessageSound(m)'
  BY <1>1, <1>4, <1>12, <1>13 DEF MessageSound
<1>16. ASSUME NEW k \in Leads PROVE LeadSound(k)'
  <2>1. \A q \in Requests : q # Saved
    BY Apart
  <2> QED BY <1>1, <1>4, <1>10, <2>1 DEF LeadSound
<1>17. ASSUME NEW c \in Contacts PROVE ContactSound(c)'
  BY <1>1, <1>4, <1>12 DEF ContactSound
<1>18. ASSUME NEW c \in Contacts \ Known, NEW j \in Leads, NEW k \in Leads \ {j}
       PROVE  PairSound(j, k, c)'
  <2>1. PairSound(j, k, c)
    BY <1>1
  <2>2. \A x \in Leads : Turned(x, c) => Turned(x, c)'
    BY <1>10 DEF Turned
  <2>3. \A x \in Leads, q \in Requests : Closing(x, c, q) => Closing(x, c, q)'
    BY <1>10, <1>11, <1>12, Zenon DEF Closing
  <2>4. (Resolved(j, c)' => Resolved(j, c)) /\ (Resolved(k, c)' => Resolved(k, c))
    BY <1>10 DEF Resolved
  <2> QED BY <2>1, <2>2, <2>3, <2>4, <1>10, Zenon DEF PairSound
<1> QED BY <1>9, <1>14, <1>15, <1>16, <1>17, <1>18 DEF InboxInv

-----------------------------------------------------------------------------
(* The theorems *)

\* The database starts with the contacts staff have entered, and nothing else.
LEMMA InitInbox == Init => InboxInv
PROOF
<1> SUFFICES ASSUME Init PROVE InboxInv
  OBVIOUS
<1>1. \A r \in Requests : req[r] = Idle
  BY DEF Init
<1>2. TypeOK
  <2>1. NoLead \in LeadRow
    BY DEF NoLead, LeadRow, Writers, Statuses
  <2>2. NoThread \in Thread
    BY DEF NoThread, Thread, Writers
  <2>3. NoRow \in MessageRow
    BY DEF NoRow, MessageRow, Writers, Turns
  <2>4. Saved \in Writers /\ Absent \in Writers
    BY DEF Writers
  <2>5. MaxCopies \in Nat /\ MaxCrashes \in Nat
    BY InboxAssumption
  <2> QED BY <2>1, <2>2, <2>3, <2>4, <2>5, IdleType DEF Init, TypeOK
<1>3. \A r \in Requests : RequestSound(r)
  BY <1>1 DEF RequestSound, Handles, Idle, Early, Late
<1>4. \A r \in Requests : r # Saved /\ r # Absent /\ r # None /\ Saved # Absent
  BY Apart
<1>5. \A m \in Messages : row[m].by = Absent /\ outside[m] = 0 /\ undone[m] = 0
  BY DEF Init, NoRow
<1>6. \A m \in Messages : MessageSound(m)
  <2>1. Saved # Absent
    BY Apart
  <2> QED BY <1>4, <1>5, <2>1 DEF MessageSound
<1>7. \A l \in Leads : lead[l].by = Absent /\ lead[l].holder = None
  BY DEF Init, NoLead
<1>8. \A l \in Leads : LeadSound(l)
  BY <1>4, <1>7 DEF LeadSound
<1>9. \A c \in Contacts : ContactSound(c)
  <2>1. Saved # Absent
    BY Apart
  <2>2. \A c \in Contacts : contact[c] = IF c \in Known THEN Saved ELSE Absent
    BY DEF Init
  <2> QED BY <1>4, <2>1, <2>2 DEF ContactSound
<1>10. \A c \in Contacts \ Known : \A k \in Leads : \A l \in Leads \ {k} : PairSound(k, l, c)
  BY <1>7 DEF PairSound, Resolved
<1> QED BY <1>2, <1>3, <1>6, <1>8, <1>9, <1>10 DEF InboxInv

\* A step that changes nothing keeps what the rows say.
LEMMA StutterInbox == ASSUME InboxInv, UNCHANGED vars PROVE InboxInv'
PROOF
<1>1. UNCHANGED <<contact, lead, thread, row, due, outside, undone, silenced, crashes, req>>
  BY DEF vars
<1>2. TypeOK' /\ \A q \in Requests : \A m \in Messages : Handles(q, m) <=> Handles(q, m)'
  BY <1>1 DEF InboxInv, TypeOK, Handles, Message
<1>3. \A k, c, q : Belongs(k, c, q) <=> Belongs(k, c, q)'
  BY <1>1 DEF Belongs
<1>4. \A q \in Requests : RequestSound(q)'
  BY <1>1, <1>2, <1>3 DEF InboxInv, RequestSound
<1>5. \A m \in Messages : MessageSound(m)'
  BY <1>1, <1>2, <1>3 DEF InboxInv, MessageSound
<1>6. \A k \in Leads : LeadSound(k)'
  BY <1>1 DEF InboxInv, LeadSound
<1>7. \A c \in Contacts : ContactSound(c)'
  BY <1>1, <1>3 DEF InboxInv, ContactSound
<1>8. LeadsKept
  BY <1>1 DEF LeadsKept
<1>9. \A c \in Contacts \ Known : \A k \in Leads : \A l \in Leads \ {k} : PairSound(k, l, c)'
  BY <1>8, KeptLeads DEF InboxInv
<1> QED BY <1>2, <1>4, <1>5, <1>6, <1>7, <1>9 DEF InboxInv

\* Whatever the requests do, in whatever order they are served, each row is of a request
\* that still owes it something or as a completed request leaves it.
THEOREM InboxInvariant == Spec => []InboxInv
PROOF
<1>1. InboxInv /\ [Next]_vars => InboxInv'
  <2> SUFFICES ASSUME InboxInv, [Next]_vars PROVE InboxInv'
    OBVIOUS
  <2>1. CASE UNCHANGED vars
    BY <2>1, StutterInbox
  <2>2. ASSUME NEW l \in Leads, ChangeStatus(l) PROVE InboxInv'
    BY <2>2, ChangeStatusStep
  <2>3. ASSUME NEW r \in Requests, NEW b \in Batches, Receive(r, b) PROVE InboxInv'
    BY <2>3, ReceiveStep
  <2>4. ASSUME NEW r \in Requests, NEW c \in Contacts, Enquire(r, c) \/ Trigger(r, c)
        PROVE  InboxInv'
    BY <2>4, EnquireStep, TriggerStep
  <2>5. ASSUME NEW r \in Requests, RecordEvent(r) \/ ResolveContact(r) \/ OpenLead(r)
        PROVE  InboxInv'
    <3>1. CASE RecordEvent(r)
      BY <3>1, RecordStep, RepeatedStep
    <3>2. CASE ResolveContact(r)
      BY <3>2, ResolveStep
    <3>3. CASE OpenLead(r)
      BY <3>3, OpenStep
    <3> QED BY <2>5, <3>1, <3>2, <3>3
  <2>6. ASSUME NEW r \in Requests, NEW l \in Leads, MatchLead(r, l) PROVE InboxInv'
    BY <2>6, MatchStep
  <2>7. ASSUME NEW r \in Requests, Store(r) PROVE InboxInv'
    BY <2>7, StoreStep
  <2>8. ASSUME NEW r \in Requests, Turn(r) PROVE InboxInv'
    BY <2>8, SkipStep, UnderstandStep, ActStep, ActFailsStep, ReplyStep, ReplyFailsStep, Zenon
       DEF Turn
  <2>9. ASSUME NEW r \in Requests, Commit(r) \/ Fail(r) \/ Crash(r) PROVE InboxInv'
    BY <2>9, CommitStep, FailStep
  <2> QED BY <2>1, <2>2, <2>3, <2>4, <2>5, <2>6, <2>7, <2>8, <2>9, Zenon DEF Next
<1> QED BY <1>1, InitInbox, PTL DEF Spec

\* The duplicate check never swallows a message that was lost.
THEOREM DedupStored == Spec => []DedupImpliesStored
PROOF
<1>1. InboxInv => DedupImpliesStored
  <2>1. None \notin Leads
    BY DEF None, Leads
  <2> QED BY <2>1 DEF InboxInv, MessageSound, Belongs, DedupImpliesStored
<1> QED BY <1>1, InboxInvariant, PTL

\* A message is answered once, and once more for each handling of it that was rolled back.
THEOREM AnswersBounded == Spec => []AnsweredOnce
PROOF
<1>1. InboxInv => AnsweredOnce
  BY DEF InboxInv, MessageSound, AnsweredOnce
<1> QED BY <1>1, InboxInvariant, PTL

\* A newcomer's leads are one until one of them is closed, but for those of enquiries.
THEOREM NewcomerLead == Spec => []OneLeadPerNewcomer
PROOF
<1>1. InboxInv => OneLeadPerNewcomer
  <2> SUFFICES ASSUME InboxInv, NEW c \in Contacts \ Known,
                      \A l \in Leads : lead[l].by = Saved /\ lead[l].contact = c
                                         => lead[l].status = "open"
               PROVE  Cardinality({l \in {k \in Leads : lead[k].by = Saved /\ lead[k].contact = c} :
                                     lead[l].via = "resolver"}) <= 1
    BY DEF OneLeadPerNewcomer
  <2> DEFINE S == {l \in {k \in Leads : lead[k].by = Saved /\ lead[k].contact = c} :
                                     lead[l].via = "resolver"}
  <2>1. \A r \in Requests : r # Saved
    BY Apart
  <2>2. ASSUME NEW k \in S, NEW l \in S PROVE k = l
    <3> SUFFICES ASSUME k # l PROVE FALSE
      OBVIOUS
    <3>1. PairSound(k, l, c)
      BY DEF InboxInv
    <3>2. Resolved(k, c) /\ Resolved(l, c)
      BY Apart DEF Resolved
    <3>3. \A x \in Leads : ~Turned(x, c)
      BY DEF Turned
    <3>4. lead[k].by = Saved /\ lead[l].by = Saved
      OBVIOUS
    <3> QED BY <3>1, <3>2, <3>3, <3>4, <2>1 DEF PairSound
  <2> HIDE DEF S
  <2>3. Cardinality(S) <= 1
    <3>1. CASE S = {}
      BY <3>1, FS_EmptySet
    <3>2. CASE S # {}
      <4>1. PICK x \in S : TRUE
        BY <3>2
      <4>2. S = {x}
        BY <4>1, <2>2
      <4> QED BY <4>2, FS_Singleton
    <3> QED BY <3>1, <3>2
  <2> QED BY <2>3 DEF S
<1> QED BY <1>1, InboxInvariant, PTL

-----------------------------------------------------------------------------
(* Messages that want a person *)

\* Nothing is done for a message before the table decides, and what it decides for a
\* message that wants a person is a hand-over.
Undecided == Early \cup {"reading", "acting"}
EscalationInv ==
  /\ \A m \in Messages : row[m].by = Absent => row[m].did = {}
  /\ \A r \in Requests : \A m \in Messages :
       Handles(r, m) => /\ req[r].step \in Undecided => row[m].did = {}
                        /\ req[r].step = "acting" => /\ row[m].human = req[r].plan.human
                                                     /\ req[r].plan \in Plans
  /\ EscalationFirst

\* The decision table hands over to a person, and to nobody else, whenever one is wanted.
LEMMA HandsOver == \A plan \in Plans : plan.human => Effect(plan) \cap Acts = {}
PROOF
<1> SUFFICES ASSUME NEW x \in Readings, NeedsHuman(x) PROVE Effect(Plan(x)) \cap Acts = {}
  BY DEF Plans, Plan
<1>1. NextAction(x) = "TRANSFER_HUMAN"
  BY DEF NextAction, UnlessHuman
<1>2. Plan(x).action = "TRANSFER_HUMAN" /\ ~Plan(x).slot
  BY <1>1 DEF Plan
<1>3. Effect(Plan(x)) = {"handoff"}
  BY <1>2 DEF Effect
<1> QED BY <1>3 DEF Acts

\* A message in another's hands is left alone, and r's own stays decided as it was.
LEMMA EscalationMoves ==
  ASSUME EscalationInv, NEW r \in Requests, \A q \in Requests \ {r} : req'[q] = req[q],
         \A m \in Messages :
           \/ /\ row'[m].did = row[m].did /\ row'[m].human = row[m].human
              /\ row'[m].by = Absent => row[m].by = Absent
           \/ /\ \A q \in Requests \ {r} : ~Handles(q, m)
              /\ row'[m].by = Absent => row'[m].did = {}
              /\ row'[m].human => row'[m].did \cap Acts = {},
         \A m \in Messages :
           Handles(r, m)' => /\ req'[r].step \in Undecided => row'[m].did = {}
                             /\ req'[r].step = "acting" => /\ row'[m].human = req'[r].plan.human
                                                           /\ req'[r].plan \in Plans
  PROVE  EscalationInv'
PROOF
<1>1. \A q \in Requests \ {r} : \A m \in Messages : Handles(q, m)' <=> Handles(q, m)
  BY DEF Handles, Message
<1>2. \A m \in Messages : row'[m].by = Absent => row'[m].did = {}
  BY DEF EscalationInv
<1>3. EscalationFirst'
  BY DEF EscalationInv, EscalationFirst
<1>4. ASSUME NEW q \in Requests, NEW m \in Messages, Handles(q, m)'
      PROVE  /\ req'[q].step \in Undecided => row'[m].did = {}
             /\ req'[q].step = "acting" => /\ row'[m].human = req'[q].plan.human
                                           /\ req'[q].plan \in Plans
  <2>1. CASE q = r
    BY <2>1, <1>4
  <2>2. CASE q # r
    <3>1. Handles(q, m) /\ req'[q] = req[q]
      BY <2>2, <1>1, <1>4
    <3>2. row'[m].did = row[m].did /\ row'[m].human = row[m].human
      BY <2>2, <3>1
    <3> QED BY <3>1, <3>2 DEF EscalationInv
  <2> QED BY <2>1, <2>2
<1> QED BY <1>2, <1>3, <1>4 DEF EscalationInv

\* Only the request that wrote a message's row handles the message.
LEMMA OneHandler ==
  ASSUME InboxInv, NEW r \in Requests, NEW m \in Messages, row[m].by = r
  PROVE  \A q \in Requests \ {r} : ~Handles(q, m)
BY DEF InboxInv, RequestSound

\* A request between two events handles none.
LEMMA Left ==
  ASSUME InboxInv, NEW r \in Requests, req[r].kind = "delivery", req[r].step # "committing",
         NEW b \in BOOLEAN, req'[r] \in {NextEvent(r), [NextEvent(r) EXCEPT !.broken = b]}
  PROVE  \A m \in Messages : ~Handles(r, m)'
PROOF
<1>1. TypeOK /\ RequestSound(r)
  BY DEF InboxInv
<1>2. req'[r].step \in {"committing", "recording"}
  <2>1. \A n \in {NextEvent(r), [NextEvent(r) EXCEPT !.broken = b]} :
              /\ n.kind = "delivery"
              /\ \/ n.step = "committing"
                 \/ n.step = "recording" /\ n.at \in 1..Len(n.batch)
                    /\ n.contact = From[n.batch[n.at]]
    BY <1>1, NextEventType, Zenon
  <2> QED BY <2>1
<1> QED BY <1>2 DEF Handles, Early, Late

\* A step of r that leaves what is recorded of a message's turn, and its place in it, alone.
LEMMA EscalationKept ==
  ASSUME EscalationInv, NEW r \in Requests, \A q \in Requests \ {r} : req'[q] = req[q],
         \A m \in Messages : /\ row'[m].did = row[m].did /\ row'[m].human = row[m].human
                             /\ row'[m].by = Absent => row[m].by = Absent,
         \A m \in Messages :
           Handles(r, m)' => /\ Handles(r, m) \/ row[m].by = Absent
                             /\ req'[r].step = "acting" => FALSE
                             /\ req'[r].step \in Undecided => \/ row[m].by = Absent
                                                              \/ req[r].step \in Undecided
  PROVE  EscalationInv'
PROOF
<1>1. \A m \in Messages :
           Handles(r, m)' => /\ req'[r].step \in Undecided => row'[m].did = {}
                             /\ req'[r].step = "acting" => /\ row'[m].human = req'[r].plan.human
                                                           /\ req'[r].plan \in Plans
  BY DEF EscalationInv
<1> QED BY <1>1, EscalationMoves

\* A delivery, an enquiry or a trigger comes in.
LEMMA BeginEscalation ==
  ASSUME InboxInv, EscalationInv, NEW r \in Requests, NEW new, Begin(r, new),
         new.step \notin Early \cup Late, row' = row
  PROVE  EscalationInv'
PROOF
<1>1. req'[r] = new /\ \A q \in Requests \ {r} : req'[q] = req[q]
  BY DEF Begin, InboxInv, TypeOK
<1>2. \A m \in Messages : ~Handles(r, m)'
  BY <1>1 DEF Handles
<1> QED BY <1>1, <1>2, EscalationKept

\* A delivery is recorded, or left.
LEMMA RecordEscalation ==
  ASSUME InboxInv, EscalationInv, NEW r \in Requests, RecordEvent(r) PROVE EscalationInv'
PROOF
<1>n. PICK n : n = Message(r)
  OBVIOUS
<1>1. /\ TypeOK /\ RequestSound(r) /\ req[r].step = "recording"
      /\ req[r].kind = "delivery" /\ req \in [Requests -> ReqRow]
  BY DEF InboxInv, RequestSound, TypeOK, RecordEvent, RecordAs, At
<1>2. CASE Fresh(row[n].by)
  <2>1. row' = [row EXCEPT ![n].by = r] /\ Goto(r, "resolving") /\ row[n].by = Absent
    BY <1>2, <1>n DEF RecordEvent, RecordAs, Fresh
  <2>2. n \in Messages /\ row[n] \in MessageRow /\ row \in [Messages -> MessageRow]
    <3>1. req[r].batch \in Seq(Messages) /\ req[r].at \in 1..Len(req[r].batch)
      BY <1>1, RowTypes DEF ReqRow, RequestSound
    <3>2. n \in Messages
      BY <3>1, <1>n DEF Message
    <3> QED BY <3>2, <1>1 DEF TypeOK
  <2>3. /\ req'[r].kind = "delivery" /\ req'[r].step = "resolving"
        /\ Message(r)' = n /\ \A q \in Requests \ {r} : req'[q] = req[q]
    BY <1>1, <1>n, <2>1, GotoTyped DEF Steps, Message
  <2>4. \A m \in Messages : /\ row'[m].did = row[m].did /\ row'[m].human = row[m].human
                            /\ row'[m].by = Absent => row[m].by = Absent
    <3> DEFINE new == [row[n] EXCEPT !.by = r]
    <3>1. new.did = row[n].did /\ new.human = row[n].human
      BY <2>2 DEF MessageRow
    <3>2. row' = [row EXCEPT ![n] = new]
      BY <2>1
    <3> HIDE DEF new
    <3> QED BY <2>1, <2>2, <3>1, <3>2
  <2>5. \A m \in Messages : Handles(r, m)' => m = n
    BY <2>3 DEF Handles
  <2> QED BY <2>1, <2>3, <2>4, <2>5, EscalationKept
<1>3. CASE ~Fresh(row[n].by)
  <2>1. row' = row /\ req' = [req EXCEPT ![r] = NextEvent(r)]
    BY <1>3, <1>n DEF RecordEvent, RecordAs
  <2>2. req'[r] = NextEvent(r) /\ \A q \in Requests \ {r} : req'[q] = req[q]
    BY <1>1, <2>1
  <2>3. \A m \in Messages : ~Handles(r, m)'
    BY <1>1, <2>2, Left
  <2> QED BY <2>1, <2>2, <2>3, EscalationKept
<1> QED BY <1>2, <1>3

\* A request goes from one step before its decision to the next.
LEMMA EarlyEscalation ==
  ASSUME InboxInv, EscalationInv, NEW r \in Requests, req[r].step \in Early,
         req'[r].step \in Early \cup {"reading", "committing"},
         req'[r].kind = req[r].kind, req'[r].batch = req[r].batch, req'[r].at = req[r].at,
         \A q \in Requests \ {r} : req'[q] = req[q],
         \A m \in Messages : row'[m].did = row[m].did /\ row'[m].human = row[m].human
                             /\ row'[m].by = row[m].by
  PROVE  EscalationInv'
PROOF
<1>1. \A m \in Messages : Handles(r, m)' => Handles(r, m)
  BY DEF Handles, Message
<1>2. req'[r].step # "acting" /\ req[r].step \in Undecided
  BY DEF Early, Undecided
<1> QED BY <1>1, <1>2, EscalationKept

\* The contact and the lead are resolved, and the message is stored.
LEMMA ResolvedEscalation ==
  ASSUME InboxInv, EscalationInv, NEW r \in Requests,
         \/ ResolveContact(r)
         \/ \E l \in Leads : MatchLead(r, l)
         \/ OpenLead(r)
         \/ Store(r)
  PROVE  EscalationInv'
PROOF
<1>1. TypeOK /\ req \in [Requests -> ReqRow] /\ req[r] \in ReqRow
  BY DEF InboxInv, TypeOK
<1>2. CASE ResolveContact(r)
  <2>1. req[r].step = "resolving" /\ row' = row /\ Goto(r, "matching")
    BY <1>2 DEF ResolveContact, ResolveAs, At
  <2>2. /\ req'[r].kind = req[r].kind /\ req'[r].step = "matching"
        /\ req'[r].batch = req[r].batch /\ req'[r].at = req[r].at
        /\ \A q \in Requests \ {r} : req'[q] = req[q]
    BY <1>1, <2>1, GotoTyped DEF Steps
  <2> QED BY <2>1, <2>2, EarlyEscalation DEF Early
<1>3. ASSUME NEW l, req[r].step = "matching", row' = row,
             req' = [req EXCEPT ![r].lead = l, ![r].step = AfterMatch(r)]
      PROVE  EscalationInv'
  <2> DEFINE new == [req[r] EXCEPT !.lead = l, !.step = AfterMatch(r)]
  <2>1. new.kind = req[r].kind /\ new.batch = req[r].batch /\ new.at = req[r].at
        /\ new.step = AfterMatch(r)
    BY <1>1 DEF ReqRow
  <2>2. req' = [req EXCEPT ![r] = new]
    BY <1>3
  <2> HIDE DEF new
  <2>3. req'[r] = new /\ \A q \in Requests \ {r} : req'[q] = req[q]
    BY <1>1, <2>2
  <2>4. new.step \in {"storing", "committing"}
    BY <2>1 DEF AfterMatch
  <2> QED BY <1>3, <2>1, <2>3, <2>4, EarlyEscalation DEF Early
<1>4. CASE \E l \in Leads : MatchLead(r, l)
  BY <1>3, <1>4 DEF MatchLead, At
<1>5. CASE OpenLead(r)
  <2>1. PICK l : l = NewLead
    OBVIOUS
  <2> QED BY <1>3, <1>5, <2>1 DEF OpenLead, At
<1>6. CASE Store(r)
  <2>n. PICK n : n = Message(r)
    OBVIOUS
  <2>l. PICK l : l = req[r].lead
    OBVIOUS
  <2>1. req[r].step = "storing" /\ Goto(r, "reading") /\ row' = [row EXCEPT ![n].lead = l]
    BY <1>6, <2>n, <2>l DEF Store, At
  <2>2. /\ req'[r].kind = req[r].kind /\ req'[r].step = "reading"
        /\ req'[r].batch = req[r].batch /\ req'[r].at = req[r].at
        /\ \A q \in Requests \ {r} : req'[q] = req[q]
    BY <1>1, <2>1, GotoTyped DEF Steps
  <2>3. \A m \in Messages : row'[m].did = row[m].did /\ row'[m].human = row[m].human
                            /\ row'[m].by = row[m].by
    <3> DEFINE new == [row[n] EXCEPT !.lead = l]
    <3>1. row \in [Messages -> MessageRow]
      BY <1>1 DEF TypeOK
    <3>2. n \in Messages => new.did = row[n].did /\ new.human = row[n].human /\ new.by = row[n].by
      BY <3>1 DEF MessageRow
    <3>3. row' = [row EXCEPT ![n] = new]
      BY <2>1
    <3> HIDE DEF new
    <3> QED BY <3>1, <3>2, <3>3
  <2> QED BY <2>1, <2>2, <2>3, EarlyEscalation DEF Early
<1> QED BY <1>2, <1>4, <1>5, <1>6

\* The turn is skipped.
LEMMA SkipEscalation ==
  ASSUME InboxInv, EscalationInv, NEW r \in Requests, SkipTurn(r) PROVE EscalationInv'
PROOF
<1>1. req[r].step = "reading" /\ req' = [req EXCEPT ![r] = NextEvent(r)] /\ row' = row
  BY DEF SkipTurn, At
<1>2. req[r].kind = "delivery" /\ req[r].step # "committing" /\ req \in [Requests -> ReqRow]
  BY <1>1, Turning DEF Late, TypeOK
<1>3. req'[r] = NextEvent(r) /\ \A q \in Requests \ {r} : req'[q] = req[q]
  BY <1>1, <1>2
<1>4. \A m \in Messages : ~Handles(r, m)'
  BY <1>2, <1>3, Left
<1> QED BY <1>1, <1>3, <1>4, EscalationKept

\* The message is understood: its row says whether it wants a person, as the plan does.
LEMMA UnderstandEscalation ==
  ASSUME InboxInv, EscalationInv, NEW r \in Requests, NEW plan \in Plans, NEW learns \in BOOLEAN,
         NEW broken \in BOOLEAN, Understand(r, plan, learns, broken)
  PROVE  EscalationInv'
PROOF
<1>n. PICK n : n = Message(r)
  OBVIOUS
<1> DEFINE new == [req[r] EXCEPT !.plan = plan, !.broken = broken, !.step = "acting"]
           noted == [row[n] EXCEPT !.human = plan.human]
<1>1. /\ req[r].step = "reading" /\ row' = [row EXCEPT ![n] = noted]
      /\ req' = [req EXCEPT ![r] = new]
  BY <1>n DEF Understand, At
<1>2. /\ TypeOK /\ RequestSound(r) /\ req[r] \in ReqRow /\ n \in Messages /\ Handles(r, n)
      /\ req \in [Requests -> ReqRow] /\ row \in [Messages -> MessageRow]
  BY <1>1, <1>n, Turning DEF Late, TypeOK
<1>3. /\ new.kind = req[r].kind /\ new.batch = req[r].batch /\ new.at = req[r].at
      /\ new.step = "acting" /\ new.plan = plan
  BY <1>2 DEF ReqRow
<1>4. noted.did = row[n].did /\ noted.human = plan.human /\ noted.by = row[n].by
  BY <1>2 DEF MessageRow
<1> HIDE DEF new, noted
<1>5. req'[r] = new /\ \A q \in Requests \ {r} : req'[q] = req[q]
  BY <1>1, <1>2
<1>6. row'[n] = noted /\ \A m \in Messages \ {n} : row'[m] = row[m]
  BY <1>1, <1>2
<1>7. row[n].by = r /\ row[n].did = {}
  BY <1>1, <1>2 DEF RequestSound, EscalationInv, Undecided
<1>8. \A q \in Requests \ {r} : ~Handles(q, n)
  BY <1>2, <1>7, OneHandler
<1>9. \A m \in Messages : Handles(r, m)' => m = n
  <2>1. Message(r)' = n
    BY <1>n, <1>3, <1>5 DEF Message
  <2> QED BY <2>1 DEF Handles
<1>10. \A m \in Messages :
         \/ /\ row'[m].did = row[m].did /\ row'[m].human = row[m].human
            /\ row'[m].by = Absent => row[m].by = Absent
         \/ /\ \A q \in Requests \ {r} : ~Handles(q, m)
            /\ row'[m].by = Absent => row'[m].did = {}
            /\ row'[m].human => row'[m].did \cap Acts = {}
  BY <1>4, <1>6, <1>7, <1>8
<1>11. \A m \in Messages :
         Handles(r, m)' => /\ req'[r].step \in Undecided => row'[m].did = {}
                           /\ req'[r].step = "acting" => /\ row'[m].human = req'[r].plan.human
                                                         /\ req'[r].plan \in Plans
  BY <1>3, <1>4, <1>5, <1>6, <1>7, <1>9
<1> QED BY <1>5, <1>10, <1>11, EscalationMoves

\* The executor acts on its plan: for a message that wants a person that is a hand-over.
LEMMA ActEscalation ==
  ASSUME InboxInv, EscalationInv, NEW r \in Requests, Act(r) PROVE EscalationInv'
PROOF
<1>n. PICK n : n = Message(r)
  OBVIOUS
<1>p. PICK plan : plan = req[r].plan
  OBVIOUS
<1>t. PICK turn : turn = IF Silent(plan) THEN "done" ELSE "none"
  OBVIOUS
<1> DEFINE noted == [row[n] EXCEPT !.did = @ \cup Effect(plan), !.turn = turn]
           new == IF Silent(plan) THEN NextEvent(r) ELSE [req[r] EXCEPT !.step = "replying"]
<1>1. /\ req[r].step = "acting" /\ row' = [row EXCEPT ![n] = noted]
      /\ req' = [req EXCEPT ![r] = new]
  <2>1. row' = [row EXCEPT ![n] = noted]
    BY <1>n, <1>p, <1>t DEF Act
  <2>2. req' = [req EXCEPT ![r] = new]
    BY <1>p DEF Act
  <2> QED BY <2>1, <2>2 DEF Act, At
<1>2. /\ TypeOK /\ RequestSound(r) /\ req[r] \in ReqRow /\ n \in Messages /\ Handles(r, n)
      /\ req[r].kind = "delivery" /\ req[r].step # "committing"
      /\ req \in [Requests -> ReqRow] /\ row \in [Messages -> MessageRow]
  BY <1>1, <1>n, Turning DEF Late, TypeOK
<1>3. noted.did = row[n].did \cup Effect(plan) /\ noted.human = row[n].human
      /\ noted.by = row[n].by
  BY <1>2 DEF MessageRow
<1>4. req'[r] = new /\ \A q \in Requests \ {r} : req'[q] = req[q]
  <2> HIDE DEF new
  <2> QED BY <1>1, <1>2
<1>5. \A m \in Messages : Handles(r, m)' => req'[r].step = "replying"
  <2>1. CASE Silent(plan)
    BY <2>1, <1>2, <1>4, Left
  <2>2. CASE ~Silent(plan)
    BY <2>2, <1>2, <1>4 DEF ReqRow
  <2> QED BY <2>1, <2>2
<1> HIDE DEF new, noted
<1>6. row'[n] = noted /\ \A m \in Messages \ {n} : row'[m] = row[m]
  BY <1>1, <1>2
<1>7. row[n].by = r /\ r # Absent
  BY <1>2, Apart DEF RequestSound
<1>8. \A q \in Requests \ {r} : ~Handles(q, n)
  BY <1>2, <1>7, OneHandler
<1>9. row[n].human => noted.did \cap Acts = {}
  <2> SUFFICES ASSUME row[n].human PROVE noted.did \cap Acts = {}
    OBVIOUS
  <2>1. plan \in Plans /\ plan.human
    BY <1>1, <1>2, <1>p DEF EscalationInv
  <2>2. Effect(plan) \cap Acts = {}
    BY <2>1, HandsOver
  <2>3. row[n].did \cap Acts = {}
    BY <1>2 DEF EscalationInv, EscalationFirst
  <2> QED BY <2>2, <2>3, <1>3
<1>10. \A m \in Messages :
         \/ /\ row'[m].did = row[m].did /\ row'[m].human = row[m].human
            /\ row'[m].by = Absent => row[m].by = Absent
         \/ /\ \A q \in Requests \ {r} : ~Handles(q, m)
            /\ row'[m].by = Absent => row'[m].did = {}
            /\ row'[m].human => row'[m].did \cap Acts = {}
  BY <1>3, <1>6, <1>7, <1>8, <1>9
<1>11. "replying" \notin Undecided
  BY DEF Undecided, Early
<1> QED BY <1>4, <1>5, <1>10, <1>11, EscalationMoves

\* The turn ends, with a reply or without.
LEMMA EndsTurnEscalation ==
  ASSUME InboxInv, EscalationInv, NEW r \in Requests, req[r].step \in Late, NEW turn,
         NEW b \in BOOLEAN, TurnEnds(r, turn, b)
  PROVE  EscalationInv'
PROOF
<1>n. PICK n : n = Message(r)
  OBVIOUS
<1> DEFINE noted == [row[n] EXCEPT !.turn = turn]
           new == [NextEvent(r) EXCEPT !.broken = b]
<1>1. row' = [row EXCEPT ![n] = noted] /\ req' = [req EXCEPT ![r] = new]
  BY <1>n DEF TurnEnds
<1>2. /\ req[r].kind = "delivery" /\ req[r].step # "committing" /\ n \in Messages
      /\ req \in [Requests -> ReqRow] /\ row \in [Messages -> MessageRow]
  BY <1>n, Turning DEF TypeOK
<1>3. noted.did = row[n].did /\ noted.human = row[n].human /\ noted.by = row[n].by
  BY <1>2 DEF MessageRow
<1> HIDE DEF noted
<1>4. req'[r] = new /\ \A q \in Requests \ {r} : req'[q] = req[q]
  <2> HIDE DEF new
  <2> QED BY <1>1, <1>2
<1>5. \A m \in Messages : ~Handles(r, m)'
  BY <1>2, <1>4, Left
<1>6. \A m \in Messages : row'[m].did = row[m].did /\ row'[m].human = row[m].human
                          /\ row'[m].by = row[m].by
  BY <1>1, <1>2, <1>3
<1> QED BY <1>4, <1>5, <1>6, EscalationKept

\* The transaction ends: what it wrote of a message stays as it is, or goes.
LEMMA EndsEscalation ==
  ASSUME InboxInv, EscalationInv, NEW r \in Requests, NEW kept, Ends(r, kept)
  PROVE  EscalationInv'
PROOF
<1>1. req \in [Requests -> ReqRow] /\ row \in [Messages -> MessageRow]
  BY DEF InboxInv, TypeOK
<1>2. /\ req' = [req EXCEPT ![r] = Idle]
      /\ row' = [m \in Messages |-> IF row[m].by # r THEN row[m]
                                    ELSE IF kept THEN [row[m] EXCEPT !.by = Saved]
                                    ELSE NoRow]
  BY DEF Ends
<1>3. req'[r] = Idle /\ \A q \in Requests \ {r} : req'[q] = req[q]
  BY <1>1, <1>2
<1>4. \A m \in Messages : ~Handles(r, m)'
  BY <1>3 DEF Handles, Idle
<1>5. ASSUME NEW m \in Messages
      PROVE  \/ /\ row'[m].did = row[m].did /\ row'[m].human = row[m].human
                /\ row'[m].by = Absent => row[m].by = Absent
             \/ /\ \A q \in Requests \ {r} : ~Handles(q, m)
                /\ row'[m].by = Absent => row'[m].did = {}
                /\ row'[m].human => row'[m].did \cap Acts = {}
  <2>1. CASE row[m].by # r
    BY <2>1, <1>2
  <2>2. CASE row[m].by = r /\ kept
    <3>1. row'[m] = [row[m] EXCEPT !.by = Saved]
      BY <2>2, <1>2
    <3>2. row'[m].did = row[m].did /\ row'[m].human = row[m].human /\ row'[m].by = Saved
      BY <3>1, <1>1 DEF MessageRow
    <3> QED BY <3>2, Apart
  <2>3. CASE row[m].by = r /\ ~kept
    <3>1. row'[m].did = {} /\ row'[m].human = FALSE
      BY <2>3, <1>2 DEF NoRow
    <3>2. \A q \in Requests \ {r} : ~Handles(q, m)
      BY <2>3, OneHandler
    <3> QED BY <3>1, <3>2
  <2> QED BY <2>1, <2>2, <2>3
<1> QED BY <1>3, <1>4, <1>5, EscalationMoves

\* A message that wants a person never makes the AI act for its sender, whatever fails in
\* its turn and however often it is delivered.
THEOREM EscalatesFirst == Spec => []EscalationFirst
PROOF
<1>1. Init => EscalationInv
  BY DEF Init, NoRow, Idle, EscalationInv, EscalationFirst, Handles
<1>2. InboxInv /\ EscalationInv /\ [Next]_vars => EscalationInv'
  <2> SUFFICES ASSUME InboxInv, EscalationInv, [Next]_vars PROVE EscalationInv'
    OBVIOUS
  <2>1. ASSUME row' = row, req' = req PROVE EscalationInv'
    BY <2>1 DEF EscalationInv, EscalationFirst, Handles, Message
  <2>2. CASE UNCHANGED vars
    BY <2>1, <2>2 DEF vars
  <2>3. ASSUME NEW l \in Leads, ChangeStatus(l) PROVE EscalationInv'
    BY <2>1, <2>3 DEF ChangeStatus
  <2>4. ASSUME NEW r \in Requests, NEW b \in Batches, Receive(r, b) PROVE EscalationInv'
    <3> DEFINE new == [Idle EXCEPT !.kind = "delivery", !.step = "recording", !.batch = b,
                                   !.at = 1, !.contact = From[b[1]]]
    <3>1. Begin(r, new) /\ row' = row
      BY <2>4 DEF Receive
    <3>2. new.step \notin Early \cup Late
      BY DEF Idle, Early, Late
    <3> HIDE DEF new
    <3> QED BY <3>1, <3>2, BeginEscalation
  <2>5. ASSUME NEW r \in Requests, NEW c \in Contacts, Enquire(r, c) \/ Trigger(r, c)
        PROVE  EscalationInv'
    <3>1. PICK k \in {"enquiry", "trigger"}, s \in {"resolving", "matching"} :
             Begin(r, [Idle EXCEPT !.kind = k, !.step = s, !.contact = c]) /\ row' = row
      BY <2>5 DEF Enquire, Trigger
    <3> DEFINE new == [Idle EXCEPT !.kind = k, !.step = s, !.contact = c]
    <3>2. new.kind # "delivery" /\ Begin(r, new)
      BY <3>1 DEF Idle
    <3> HIDE DEF new
    <3>3. req'[r] = new /\ \A q \in Requests \ {r} : req'[q] = req[q]
      BY <3>2 DEF Begin, InboxInv, TypeOK
    <3>4. \A m \in Messages : ~Handles(r, m)'
      BY <3>2, <3>3 DEF Handles
    <3> QED BY <3>1, <3>3, <3>4, EscalationKept
  <2>6. ASSUME NEW r \in Requests, RecordEvent(r) PROVE EscalationInv'
    BY <2>6, RecordEscalation
  <2>7. ASSUME NEW r \in Requests,
               ResolveContact(r) \/ OpenLead(r) \/ Store(r) \/ \E l \in Leads : MatchLead(r, l)
        PROVE  EscalationInv'
    BY <2>7, ResolvedEscalation
  <2>8. ASSUME NEW r \in Requests, Turn(r) PROVE EscalationInv'
    <3>1. CASE SkipTurn(r)
      BY <3>1, SkipEscalation
    <3>2. CASE \E plan \in Plans, learns, broken \in BOOLEAN : Understand(r, plan, learns, broken)
      BY <3>2, UnderstandEscalation
    <3>3. CASE Act(r)
      BY <3>3, ActEscalation
    <3>4. CASE \/ \E b \in BOOLEAN : ActFails(r, b)
               \/ \E recorded, b \in BOOLEAN : Reply(r, recorded, b)
               \/ ReplyFails(r)
      <4>1. req[r].step \in Late /\ \E turn : \E b \in BOOLEAN : TurnEnds(r, turn, b)
        BY <3>4 DEF ActFails, Reply, ReplyFails, At, Late
      <4> QED BY <4>1, EndsTurnEscalation
    <3> QED BY <2>8, <3>1, <3>2, <3>3, <3>4 DEF Turn
  <2>9. ASSUME NEW r \in Requests, Commit(r) \/ Fail(r) \/ Crash(r) PROVE EscalationInv'
    <3>1. \E kept : Ends(r, kept)
      BY <2>9 DEF Commit, Fail, Crash
    <3> QED BY <3>1, EndsEscalation
  <2> QED BY <2>2, <2>3, <2>4, <2>5, <2>6, <2>7, <2>8, <2>9, Zenon DEF Next
<1>3. EscalationInv => EscalationFirst
  BY DEF EscalationInv
<1> QED BY <1>1, <1>2, <1>3, InboxInvariant, PTL DEF Spec
=============================================================================
