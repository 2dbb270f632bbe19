--------------------------------- MODULE Inbox ---------------------------------
(***************************************************************************)
(* How a stranger becomes a lead: WhatsApp deliveries with their AI turn,  *)
(* the public enquiry form and the dashboard's call trigger, all of which  *)
(* resolve a contact and a lead first.                                     *)
(*                                                                         *)
(* A request is one transaction.  Rows carry the request that wrote them   *)
(* until it commits: another request does not see them, and waits for them *)
(* where a unique index or a row lock makes it wait.                       *)
(***************************************************************************)
EXTENDS Naturals, Sequences, FiniteSets

CONSTANTS
  Contacts,   \* phone numbers
  Known,      \* those staff have entered already, without a lead
  Messages,   \* inbound WhatsApp messages, by wamid
  From,       \* who sent a message
  Requests,   \* concurrent HTTP requests
  MaxLeads,   \* bound on the table of leads
  MaxBatch,   \* bound: messages in one delivery
  MaxCopies,  \* bound: deliveries of one message that Meta makes unprompted
  MaxCrashes  \* bound: processes that die while handling a request

None == 0
Saved == "saved"
Absent == "absent"

ASSUME InboxAssumption ==
  /\ Known \subseteq Contacts
  /\ From \in [Messages -> Contacts]
  /\ Requests \cap {Saved, Absent, None} = {}
  /\ None \notin Contacts
  /\ {MaxLeads, MaxBatch, MaxCopies, MaxCrashes} \subseteq Nat

VARIABLES
  contact,  \* customers: who wrote the row
  lead,     \* leads
  thread,   \* conversations: the open one of each contact
  row,      \* webhook_events, whatsapp_messages and what the turn did
  due,      \* deliveries of a message that are still to come
  outside,  \* replies accepted and calls placed for a message (not undone by a rollback)
  undone,   \* rolled-back handlings of a message (history)
  silenced, \* messages rolled back though no handler raised or died (history)
  crashes,
  req

vars == <<contact, lead, thread, row, due, outside, undone, silenced, crashes, req>>

Leads == 1..MaxLeads
Writers == Requests \cup {Saved, Absent}

-----------------------------------------------------------------------------
(* The AI's reading of a message and the decision table *)

Intents == {"general_inquiry", "provide_qualification_info", "call_now", "call_later",
            "not_interested", "property_question", "visit_request", "human_request", "other"}

\* What the model extracts, as far as the table looks at it.
Readings == [failed : BOOLEAN, intent : Intents, human : BOOLEAN, sure : BOOLEAN,
             missing : BOOLEAN, callable : BOOLEAN, slot : BOOLEAN]

NeedsHuman(x) == x.failed \/ x.human \/ x.intent = "human_request" \/ ~x.sure

DirectAction == [not_interested    |-> "MARK_NOT_INTERESTED",
                 call_now          |-> "CALL_NOW",
                 call_later        |-> "CALL_LATER",
                 visit_request     |-> "SCHEDULE_VISIT",
                 property_question |-> "SEND_PROPERTY_DETAILS"]

UnlessHuman(x, action) == IF NeedsHuman(x) THEN "TRANSFER_HUMAN" ELSE action
Settled(x) ==
  CASE x.missing                     -> "ASK_INFORMATION"
    [] ~x.missing /\ x.callable      -> "CALL_LATER"
    [] OTHER -> IF x.intent = "general_inquiry" THEN "SEND_PROPERTY_DETAILS" ELSE "FOLLOW_UP"

NextAction(x) ==
  UnlessHuman(x, IF x.intent \in DOMAIN DirectAction THEN DirectAction[x.intent] ELSE Settled(x))

\* The distinct turns: what to do, whether the message wanted a person, and
\* whether a visit names a usable date and time.
Plan(x) == [action |-> NextAction(x), human |-> NeedsHuman(x),
            slot |-> x.slot /\ NextAction(x) = "SCHEDULE_VISIT"]
Plans == {Plan(x) : x \in Readings}
NoPlan == [action |-> "WAIT", human |-> FALSE, slot |-> FALSE]

\* What an executor leaves in the database before it replies, if it replies.
Effect(plan) ==
  CASE plan.action = "CALL_NOW"            -> {"call"}
    [] plan.action = "CALL_LATER"          -> {"job"}
    [] plan.slot                           -> {"visit"}
    [] plan.action = "TRANSFER_HUMAN"      -> {"handoff"}
    [] plan.action = "MARK_NOT_INTERESTED" -> {"lost"}
    [] plan.action = "FOLLOW_UP"           -> {"follow_up"}
    [] OTHER                               -> {}
Acts == {"call", "job", "visit", "lost", "follow_up"}

Silent(plan) == plan.action \in {"CALL_NOW", "CALL_LATER"} \/ plan.slot
\* A fixed acknowledgement, which may fail without failing the turn.
Plain(plan) == plan.action \in {"TRANSFER_HUMAN", "MARK_NOT_INTERESTED"}
\* These update the lead's row.
Locks(plan) == plan.action \in {"MARK_NOT_INTERESTED", "FOLLOW_UP"}

-----------------------------------------------------------------------------
(* Rows *)

Statuses == {"open", "closed", "reopened"}
Turns == {"none", "done", "failed", "speechless"}

NoLead == [by |-> Absent, contact |-> None, status |-> "closed", via |-> "resolver",
           holder |-> None, closing |-> FALSE]
LeadRow == [by : Writers, contact : Contacts \cup {None}, status : Statuses,
            via : {"resolver", "enquiry"}, holder : Requests \cup {None}, closing : BOOLEAN]

NoThread == [by |-> Absent, lead |-> None]
Thread == [by : Writers, lead : Leads \cup {None}]

NoRow == [by |-> Absent, lead |-> None, did |-> {}, human |-> FALSE, turn |-> "none"]
MessageRow == [by : Writers, lead : Leads \cup {None}, did : SUBSET (Acts \cup {"handoff"}),
               human : BOOLEAN, turn : Turns]

Kinds == {"none", "delivery", "enquiry", "trigger"}
Steps == {"idle", "recording", "resolving", "matching", "storing", "reading", "acting",
          "replying", "committing"}
Idle == [kind |-> "none", step |-> "idle", contact |-> None, batch |-> <<>>, at |-> 0,
         lead |-> None, plan |-> NoPlan, broken |-> FALSE]
ReqRow == [kind : Kinds, step : Steps, contact : Contacts \cup {None}, batch : Seq(Messages),
           at : Nat, lead : Leads \cup {None}, plan : Plans \cup {NoPlan}, broken : BOOLEAN]

\* Every variable keeps to its tables and steps.
TypeOK ==
  /\ contact \in [Contacts -> Writers]
  /\ lead \in [Leads -> LeadRow]
  /\ thread \in [Contacts -> Thread]
  /\ row \in [Messages -> MessageRow]
  /\ due \in [Messages -> Nat]
  /\ outside \in [Messages -> Nat]
  /\ undone \in [Messages -> Nat]
  /\ silenced \subseteq Messages
  /\ crashes \in 0..MaxCrashes
  /\ req \in [Requests -> ReqRow]

Init ==
  /\ contact = [c \in Contacts |-> IF c \in Known THEN Saved ELSE Absent]
  /\ lead = [l \in Leads |-> NoLead]
  /\ thread = [c \in Contacts |-> NoThread]
  /\ row = [m \in Messages |-> NoRow]
  /\ due = [m \in Messages |-> MaxCopies]
  /\ outside = [m \in Messages |-> 0]
  /\ undone = [m \in Messages |-> 0]
  /\ silenced = {}
  /\ crashes = 0
  /\ req = [r \in Requests |-> Idle]

Visible(by, r) == by \in {Saved, r}
\* An insert waits for another request's row with the same unique key.
Waits(by, r) == by \notin {Saved, Absent, r}

At(r, step) == req[r].step = step
Message(r) == req[r].batch[req[r].at]
Goto(r, step) == req' = [req EXCEPT ![r].step = step]
\* A statement of a transaction the database has already refused one in raises.
Sound(r) == ~req[r].broken

-----------------------------------------------------------------------------
(* Requests come in *)

Batches == UNION {[1..n -> Messages] : n \in 1..MaxBatch}
InBatch(b) == {b[i] : i \in DOMAIN b}

Begin(r, new) == req[r] = Idle /\ req' = [req EXCEPT ![r] = new]

Receive(r, b) ==
  /\ \A m \in InBatch(b) : due[m] > 0
  /\ \A i, j \in DOMAIN b : b[i] = b[j] => i = j
  /\ Begin(r, [Idle EXCEPT !.kind = "delivery", !.step = "recording", !.batch = b, !.at = 1,
                           !.contact = From[b[1]]])
  /\ due' = [m \in Messages |-> IF m \in InBatch(b) THEN due[m] - 1 ELSE due[m]]
  /\ UNCHANGED <<contact, lead, thread, row, outside, undone, silenced, crashes>>

Enquire(r, c) ==
  /\ Begin(r, [Idle EXCEPT !.kind = "enquiry", !.step = "resolving", !.contact = c])
  /\ UNCHANGED <<contact, lead, thread, row, due, outside, undone, silenced, crashes>>

\* The dashboard's trigger wants a contact that exists.
Trigger(r, c) ==
  /\ contact[c] = Saved
  /\ Begin(r, [Idle EXCEPT !.kind = "trigger", !.step = "matching", !.contact = c])
  /\ UNCHANGED <<contact, lead, thread, row, due, outside, undone, silenced, crashes>>

\* The next event of the delivery, or the end of it.
NextEvent(r) ==
  IF req[r].at < Len(req[r].batch)
  THEN [req[r] EXCEPT !.step = "recording", !.at = @ + 1, !.lead = None, !.plan = NoPlan,
                      !.contact = From[req[r].batch[req[r].at + 1]]]
  ELSE [req[r] EXCEPT !.step = "committing", !.lead = None, !.plan = NoPlan]

-----------------------------------------------------------------------------
(* The deterministic part of a request *)

AlwaysFresh(by) == TRUE                 \* (a mutant: no duplicate check)
Fresh(by) == by = Absent

RecordAs(r, by) ==
  /\ At(r, "recording") /\ Sound(r)
  /\ ~Waits(row[Message(r)].by, r)
  /\ IF Fresh(row[Message(r)].by)
     THEN row' = [row EXCEPT ![Message(r)].by = by] /\ Goto(r, "resolving")
     ELSE UNCHANGED row /\ req' = [req EXCEPT ![r] = NextEvent(r)]
  /\ UNCHANGED <<contact, lead, thread, due, outside, undone, silenced, crashes>>
RecordAtOnce(r) == RecordAs(r, Saved)   \* (a mutant: in a transaction of its own)
RecordEvent(r) == RecordAs(r, r)

\* The insert that loses returns the winner's row: the same contact.
ResolveAs(r, by) ==
  /\ At(r, "resolving")
  /\ ~Waits(contact[req[r].contact], r)
  /\ contact' = [contact EXCEPT ![req[r].contact] = IF @ = Absent THEN by ELSE @]
  /\ Goto(r, "matching")
  /\ UNCHANGED <<lead, thread, row, due, outside, undone, silenced, crashes>>
ResolveAtOnce(r) == ResolveAs(r, Saved) \* (a mutant)
ResolveContact(r) == ResolveAs(r, r)

\* The leads a request may find open.  (The code takes the one whose
\* transaction began last; here any.)
OpenLeads(r) ==
  {l \in Leads : /\ Visible(lead[l].by, r) /\ lead[l].contact = req[r].contact
                 /\ lead[l].status # "closed"
                 /\ ~(lead[l].closing /\ lead[l].holder = r)}
NewLead == CHOOSE l \in Leads : lead[l].by = Absent
AfterMatch(r) == IF req[r].kind = "delivery" THEN "storing" ELSE "committing"

MatchLead(r, l) ==
  /\ At(r, "matching") /\ req[r].kind # "enquiry"
  /\ l \in OpenLeads(r)
  /\ req' = [req EXCEPT ![r].lead = l, ![r].step = AfterMatch(r)]
  /\ UNCHANGED <<contact, lead, thread, row, due, outside, undone, silenced, crashes>>

\* An enquiry always opens a lead of its own.
OpenLead(r) ==
  /\ At(r, "matching")
  /\ req[r].kind = "enquiry" \/ OpenLeads(r) = {}
  /\ \E l \in Leads : lead[l].by = Absent
  /\ lead' = [lead EXCEPT ![NewLead] =
                [NoLead EXCEPT !.by = r, !.contact = req[r].contact, !.status = "open",
                               !.via = IF req[r].kind = "enquiry" THEN "enquiry" ELSE "resolver"]]
  /\ req' = [req EXCEPT ![r].lead = NewLead, ![r].step = AfterMatch(r)]
  /\ UNCHANGED <<contact, thread, row, due, outside, undone, silenced, crashes>>

\* The thread, the message, its log entry, its event and the mark "processed".
Store(r) ==
  LET c == req[r].contact
  IN /\ At(r, "storing")
     /\ ~Waits(thread[c].by, r)
     /\ thread' = [thread EXCEPT ![c] =
                     IF @.by = Absent THEN [by |-> r, lead |-> req[r].lead] ELSE @]
     /\ row' = [row EXCEPT ![Message(r)].lead = req[r].lead]
     /\ Goto(r, "reading")
     /\ UNCHANGED <<contact, lead, due, outside, undone, silenced, crashes>>

-----------------------------------------------------------------------------
(* The AI's turn: whatever goes wrong in it is swallowed *)

Free(l, r) == lead[l].holder \in {None, r}
Lock(l, r) == [lead EXCEPT ![l].holder = r]

TurnEnds(r, turn, broken) ==
  /\ row' = [row EXCEPT ![Message(r)].turn = turn]
  /\ req' = [req EXCEPT ![r] = [NextEvent(r) EXCEPT !.broken = broken]]

\* No AI configured, or nothing but media.
SkipTurn(r) ==
  /\ At(r, "reading")
  /\ req' = [req EXCEPT ![r] = NextEvent(r)]
  /\ UNCHANGED <<contact, lead, thread, row, due, outside, undone, silenced, crashes>>

\* What the model extracted is written to the customer and the lead before the
\* decision; each write is guarded by an except, but a write the database
\* refuses leaves the transaction broken.
Understand(r, plan, learns, broken) ==
  /\ At(r, "reading")
  /\ broken => learns
  /\ learns => Free(req[r].lead, r)
  /\ lead' = IF learns /\ ~broken THEN Lock(req[r].lead, r) ELSE lead
  /\ row' = [row EXCEPT ![Message(r)].human = plan.human]
  /\ req' = [req EXCEPT ![r].plan = plan, ![r].broken = broken, ![r].step = "acting"]
  /\ UNCHANGED <<contact, thread, due, outside, undone, silenced, crashes>>

\* The executor's writes; a call is placed outside.
Act(r) ==
  LET plan == req[r].plan
      m == Message(r)
      turn == IF Silent(plan) THEN "done" ELSE "none"
  IN /\ At(r, "acting") /\ Sound(r)
     /\ Locks(plan) => Free(req[r].lead, r)
     /\ lead' = IF Locks(plan)
                THEN [Lock(req[r].lead, r) EXCEPT ![req[r].lead].closing =
                        @ \/ plan.action = "MARK_NOT_INTERESTED"]
                ELSE lead
     /\ row' = [row EXCEPT ![m].did = @ \cup Effect(plan), ![m].turn = turn]
     /\ outside' = [outside EXCEPT ![m] = IF plan.action = "CALL_NOW" THEN @ + 1 ELSE @]
     /\ req' = [req EXCEPT ![r] = IF Silent(plan) THEN NextEvent(r)
                                  ELSE [@ EXCEPT !.step = "replying"]]
     /\ UNCHANGED <<contact, thread, due, undone, silenced, crashes>>

\* An executor that raises ends the turn.
ActFails(r, broken) ==
  /\ At(r, "acting")
  /\ req[r].broken => broken
  /\ TurnEnds(r, "failed", broken)
  /\ UNCHANGED <<contact, lead, thread, due, outside, undone, silenced, crashes>>

\* WhatsApp takes the reply before the row that records it is inserted.
Reply(r, recorded, broken) ==
  /\ At(r, "replying")
  /\ recorded => ~broken
  /\ outside' = [outside EXCEPT ![Message(r)] = @ + 1]
  /\ TurnEnds(r, IF recorded \/ Plain(req[r].plan) THEN "done" ELSE "failed", broken)
  /\ UNCHANGED <<contact, lead, thread, due, undone, silenced, crashes>>

\* No words from the model, or the provider refuses them.
ReplyFails(r) ==
  /\ At(r, "replying")
  /\ \E turn \in IF Plain(req[r].plan) THEN {"done"} ELSE {"failed", "speechless"} :
       TurnEnds(r, turn, FALSE)
  /\ UNCHANGED <<contact, lead, thread, due, outside, undone, silenced, crashes>>

-----------------------------------------------------------------------------
(* A transaction ends *)

Ended(by, r, kept) == IF by # r THEN by ELSE IF kept THEN Saved ELSE Absent

EndedLead(x, r, kept) ==
  IF ~kept /\ x.by = r THEN NoLead
  ELSE [x EXCEPT !.by = Ended(@, r, kept),
                 !.holder = IF @ = r THEN None ELSE @,
                 !.closing = @ /\ x.holder # r,
                 !.status = IF kept /\ x.closing /\ x.holder = r THEN "closed" ELSE @]

Written(r) == {m \in Messages : row[m].by = r}

Ends(r, kept) ==
  /\ contact' = [c \in Contacts |-> Ended(contact[c], r, kept)]
  /\ lead' = [l \in Leads |-> EndedLead(lead[l], r, kept)]
  /\ thread' = [c \in Contacts |-> IF thread[c].by # r THEN thread[c]
                                   ELSE IF kept THEN [thread[c] EXCEPT !.by = Saved]
                                   ELSE NoThread]
  /\ row' = [m \in Messages |-> IF row[m].by # r THEN row[m]
                                ELSE IF kept THEN [row[m] EXCEPT !.by = Saved]
                                ELSE NoRow]
  /\ undone' = [m \in Messages |-> IF ~kept /\ m \in Written(r) THEN undone[m] + 1
                                   ELSE undone[m]]
  /\ req' = [req EXCEPT ![r] = Idle]
  /\ UNCHANGED outside

\* COMMIT of a broken transaction is a rollback that raises nothing.
Commit(r) ==
  /\ At(r, "committing")
  /\ Ends(r, Sound(r))
  /\ silenced' = IF Sound(r) THEN silenced ELSE silenced \cup Written(r)
  /\ UNCHANGED <<due, crashes>>

\* An exception, the one for the victim of a deadlock among them: the webhook
\* rolls back and still answers 200, so nothing is delivered again.
Fail(r) ==
  /\ req[r] # Idle
  /\ Ends(r, FALSE)
  /\ UNCHANGED <<due, silenced, crashes>>

\* The process dies: no 200, and the provider delivers again.
Crash(r) ==
  /\ req[r] # Idle /\ crashes < MaxCrashes
  /\ Ends(r, FALSE)
  /\ due' = [m \in Messages |-> IF m \in InBatch(req[r].batch) THEN due[m] + 1 ELSE due[m]]
  /\ crashes' = crashes + 1
  /\ UNCHANGED silenced

\* Staff may write any status, behind whoever holds the row.
ChangeStatus(l) ==
  /\ lead[l].by = Saved /\ lead[l].holder = None
  /\ lead' = [lead EXCEPT ![l].status = IF @ = "closed" THEN "reopened" ELSE "closed"]
  /\ UNCHANGED <<contact, thread, row, due, outside, undone, silenced, crashes, req>>

-----------------------------------------------------------------------------

Turn(r) ==
  \/ SkipTurn(r)
  \/ \E plan \in Plans, learns, broken \in BOOLEAN : Understand(r, plan, learns, broken)
  \/ Act(r)
  \/ \E broken \in BOOLEAN : ActFails(r, broken)
  \/ \E recorded, broken \in BOOLEAN : Reply(r, recorded, broken)
  \/ ReplyFails(r)

Next ==
  \/ \E r \in Requests :
       \/ \E b \in Batches : Receive(r, b)
       \/ \E c \in Contacts : Enquire(r, c) \/ Trigger(r, c)
       \/ RecordEvent(r) \/ ResolveContact(r) \/ OpenLead(r)
       \/ \E l \in Leads : MatchLead(r, l)
       \/ Store(r) \/ Turn(r)
       \/ Commit(r) \/ Fail(r) \/ Crash(r)
  \/ \E l \in Leads : ChangeStatus(l)

Spec == Init /\ [][Next]_vars

-----------------------------------------------------------------------------
(* Properties *)

\* A delivery that is recorded as seen has left its message on a lead of the
\* sender: the duplicate check never swallows a message that was lost.
DedupImpliesStored ==
  \A m \in Messages : row[m].by = Saved =>
    row[m].lead # None /\ lead[row[m].lead].by = Saved /\ lead[row[m].lead].contact = From[m]

\* Whatever is delivered how often, a message is answered (or rung back) once,
\* and once more only for each handling of it that was rolled back.
AnsweredOnce == \A m \in Messages : outside[m] <= 1 + undone[m]

\* A message that wants a person never makes the AI act for the sender.
EscalationFirst == \A m \in Messages : row[m].human => row[m].did \cap Acts = {}

\* A number nobody knew gets one lead however its first messages, enquiries and
\* triggers meet (but for those the enquiries open), until one is closed.
OneLeadPerNewcomer ==
  \A c \in Contacts \ Known :
    LET own == {l \in Leads : lead[l].by = Saved /\ lead[l].contact = c}
    IN (\A l \in own : lead[l].status = "open") =>
         Cardinality({l \in own : lead[l].via = "resolver"}) <= 1

\* What the module docstring promises: the record of what the customer said
\* never depends on the AI layer working.
NeverSilenced == silenced = {}

\* What WhatsAppAgent.compose promises: the orchestrator hands over to a person
\* when the model finds no words.
SpeechlessEscalates ==
  \A m \in Messages : row[m].turn = "speechless" => "handoff" \in row[m].did
================================================================================
