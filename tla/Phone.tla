--------------------------------- MODULE Phone ---------------------------------
(***************************************************************************)
(* One call job on the line: dialling it again and again, the provider's   *)
(* ring, answer and hangup events, the media sockets that the voice agent  *)
(* talks on, and the four ways a call's outcome is recorded.               *)
(*                                                                         *)
(* Webhook requests, sockets and completions are processes of their own.   *)
(* A step ends where another one's commit may come between.                *)
(***************************************************************************)
EXTENDS Naturals, FiniteSets

CONSTANTS
  Calls,       \* times the provider may be asked to dial, in order
  Streams,     \* media sockets, browser test rooms included
  Handlers,    \* webhook requests in progress at the same time
  Carried,     \* which of the provider's two ids an event carries
  TakesDicts,  \* whether the driver takes a dict as a jsonb parameter
  MaxAttempts, \* call_jobs.max_attempts
  MaxLines,    \* bound: lines of one conversation
  MaxEvents,   \* bound: deliveries of ring, answer and hangup
  MaxFaults    \* bound: processes that die

None == 0

ASSUME PhoneAssumption ==
  /\ Calls \subseteq Nat \ {None} /\ IsFiniteSet(Calls)
  /\ Carried \subseteq {"request", "call", "both"} /\ TakesDicts \subseteq BOOLEAN
  /\ None \notin Streams /\ None \notin Handlers
  /\ {MaxAttempts, MaxLines, MaxEvents, MaxFaults} \subseteq Nat

VARIABLES
  job,      \* the call_jobs row
  call,     \* calls
  attempt,  \* call_attempts
  log,      \* webhook_events: how often an event was handled to the end
  offered,  \* ids given to the provider in the stream URL of an answer
  handler,  \* webhook requests
  stream,   \* media sockets with their VoiceAgent
  message,  \* call_messages: whose line a row of the transcript holds
  summary,  \* conversation_summaries and agent_sessions: who wrote the row
  handoff,  \* streams that left a sales handoff
  outcomes, \* outcomes recorded for the job (history)
  cdr,      \* the calls row of a call between people, and what was done to it
  events,   \* deliveries so far
  faults

vars == <<job, call, attempt, log, offered, handler, stream, message, summary, handoff,
          outcomes, cdr, events, faults>>

-----------------------------------------------------------------------------
(* Rows *)

Kinds == {"ring", "answer", "hangup"}
Event == [call : Calls, kind : Kinds, ids : Carried]
\* external_event_id: the call's id if the event carries one, else the request's.
Id(e) == [call |-> e.call, kind |-> e.kind, key |-> IF e.ids = "request" THEN "request" ELSE "call"]
Ids == [call : Calls, kind : Kinds, key : {"request", "call"}]

CallStatuses == {"initiated", "ringing", "answered", "completed", "in_progress"}
\* dialling: the provider has taken the call, start_call has not committed;
\* orphan: it never did.
CallRow == [state : {"none", "dialling", "seen", "orphan"}, status : CallStatuses,
            id : {"request", "call", "test"}, ended : BOOLEAN]
NoCall == [state |-> "none", status |-> "initiated", id |-> "request", ended |-> FALSE]

NoEvent == [call |-> None, kind |-> "ring", ids |-> "request"]
HandlerRow == [step : {"idle", "recorded", "found"}, event : Event \cup {NoEvent},
               match : BOOLEAN, saw : CallStatuses, renames : BOOLEAN]
IdleHandler == [step |-> "idle", event |-> NoEvent, match |-> FALSE, saw |-> "initiated",
                renames |-> FALSE]

\* degraded: the agent's flag; broke: the model did fail (history);
\* unknown: refused though its URL named the call now in progress.
StreamRow == [step : {"idle", "talking", "closing", "summarised", "recorded", "unrecorded",
                      "unknown", "refused", "dead"},
              call : Calls \cup {None}, lines : Nat, writing : SUBSET Nat,
              degraded : BOOLEAN, broke : BOOLEAN, human : BOOLEAN]
IdleStream == [step |-> "idle", call |-> None, lines |-> 0, writing |-> {},
               degraded |-> FALSE, broke |-> FALSE, human |-> FALSE]

CrmKinds == {"ALL_CALLS", "MISSED_CALL", "CDR_RECORDING_AVAILABLE", "CDR_SUMMARY_READY"}

\* Every variable keeps to its tables and steps.
TypeOK ==
  /\ job \in [status : {"waiting", "dialling", "calling", "completed", "failed"}, test : BOOLEAN]
  /\ call \in [Calls -> CallRow]
  /\ attempt \in [Calls -> {"none", "in_progress", "completed"}]
  /\ log \in [Ids -> Nat]
  /\ offered \subseteq [call : Calls, id : {"request", "call"}]
  /\ handler \in [Handlers -> HandlerRow]
  /\ stream \in [Streams -> StreamRow]
  /\ message \in [Calls -> [1..MaxLines -> Streams \cup {None}]]
  /\ summary \in [Calls -> Streams \cup {None}]
  /\ handoff \subseteq Streams
  /\ outcomes \in Nat
  /\ cdr \in [known : BOOLEAN, status : {"open", "completed", "no_answer"},
              done : SUBSET CrmKinds, logged : [CrmKinds -> {"absent", "processed", "failed"}]]
  /\ events \in 0..MaxEvents
  /\ faults \in 0..MaxFaults

Init ==
  /\ job = [status |-> "waiting", test |-> FALSE]
  /\ call = [c \in Calls |-> NoCall]
  /\ attempt = [c \in Calls |-> "none"]
  /\ log = [i \in Ids |-> 0]
  /\ offered = {}
  /\ handler = [h \in Handlers |-> IdleHandler]
  /\ stream = [s \in Streams |-> IdleStream]
  /\ message = [c \in Calls |-> [q \in 1..MaxLines |-> None]]
  /\ summary = [c \in Calls |-> None]
  /\ handoff = {}
  /\ outcomes = 0
  /\ cdr \in [known : BOOLEAN, status : {"open"}, done : {{}}, logged : [CrmKinds -> {"absent"}]]
  /\ events = 0
  /\ faults = 0

Seen == {c \in Calls : call[c].state = "seen"}
\* call_jobs.call_id.
Current(c) == c \in Seen /\ \A d \in Seen : d <= c

-----------------------------------------------------------------------------
(* The job is dialled, completed over HTTP, reconciled *)

NextCall(c) == call[c].state = "none" /\ \A d \in Calls : d < c => call[d].state # "none"

\* start_call on its way: the row is locked, the customer's phone rings.
Dial(c) ==
  /\ job.status = "waiting" /\ NextCall(c)
  /\ job' = [job EXCEPT !.status = "dialling"]
  /\ call' = [call EXCEPT ![c].state = "dialling"]
  /\ UNCHANGED <<attempt, log, offered, handler, stream, message, summary, handoff, outcomes,
                 cdr, events, faults>>

CommitDial(c) ==
  /\ call[c].state = "dialling"
  /\ job' = [job EXCEPT !.status = "calling"]
  /\ call' = [call EXCEPT ![c].state = "seen"]
  /\ attempt' = [attempt EXCEPT ![c] = "in_progress"]
  /\ UNCHANGED <<log, offered, handler, stream, message, summary, handoff, outcomes, cdr,
                 events, faults>>

LoseDial(c) ==
  /\ call[c].state = "dialling" /\ faults < MaxFaults
  /\ job' = [job EXCEPT !.status = "waiting"]
  /\ call' = [call EXCEPT ![c].state = "orphan"]
  /\ faults' = faults + 1
  /\ UNCHANGED <<attempt, log, offered, handler, stream, message, summary, handoff, outcomes,
                 cdr, events>>

\* A browser test call has a job and a call of its own, committed before its
\* room is there; without the room nobody ends it but the reconciliation.
StartTest(c, s, room) ==
  /\ job.status = "waiting" /\ Seen = {} /\ NextCall(c) /\ stream[s] = IdleStream
  /\ job' = [status |-> "calling", test |-> TRUE]
  /\ call' = [call EXCEPT ![c] = [state |-> "seen", status |-> "in_progress", id |-> "test",
                                  ended |-> FALSE]]
  /\ attempt' = [attempt EXCEPT ![c] = "in_progress"]
  /\ stream' = [stream EXCEPT ![s].step = IF room THEN "talking" ELSE @,
                              ![s].call = IF room THEN c ELSE @]
  /\ UNCHANGED <<log, offered, handler, message, summary, handoff, outcomes, cdr, events, faults>>

AfterFailure ==
  IF job.test \/ Cardinality(Seen) >= MaxAttempts THEN "failed" ELSE "waiting"

Ends(status) ==
  /\ job' = [job EXCEPT !.status = status]
  /\ outcomes' = outcomes + 1

ActiveOnly == TRUE                               \* (a mutant: the transition is not validated)
Completable == job.status = "calling"

\* POST /agent/calls/{id}/complete, for whichever attempt the caller names.
HttpComplete(c, through) ==
  /\ Completable /\ c \in Seen
  /\ Ends(IF through THEN "completed" ELSE AfterFailure)
  /\ attempt' = [attempt EXCEPT ![c] = "completed"]
  /\ UNCHANGED <<call, log, offered, handler, stream, message, summary, handoff, cdr, events,
                 faults>>

\* The attempt is left in progress.
Reconcile ==
  /\ job.status = "calling"
  /\ Ends(AfterFailure)
  /\ UNCHANGED <<call, attempt, log, offered, handler, stream, message, summary, handoff, cdr,
                 events, faults>>

-----------------------------------------------------------------------------
(* The provider's events *)

Deliverable(e) == call[e.call].state # "none" /\ call[e.call].id # "test"

\* The answer to the event itself, whatever became of its handling.
Offer(e) ==
  IF e.kind # "answer" THEN offered
  ELSE offered \cup {[call |-> e.call, id |-> IF e.ids = "call" THEN "call" ELSE "request"]}

Respond(h, e) ==
  /\ handler' = [handler EXCEPT ![h] = IdleHandler]
  /\ offered' = Offer(e)

\* An insert waits for another request's uncommitted row with the same id.
Unlocked(i) == TRUE                              \* (a mutant: a look-up instead of the index)
Insertable(i) == \A h \in Handlers : handler[h].event # NoEvent => Id(handler[h].event) # i

RecordEvent(h, e) ==
  /\ handler[h] = IdleHandler /\ events < MaxEvents
  /\ Deliverable(e) /\ Insertable(Id(e))
  /\ events' = events + 1
  /\ IF log[Id(e)] > 0
       THEN Respond(h, e)
       ELSE /\ handler' = [handler EXCEPT ![h].step = "recorded", ![h].event = e]
            /\ UNCHANGED offered
  /\ UNCHANGED <<job, call, attempt, log, stream, message, summary, handoff, outcomes, cdr, faults>>

\* By the call's id, then by the request's.
Matches(e) ==
  /\ call[e.call].state = "seen"
  /\ e.ids \in {call[e.call].id, "both"}
Renames(e) == Matches(e) /\ e.ids = "both" /\ call[e.call].id = "request"
RowFree(h, c) == \A k \in Handlers \ {h} : ~(handler[k].renames /\ handler[k].event.call = c)

FindCall(h) ==
  LET e == handler[h].event
  IN /\ handler[h].step = "recorded" /\ ~Renames(e)
     /\ handler' = [handler EXCEPT ![h].step = "found", ![h].match = Matches(e),
                                   ![h].saw = call[e.call].status]
     /\ UNCHANGED <<job, call, attempt, log, offered, stream, message, summary, handoff,
                    outcomes, cdr, events, faults>>

\* The row is found under the request's id and given the call's; the note that
\* goes with it is passed as a dict, which a driver may refuse.
NormalizeCall(h, taken) ==
  LET e == handler[h].event
  IN /\ handler[h].step = "recorded" /\ Renames(e) /\ RowFree(h, e.call)
     /\ taken \in TakesDicts
     /\ IF taken
          THEN /\ handler' = [handler EXCEPT ![h].step = "found", ![h].match = TRUE,
                                             ![h].saw = call[e.call].status, ![h].renames = TRUE]
               /\ UNCHANGED offered
          ELSE Respond(h, e)
     /\ UNCHANGED <<job, call, attempt, log, stream, message, summary, handoff, outcomes, cdr,
                    events, faults>>

\* What the event makes of the status read before.
StatusAfter(kind, saw, now) ==
  CASE kind = "answer" -> "answered"
    [] kind = "hangup" -> "completed"
    [] OTHER           -> IF saw = "initiated" THEN "ringing" ELSE now

HandleEvent(h) ==
  LET e == handler[h].event
      x == handler[h]
  IN /\ x.step = "found"
     /\ x.match => RowFree(h, e.call)
     /\ call' = IF ~x.match THEN call
                ELSE [call EXCEPT ![e.call].status = StatusAfter(e.kind, x.saw, @),
                                  ![e.call].ended = @ \/ e.kind = "hangup",
                                  ![e.call].id = IF x.renames THEN "call" ELSE @]
     /\ log' = [log EXCEPT ![Id(e)] = @ + 1]
     /\ Respond(h, e)
     /\ UNCHANGED <<job, attempt, stream, message, summary, handoff, outcomes, cdr, events, faults>>

\* Any exception is rolled back and answered all the same.
EventFails(h) ==
  /\ handler[h] # IdleHandler
  /\ Respond(h, handler[h].event)
  /\ UNCHANGED <<job, call, attempt, log, stream, message, summary, handoff, outcomes, cdr,
                 events, faults>>

\* The CRM's events.  Nothing here inserts the row of a call between people;
\* an event without one is recorded and no more.  A failure is noted on the
\* event, unless the database refuses that too and all is rolled back.
CrmEvent(k, taken) ==
  /\ cdr.logged[k] = "absent" /\ taken \in TakesDicts
  /\ cdr' =
       IF ~cdr.known THEN [cdr EXCEPT !.logged[k] = "processed"]
       ELSE IF k \in {"ALL_CALLS", "MISSED_CALL"} \/ taken
       THEN [cdr EXCEPT !.logged[k] = "processed", !.done = @ \cup {k},
                        !.status = CASE k = "MISSED_CALL" -> "no_answer"
                                     [] k = "ALL_CALLS"   -> "completed"
                                     [] OTHER             -> @]
       ELSE [cdr EXCEPT !.logged[k] = "failed"]
  /\ UNCHANGED <<job, call, attempt, log, offered, handler, stream, message, summary, handoff,
                 outcomes, events, faults>>

-----------------------------------------------------------------------------
(* A media socket *)

\* The call is looked up by the id of the URL among those a job points to.
Resolves(u) == Current(u.call) /\ call[u.call].id = u.id

OpenStream(s, u, room) ==
  /\ stream[s] = IdleStream /\ u \in offered
  /\ stream' = [stream EXCEPT ![s].call = u.call,
                              ![s].step = IF Resolves(u) THEN IF room THEN "talking" ELSE "refused"
                                          ELSE IF Current(u.call) THEN "unknown" ELSE "refused"]
  /\ UNCHANGED <<job, call, attempt, log, offered, handler, message, summary, handoff, outcomes,
                 cdr, events, faults>>

LastTurnOnly(degraded, failed) == failed         \* (a mutant: a good turn clears the flag)
Sticky(degraded, failed) == degraded \/ failed

\* A line is spoken, the model's fallback if it failed, and its write started.
Speak(s, failed) ==
  LET q == stream[s].lines + 1
  IN /\ stream[s].step = "talking" /\ q <= MaxLines
     /\ stream' = [stream EXCEPT ![s].lines = q, ![s].writing = @ \cup {q},
                                 ![s].degraded = Sticky(@, failed), ![s].broke = @ \/ failed]
     /\ UNCHANGED <<job, call, attempt, log, offered, handler, message, summary, handoff,
                    outcomes, cdr, events, faults>>

\* A write lands, in a session of its own: on a row that is there it does
\* nothing, and if it fails that is swallowed.
KeptRow(old, s) == IF old = None THEN s ELSE old
Persist(s, q, fails) ==
  LET c == stream[s].call
  IN /\ q \in stream[s].writing
     /\ message' = IF fails THEN message
                   ELSE [message EXCEPT ![c][q] = KeptRow(@, s)]
     /\ stream' = [stream EXCEPT ![s].writing = @ \ {q}]
     /\ UNCHANGED <<job, call, attempt, log, offered, handler, summary, handoff, outcomes, cdr,
                    events, faults>>

\* The socket closes or the session breaks; the media is torn down first.
HangUp(s) ==
  /\ stream[s].step = "talking"
  /\ stream' = [stream EXCEPT ![s].step = "closing"]
  /\ UNCHANGED <<job, call, attempt, log, offered, handler, message, summary, handoff, outcomes,
                 cdr, events, faults>>

\* A failed model means a person, whether it fails now or did in the call.
NeedsHuman(x, failed, wants) ==
  IF x.lines = 0 THEN x.degraded ELSE failed \/ wants \/ x.degraded

NotFlushed(s) == stream[s].step = "closing"      \* (a mutant: the writes are not awaited)
Flushed(s) == stream[s].step = "closing" /\ stream[s].writing = {}

Summarise(s, failed, wants) ==
  /\ Flushed(s)
  /\ stream' = [stream EXCEPT ![s].step = "summarised",
                              ![s].broke = @ \/ (failed /\ stream[s].lines > 0),
                              ![s].human = NeedsHuman(stream[s], failed, wants)]
  /\ UNCHANGED <<job, call, attempt, log, offered, handler, message, summary, handoff, outcomes,
                 cdr, events, faults>>

SummaryAfter(s) == [summary EXCEPT ![stream[s].call] = s]

\* The summary, the handoff and, last, the gateway's completion: one
\* transaction, for the attempt the socket began with.
Record(s) ==
  /\ stream[s].step = "summarised"
  /\ Completable
  /\ summary' = SummaryAfter(s)
  /\ handoff' = IF stream[s].human THEN handoff \cup {s} ELSE handoff
  /\ attempt' = [attempt EXCEPT ![stream[s].call] = "completed"]
  /\ Ends("completed")
  /\ stream' = [stream EXCEPT ![s].step = "recorded"]
  /\ UNCHANGED <<call, log, offered, handler, message, cdr, events, faults>>

\* The gateway refuses (the job is no longer being called, or its row is
\* locked by someone) or anything else raises: all of it is rolled back.
ArtefactsFirst(s) ==                             \* (a mutant: committed before the completion)
  /\ stream[s].step = "summarised"
  /\ summary' = SummaryAfter(s)
  /\ stream' = [stream EXCEPT ![s].step = "unrecorded"]
  /\ UNCHANGED <<job, call, attempt, log, offered, handler, message, handoff, outcomes, cdr,
                 events, faults>>
NotRecorded(s) ==
  /\ stream[s].step = "summarised"
  /\ stream' = [stream EXCEPT ![s].step = "unrecorded"]
  /\ UNCHANGED <<job, call, attempt, log, offered, handler, message, summary, handoff, outcomes,
                 cdr, events, faults>>

\* The process dies with the socket and the lines not written yet.
CrashStream(s) ==
  /\ stream[s].step \in {"talking", "closing", "summarised"} /\ faults < MaxFaults
  /\ stream' = [stream EXCEPT ![s].step = "dead", ![s].writing = {}]
  /\ faults' = faults + 1
  /\ UNCHANGED <<job, call, attempt, log, offered, handler, message, summary, handoff, outcomes,
                 cdr, events>>

-----------------------------------------------------------------------------

Media(s) ==
  \/ \E failed \in BOOLEAN : Speak(s, failed)
  \/ \E q \in 1..MaxLines, fails \in BOOLEAN : Persist(s, q, fails)
  \/ HangUp(s)
  \/ \E failed, wants \in BOOLEAN : Summarise(s, failed, wants)
  \/ Record(s) \/ NotRecorded(s) \/ CrashStream(s)

Next ==
  \/ \E c \in Calls :
       \/ Dial(c) \/ CommitDial(c) \/ LoseDial(c)
       \/ \E s \in Streams, room \in BOOLEAN : StartTest(c, s, room)
       \/ \E through \in BOOLEAN : HttpComplete(c, through)
  \/ Reconcile
  \/ \E h \in Handlers :
       \/ \E e \in Event : RecordEvent(h, e)
       \/ FindCall(h) \/ HandleEvent(h) \/ EventFails(h)
       \/ \E taken \in BOOLEAN : NormalizeCall(h, taken)
  \/ \E k \in CrmKinds, taken \in BOOLEAN : CrmEvent(k, taken)
  \/ \E s \in Streams :
       \/ \E u \in offered, room \in BOOLEAN : OpenStream(s, u, room)
       \/ Media(s)

Spec == Init /\ [][Next]_vars

-----------------------------------------------------------------------------
(* Properties *)

\* There is no summary and no handoff of a conversation whose outcome the
\* gateway did not record (record_outcome: "no state in which a summary exists
\* for a call the gateway never completed"), whoever completed the job first.
OutcomeAllOrNothing ==
  /\ \A c \in Calls : summary[c] # None =>
       attempt[c] = "completed" /\ stream[summary[c]].step = "recorded"
  /\ \A s \in handoff : stream[s].step = "recorded" /\ stream[s].human

\* Sockets (a first one and the one that reconnects), HTTP completions and the
\* reconciliation may all report the same call: one outcome a dial.
OutcomesMatchDials == outcomes <= Cardinality(Seen)

\* When a conversation is summarised and recorded, no line of it is still being
\* written: each is in the transcript, refused there, or lost to a failure.
TranscriptSettled == \A c \in Calls : summary[c] # None => stream[summary[c]].writing = {}

\* A line of the transcript is never replaced by that of a later socket, which
\* numbers its own from 1 again.
TranscriptKept ==
  [][\A c \in Calls, q \in 1..MaxLines : message[c][q] # None => message'[c][q] = message[c][q]]_vars

\* The model failed somewhere in the call and an outcome is recorded: then a
\* person takes over, whatever the model answered after that.
DegradedHandsOver ==
  \A s \in Streams : stream[s].step = "recorded" /\ stream[s].broke => s \in handoff

\* An event is handled once under its id, however often and at the same time it
\* is delivered; a call has ended only by a hangup on record, and a CRM event
\* marked as processed has left its effect if there is a row.
EventOnce ==
  /\ \A i \in Ids : log[i] <= 1
  /\ \A c \in Calls : call[c].ended => \E i \in Ids : i.call = c /\ i.kind = "hangup" /\ log[i] = 1
  /\ cdr.known => \A k \in CrmKinds : cdr.logged[k] = "processed" <=> k \in cdr.done

\* agent.py:195-197: a summary "is never written for a transcript that silently
\* failed to persist".
SummaryHasTranscript ==
  \A c \in Calls : summary[c] # None =>
    \A q \in 1..stream[summary[c]].lines : message[c][q] = summary[c]

\* build_stream_response: the id in the URL is the one the calls row has, so the
\* socket finds the call in progress.
SocketFindsCall == \A s \in Streams : stream[s].step # "unknown"

\* respond: the failure is remembered, "so the call ends with a human handoff".
DegradedEndsWithHandoff ==
  \A s \in Streams : stream[s].step \in {"recorded", "unrecorded"} /\ stream[s].broke =>
    s \in handoff
================================================================================
