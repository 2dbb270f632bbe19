------------------------------ MODULE PhoneProofs ------------------------------
(***************************************************************************)
(* What is recorded of a call, for any number of calls, media sockets and  *)
(* webhook requests.                                                       *)
(***************************************************************************)
EXTENDS Phone, FiniteSetTheorems, TLAPS

\* A socket that has got past its lookup talks for a call whose dial is committed.
Live == {"talking", "closing", "summarised", "recorded", "unrecorded", "dead"}
SocketsHaveCalls == \A s \in Streams : stream[s].step \in Live => stream[s].call \in Seen

\* Nothing is known of a call's outcome before its dial is committed.
NothingBeforeDial == \A c \in Calls : c \notin Seen => attempt[c] = "none"

\* The agent remembers that its model failed until the outcome says so.
FailureKept ==
  \A s \in Streams :
    /\ stream[s].step \in {"idle", "talking", "closing"} => (stream[s].broke => stream[s].degraded)
    /\ stream[s].step = "summarised" => (stream[s].broke => stream[s].human)

\* Once the transcript has been waited for, no line is being written.
WritesAwaited == \A s \in Streams : stream[s].step \in {"summarised", "recorded"} => stream[s].writing = {}

\* A job that is being called has a dial without an outcome.
OutcomeDue ==
  /\ OutcomesMatchDials
  /\ job.status = "calling" => outcomes < Cardinality(Seen)

\* A webhook request at work has an event.
Received == \A h \in Handlers : handler[h] # IdleHandler => handler[h].event \in Event

\* What each socket and each call may have left.
SocketInv ==
  /\ SocketsHaveCalls /\ NothingBeforeDial
  /\ FailureKept /\ WritesAwaited
  /\ OutcomeAllOrNothing /\ DegradedHandsOver

\* The inductive invariant.
PhoneInv == TypeOK /\ Received /\ SocketInv /\ OutcomeDue

-----------------------------------------------------------------------------
(* Counting dials *)

\* Calls are dialled one by one: their number is a number.
LEMMA SeenFinite ==
  ASSUME TypeOK
  PROVE  IsFiniteSet(Seen) /\ Cardinality(Seen) \in Nat
BY PhoneAssumption, FS_Subset, FS_CardinalityType DEF Seen

\* A dial that is committed is one more.
LEMMA OneMoreSeen ==
  ASSUME TypeOK, NEW c \in Calls, c \notin Seen, Seen' = Seen \cup {c}
  PROVE  Cardinality(Seen') = Cardinality(Seen) + 1
BY SeenFinite, FS_AddElement

-----------------------------------------------------------------------------
(* Types *)

\* What the tables start with are rows.
LEMMA IdleRows == NoCall \in CallRow /\ IdleHandler \in HandlerRow /\ IdleStream \in StreamRow
BY DEF NoCall, CallRow, CallStatuses, IdleHandler, HandlerRow, NoEvent, IdleStream, StreamRow

\* The tables start typed.
LEMMA TypeInit == Init => TypeOK /\ Received
<1> SUFFICES ASSUME Init PROVE TypeOK /\ Received
  OBVIOUS
<1>1. cdr \in [known : BOOLEAN, status : {"open", "completed", "no_answer"},
              done : SUBSET CrmKinds, logged : [CrmKinds -> {"absent", "processed", "failed"}]]
  BY DEF Init
<1> QED
  BY <1>1, IdleRows, PhoneAssumption DEF Init, TypeOK, Received

\* An answer offers the stream under an id the event carries.
LEMMA OfferType ==
  ASSUME TypeOK, NEW e \in Event
  PROVE  Offer(e) \subseteq [call : Calls, id : {"request", "call"}]
BY DEF TypeOK, Offer, Event

\* What the steps of a socket make of its row is a row.
LEMMA Spoken ==
  ASSUME NEW x \in StreamRow, NEW n \in Nat, NEW w \in SUBSET Nat, NEW d \in BOOLEAN, NEW b \in BOOLEAN
  PROVE  [x EXCEPT !.lines = n, !.writing = w, !.degraded = d, !.broke = b] \in StreamRow
BY DEF StreamRow

\* A socket that stops, in whatever state its writes are.
LEMMA Stopped ==
  ASSUME NEW x \in StreamRow, NEW p \in {"closing", "unrecorded", "dead"}, NEW w \in SUBSET Nat
  PROVE  [x EXCEPT !.step = p, !.writing = w] \in StreamRow
BY DEF StreamRow

\* A socket that has its summary.
LEMMA Summed ==
  ASSUME NEW x \in StreamRow, NEW b \in BOOLEAN, NEW w \in BOOLEAN
  PROVE  [x EXCEPT !.step = "summarised", !.broke = b, !.human = w] \in StreamRow
BY DEF StreamRow

\* Every step keeps the types.
LEMMA TypeNext == TypeOK /\ Received /\ [Next]_vars => TypeOK' /\ Received'
<1> SUFFICES ASSUME TypeOK, Received, [Next]_vars PROVE TypeOK' /\ Received'
  OBVIOUS
<1> USE PhoneAssumption
<1>c. call \in [Calls -> CallRow]
  BY DEF TypeOK
<1>s. stream \in [Streams -> StreamRow]
  BY DEF TypeOK
<1>h. handler \in [Handlers -> HandlerRow]
  BY DEF TypeOK
<1>f. faults < MaxFaults => faults + 1 \in 0..MaxFaults
  BY DEF TypeOK
<1>e. events < MaxEvents => events + 1 \in 0..MaxEvents
  BY DEF TypeOK
<1>j. job \in [status : {"waiting", "dialling", "calling", "completed", "failed"}, test : BOOLEAN]
  BY DEF TypeOK
<1>o. outcomes + 1 \in Nat /\ AfterFailure \in {"failed", "waiting"}
  BY DEF TypeOK, AfterFailure
<1>m. message \in [Calls -> [1..MaxLines -> Streams \cup {None}]]
  BY DEF TypeOK
<1>u. (handler' = handler) => Received'
  BY DEF Received
<1>i. \A e \in Event : Id(e) \in Ids
  BY DEF Event, Id, Ids
<1>1. ASSUME NEW c \in Calls, Dial(c) \/ CommitDial(c) \/ LoseDial(c) PROVE TypeOK' /\ Received'
  <2>1. \A v \in {"dialling", "seen", "orphan"} : [call[c] EXCEPT !.state = v] \in CallRow
    BY <1>c DEF CallRow
  <2>2. PICK v \in {"dialling", "seen", "orphan"} : call' = [call EXCEPT ![c] = [call[c] EXCEPT !.state = v]]
    BY <1>1, <1>c DEF Dial, CommitDial, LoseDial
  <2>3. call' \in [Calls -> CallRow]
    BY <2>1, <2>2, <1>c
  <2>4. CASE Dial(c)
    BY <2>3, <2>4, <1>u DEF Dial, TypeOK
  <2>5. CASE CommitDial(c)
    BY <2>3, <2>5, <1>u DEF CommitDial, TypeOK
  <2>6. CASE LoseDial(c)
    BY <2>3, <2>6, <1>f, <1>u DEF LoseDial, TypeOK
  <2> QED
    BY <1>1, <2>4, <2>5, <2>6
<1>2. ASSUME NEW c \in Calls, NEW s \in Streams, NEW room \in BOOLEAN, StartTest(c, s, room)
      PROVE TypeOK' /\ Received'
  <2>1. [stream[s] EXCEPT !.step = IF room THEN "talking" ELSE @, !.call = IF room THEN c ELSE @]
          \in StreamRow
    <3>1. stream[s] \in StreamRow /\ [stream[s] EXCEPT !.step = "talking", !.call = c] \in StreamRow
      BY <1>s DEF StreamRow
    <3>2. [stream[s] EXCEPT !.step = @, !.call = @] = stream[s]
      BY <3>1 DEF StreamRow
    <3> QED
      BY <3>1, <3>2
  <2>2. stream' \in [Streams -> StreamRow]
    BY <1>2, <1>s, <2>1 DEF StartTest
  <2>3. call' \in [Calls -> CallRow]
    BY <1>2, <1>c DEF StartTest, CallRow, CallStatuses
  <2> QED
    BY <1>2, <2>2, <2>3, <1>u DEF StartTest, TypeOK
<1>3. ASSUME NEW c \in Calls, NEW through \in BOOLEAN, HttpComplete(c, through) PROVE TypeOK' /\ Received'
  <2>1. job' \in [status : {"waiting", "dialling", "calling", "completed", "failed"}, test : BOOLEAN]
    BY <1>3, <1>j, <1>o DEF HttpComplete, Ends
  <2> QED
    BY <1>3, <1>o, <2>1, <1>u DEF HttpComplete, Ends, TypeOK
<1>4. CASE Reconcile
  <2>1. job' \in [status : {"waiting", "dialling", "calling", "completed", "failed"}, test : BOOLEAN]
    BY <1>4, <1>j, <1>o DEF Reconcile, Ends
  <2> QED
    BY <1>4, <1>o, <2>1, <1>u DEF Reconcile, Ends, TypeOK
<1>5. ASSUME NEW h \in Handlers, NEW e \in Event, RecordEvent(h, e) PROVE TypeOK' /\ Received'
  <2>1. [handler[h] EXCEPT !.step = "recorded", !.event = e] \in HandlerRow
    BY <1>h DEF HandlerRow
  <2>2. handler' \in [Handlers -> HandlerRow]
    BY <1>5, <1>h, <2>1, IdleRows DEF RecordEvent, Respond
  <2>3. offered' = Offer(e) \/ offered' = offered
    BY <1>5 DEF RecordEvent, Respond
  <2>4. offered' \subseteq [call : Calls, id : {"request", "call"}]
    BY <2>3, OfferType DEF TypeOK
  <2>5. Received'
    <3>1. \A k \in Handlers : handler'[k] = handler[k] \/ handler'[k] = IdleHandler \/ handler'[k].event = e
      BY <1>5, <1>h DEF RecordEvent, Respond, HandlerRow
    <3> QED
      BY <3>1 DEF Received
  <2> QED
    BY <1>5, <1>e, <2>2, <2>4, <2>5 DEF RecordEvent, TypeOK
<1>6. ASSUME NEW h \in Handlers, NEW e \in Event, Respond(h, e),
             UNCHANGED <<job, attempt, stream, message, summary, handoff, outcomes, cdr, events, faults>>,
             call' \in [Calls -> CallRow], log' \in [Ids -> Nat]
      PROVE TypeOK' /\ Received'
  <2>1. handler' \in [Handlers -> HandlerRow]
    BY <1>6, <1>h, IdleRows DEF Respond
  <2>2. offered' \subseteq [call : Calls, id : {"request", "call"}]
    BY <1>6, OfferType DEF Respond
  <2>3. Received'
    BY <1>6, <1>h DEF Respond, Received
  <2> QED
    BY <1>6, <2>1, <2>2, <2>3 DEF TypeOK
<1>7. ASSUME NEW h \in Handlers, NEW row \in HandlerRow, handler' = [handler EXCEPT ![h] = row],
             row.event \in Event,
             UNCHANGED <<job, call, attempt, log, offered, stream, message, summary, handoff,
                         outcomes, cdr, events, faults>>
      PROVE TypeOK' /\ Received'
  <2>1. handler' \in [Handlers -> HandlerRow]
    BY <1>7, <1>h
  <2>2. Received'
    BY <1>7, <1>h DEF Received
  <2> QED
    BY <1>7, <2>1, <2>2 DEF TypeOK
<1>8. ASSUME NEW h \in Handlers, FindCall(h) PROVE TypeOK' /\ Received'
  <2> DEFINE e == handler[h].event
             row == [handler[h] EXCEPT !.step = "found", !.match = Matches(e),
                                       !.saw = call[e.call].status]
  <2>1. e \in Event /\ e.call \in Calls
    <3>1. handler[h].step = "recorded"
      BY <1>8, Zenon DEF FindCall
    <3>2. handler[h] # IdleHandler
      BY <3>1 DEF IdleHandler
    <3>3. handler[h].event \in Event
      BY <3>2 DEF Received
    <3> QED
      BY <3>3 DEF Event
  <2>2. Matches(e) \in BOOLEAN /\ call[e.call].status \in CallStatuses
    BY <2>1, <1>c DEF Matches, CallRow
  <2>3. row \in HandlerRow /\ row.event = e
    BY <2>1, <2>2, <1>h DEF HandlerRow
  <2>4. handler' = [handler EXCEPT ![h] = row]
    BY <1>8, <1>h DEF FindCall
  <2> QED
    BY <1>8, <2>1, <2>3, <2>4, <1>7 DEF FindCall
<1>9. ASSUME NEW h \in Handlers, NEW taken \in BOOLEAN, NormalizeCall(h, taken) PROVE TypeOK' /\ Received'
  <2> DEFINE e == handler[h].event
             row == [handler[h] EXCEPT !.step = "found", !.match = TRUE,
                                       !.saw = call[e.call].status, !.renames = TRUE]
  <2>1. e \in Event /\ e.call \in Calls
    <3>1. handler[h].step = "recorded"
      BY <1>9, Zenon DEF NormalizeCall
    <3>2. handler[h] # IdleHandler
      BY <3>1 DEF IdleHandler
    <3>3. handler[h].event \in Event
      BY <3>2 DEF Received
    <3> QED
      BY <3>3 DEF Event
  <2>2. CASE taken
    <3>1. call[e.call].status \in CallStatuses
      BY <2>1, <1>c DEF CallRow
    <3>2. row \in HandlerRow /\ row.event = e
      BY <2>1, <3>1, <1>h DEF HandlerRow
    <3>3. handler' = [handler EXCEPT ![h] = row]
      BY <1>9, <1>h, <2>2 DEF NormalizeCall
    <3> QED
      BY <1>9, <2>1, <2>2, <3>2, <3>3, <1>7 DEF NormalizeCall
  <2>3. CASE ~taken
    <3>1. Respond(h, e)
      BY <1>9, <2>3 DEF NormalizeCall
    <3>2. call' \in [Calls -> CallRow] /\ log' \in [Ids -> Nat]
      BY <1>9 DEF NormalizeCall, TypeOK
    <3> QED
      BY <1>9, <2>1, <3>1, <3>2, <1>6 DEF NormalizeCall
  <2> QED
    BY <2>2, <2>3
<1>10. ASSUME NEW h \in Handlers, HandleEvent(h) PROVE TypeOK' /\ Received'
  <2> DEFINE e == handler[h].event
             status == StatusAfter(e.kind, handler[h].saw, call[e.call].status)
             row == [call[e.call] EXCEPT !.status = status, !.ended = @ \/ e.kind = "hangup",
                                         !.id = IF handler[h].renames THEN "call" ELSE @]
  <2>1. e \in Event /\ e.call \in Calls
    <3>1. handler[h].step = "found"
      BY <1>10, Zenon DEF HandleEvent
    <3>2. handler[h] # IdleHandler
      BY <3>1 DEF IdleHandler
    <3>3. handler[h].event \in Event
      BY <3>2 DEF Received
    <3> QED
      BY <3>3 DEF Event
  <2>2. call[e.call] \in CallRow
    BY <2>1, <1>c
  <2>3. status \in CallStatuses
    BY <2>2 DEF StatusAfter, CallStatuses, CallRow
  <2>4. row \in CallRow
    BY <2>2, <2>3 DEF CallRow
  <2>5. call' = call \/ call' = [call EXCEPT ![e.call] = row]
    BY <1>10, <1>c DEF HandleEvent
  <2> HIDE DEF row
  <2>6. call' \in [Calls -> CallRow]
    BY <2>4, <2>5, <1>c
  <2>7. log' \in [Ids -> Nat]
    <3>1. log \in [Ids -> Nat] /\ log' = [log EXCEPT ![Id(e)] = @ + 1] /\ Id(e) \in Ids
      BY <1>10, <1>i, <2>1 DEF HandleEvent, TypeOK
    <3> QED
      BY <3>1
  <2> QED
    BY <1>10, <2>1, <2>6, <2>7, <1>6 DEF HandleEvent
<1>11. ASSUME NEW h \in Handlers, EventFails(h) PROVE TypeOK' /\ Received'
  <2>1. handler[h].event \in Event /\ call' \in [Calls -> CallRow] /\ log' \in [Ids -> Nat]
    BY <1>11 DEF EventFails, Received, TypeOK
  <2> QED
    BY <1>11, <2>1, <1>6 DEF EventFails
<1>12. ASSUME NEW k \in CrmKinds, NEW taken \in BOOLEAN, CrmEvent(k, taken) PROVE TypeOK' /\ Received'
  BY <1>12, <1>u DEF CrmEvent, TypeOK
<1>13. ASSUME NEW s \in Streams, NEW u \in offered, NEW room \in BOOLEAN, OpenStream(s, u, room)
       PROVE TypeOK' /\ Received'
  <2>1. u.call \in Calls
    BY DEF TypeOK
  <2>2. PICK v \in {"talking", "refused", "unknown"} :
          stream' = [stream EXCEPT ![s] = [stream[s] EXCEPT !.call = u.call, !.step = v]]
    BY <1>13, <1>s DEF OpenStream
  <2>3. [stream[s] EXCEPT !.call = u.call, !.step = v] \in StreamRow
    BY <1>s, <2>1 DEF StreamRow
  <2>4. stream' \in [Streams -> StreamRow]
    BY <1>s, <2>2, <2>3
  <2> QED
    BY <1>13, <2>4, <1>u DEF OpenStream, TypeOK
<1>14. ASSUME NEW s \in Streams, NEW row \in StreamRow, stream' = [stream EXCEPT ![s] = row],
              handler' = handler
       PROVE stream' \in [Streams -> StreamRow] /\ Received'
  BY <1>14, <1>s, <1>u
<1>15. ASSUME NEW s \in Streams, NEW failed \in BOOLEAN, Speak(s, failed) PROVE TypeOK' /\ Received'
  <2> DEFINE q == stream[s].lines + 1
             row == [stream[s] EXCEPT !.lines = q, !.writing = @ \cup {q},
                                      !.degraded = Sticky(@, failed), !.broke = @ \/ failed]
  <2>1. row \in StreamRow
    <3>1. stream[s] \in StreamRow /\ q \in Nat /\ stream[s].writing \cup {q} \in SUBSET Nat
      BY <1>s DEF StreamRow
    <3>2. stream[s].degraded \in BOOLEAN /\ stream[s].broke \in BOOLEAN
      BY <1>s DEF StreamRow
    <3>3. Sticky(stream[s].degraded, failed) \in BOOLEAN /\ (stream[s].broke \/ failed) \in BOOLEAN
      BY <3>2, Zenon DEF Sticky
    <3> QED
      BY <3>1, <3>3, Spoken
  <2>2. stream' = [stream EXCEPT ![s] = row]
    BY <1>15, <1>s DEF Speak
  <2> HIDE DEF row
  <2> QED
    BY <1>15, <2>1, <2>2, <1>14 DEF Speak, TypeOK
<1>16. ASSUME NEW s \in Streams, NEW q \in 1..MaxLines, NEW fails \in BOOLEAN, Persist(s, q, fails)
       PROVE TypeOK' /\ Received'
  <2> DEFINE row == [stream[s] EXCEPT !.writing = @ \ {q}]
             c == stream[s].call
  <2>1. row \in StreamRow
    BY <1>s DEF StreamRow
  <2>2. stream' = [stream EXCEPT ![s] = row]
    BY <1>16, <1>s DEF Persist
  <2>3. message' \in [Calls -> [1..MaxLines -> Streams \cup {None}]]
    <3> DEFINE lines == [message[c] EXCEPT ![q] = KeptRow(@, s)]
    <3>1. message' = message \/ message' = [message EXCEPT ![c] = lines]
      BY <1>16, <1>m DEF Persist
    <3>2. c \in Calls => lines \in [1..MaxLines -> Streams \cup {None}]
      BY <1>m DEF KeptRow
    <3> HIDE DEF lines
    <3> QED
      BY <3>1, <3>2, <1>m
  <2> HIDE DEF row
  <2> QED
    BY <1>16, <2>1, <2>2, <2>3, <1>14 DEF Persist, TypeOK
<1>17. ASSUME NEW s \in Streams, HangUp(s) \/ NotRecorded(s) \/ CrashStream(s)
       PROVE TypeOK' /\ Received'
  <2>1. PICK step \in {"closing", "unrecorded", "dead"}, writing \in SUBSET Nat :
          stream' = [stream EXCEPT ![s] = [stream[s] EXCEPT !.step = step, !.writing = writing]]
    <3>1. stream[s] \in StreamRow /\ stream[s].writing \in SUBSET Nat
      BY <1>s DEF StreamRow
    <3>2. CASE HangUp(s)
      <4>1. [stream[s] EXCEPT !.step = "closing"]
             = [stream[s] EXCEPT !.step = "closing", !.writing = stream[s].writing]
        BY <3>1 DEF StreamRow
      <4>2. stream' = [stream EXCEPT ![s] = [stream[s] EXCEPT !.step = "closing"]]
        BY <3>2 DEF HangUp
      <4> QED
        BY <3>1, <4>1, <4>2
    <3>3. CASE NotRecorded(s)
      <4>1. [stream[s] EXCEPT !.step = "unrecorded"]
             = [stream[s] EXCEPT !.step = "unrecorded", !.writing = stream[s].writing]
        BY <3>1 DEF StreamRow
      <4>2. stream' = [stream EXCEPT ![s] = [stream[s] EXCEPT !.step = "unrecorded"]]
        BY <3>3 DEF NotRecorded
      <4> QED
        BY <3>1, <4>1, <4>2
    <3>4. CASE CrashStream(s)
      BY <3>4, <1>s DEF CrashStream
    <3> QED
      BY <1>17, <3>2, <3>3, <3>4
  <2>2. [stream[s] EXCEPT !.step = step, !.writing = writing] \in StreamRow
    <3>1. stream[s] \in StreamRow
      BY <1>s
    <3> QED
      BY <3>1, Stopped
  <2> DEFINE row == [stream[s] EXCEPT !.step = step, !.writing = writing]
  <2>3. row \in StreamRow /\ stream' = [stream EXCEPT ![s] = row]
    BY <2>1, <2>2
  <2> HIDE DEF row
  <2>4. stream' \in [Streams -> StreamRow] /\ (handler' = handler => Received')
    BY <2>3, <1>s, <1>u
  <2> QED
    BY <1>17, <2>4, <1>f DEF HangUp, NotRecorded, CrashStream, TypeOK
<1>18. ASSUME NEW s \in Streams, NEW failed \in BOOLEAN, NEW wants \in BOOLEAN,
              Summarise(s, failed, wants)
       PROVE TypeOK' /\ Received'
  <2> DEFINE row == [stream[s] EXCEPT !.step = "summarised",
                                      !.broke = @ \/ (failed /\ stream[s].lines > 0),
                                      !.human = NeedsHuman(stream[s], failed, wants)]
  <2>1. row \in StreamRow
    <3>1. /\ stream[s] \in StreamRow /\ stream[s].broke \in BOOLEAN /\ stream[s].degraded \in BOOLEAN
      BY <1>s DEF StreamRow
    <3>2. /\ NeedsHuman(stream[s], failed, wants) \in BOOLEAN
          /\ (stream[s].broke \/ (failed /\ stream[s].lines > 0)) \in BOOLEAN
      BY <3>1, Zenon DEF NeedsHuman
    <3> QED
      BY <3>1, <3>2, Summed
  <2>2. stream' = [stream EXCEPT ![s] = row]
    BY <1>18, <1>s DEF Summarise
  <2> HIDE DEF row
  <2> QED
    BY <1>18, <2>1, <2>2, <1>14 DEF Summarise, TypeOK
<1>19. ASSUME NEW s \in Streams, Record(s) PROVE TypeOK' /\ Received'
  <2> DEFINE row == [stream[s] EXCEPT !.step = "recorded"]
  <2>1. row \in StreamRow
    BY <1>s DEF StreamRow
  <2>2. stream' = [stream EXCEPT ![s] = row]
    BY <1>19, <1>s DEF Record
  <2>3. job' \in [status : {"waiting", "dialling", "calling", "completed", "failed"}, test : BOOLEAN]
    BY <1>19, <1>j DEF Record, Ends
  <2>4. summary' \in [Calls -> Streams \cup {None}] /\ handoff' \subseteq Streams
    BY <1>19 DEF Record, SummaryAfter, TypeOK
  <2>5. attempt' \in [Calls -> {"none", "in_progress", "completed"}] /\ outcomes' \in Nat
    <3>1. attempt \in [Calls -> {"none", "in_progress", "completed"}]
      BY DEF TypeOK
    <3>2. attempt' = [attempt EXCEPT ![stream[s].call] = "completed"] /\ outcomes' = outcomes + 1
      BY <1>19 DEF Record, Ends
    <3> QED
      BY <3>1, <3>2, <1>o
  <2> HIDE DEF row
  <2> QED
    BY <1>19, <2>1, <2>2, <2>3, <2>4, <2>5, <1>14 DEF Record, TypeOK
<1>20. CASE UNCHANGED vars
  BY <1>20 DEF vars, TypeOK, Received
<1> QED
  BY <1>1, <1>2, <1>3, <1>4, <1>5, <1>8, <1>9, <1>10, <1>11, <1>12, <1>13, <1>15, <1>16, <1>17,
     <1>18, <1>19, <1>20 DEF Next, Media

-----------------------------------------------------------------------------
(* Outcomes and dials *)

\* A call is seen from the commit of its dial on, and calls are seen one by one.
LEMMA SeenMoves ==
  ASSUME TypeOK, Received, [Next]_vars
  PROVE  \/ Seen' = Seen
         \/ outcomes' = outcomes /\ \E c \in Calls : c \notin Seen /\ Seen' = Seen \cup {c}
<1>c. call \in [Calls -> CallRow]
  BY DEF TypeOK
<1>1. ASSUME NEW c \in Calls, Dial(c) \/ LoseDial(c) PROVE Seen' = Seen
  BY <1>1, <1>c DEF Dial, LoseDial, Seen, CallRow, NextCall
<1>2. ASSUME NEW c \in Calls, CommitDial(c)
      PROVE c \notin Seen /\ Seen' = Seen \cup {c} /\ outcomes' = outcomes
  BY <1>2, <1>c DEF CommitDial, Seen, CallRow
<1>3. ASSUME NEW c \in Calls, NEW s \in Streams, NEW room \in BOOLEAN, StartTest(c, s, room)
      PROVE c \notin Seen /\ Seen' = Seen \cup {c} /\ outcomes' = outcomes
  BY <1>3, <1>c DEF StartTest, Seen, CallRow, NextCall
<1>4. ASSUME call' = call PROVE Seen' = Seen
  BY <1>4 DEF Seen
<1>5. ASSUME NEW h \in Handlers, HandleEvent(h) PROVE Seen' = Seen
  <2> DEFINE d == handler[h].event.call
             row == [call[d] EXCEPT !.status = StatusAfter(handler[h].event.kind, handler[h].saw, @),
                                    !.ended = @ \/ handler[h].event.kind = "hangup",
                                    !.id = IF handler[h].renames THEN "call" ELSE @]
  <2>1. d \in Calls
    <3>1. handler[h].step = "found"
      BY <1>5, Zenon DEF HandleEvent
    <3>2. handler[h] # IdleHandler
      BY <3>1 DEF IdleHandler
    <3>3. handler[h].event \in Event
      BY <3>2 DEF Received
    <3> QED
      BY <3>3 DEF Event
  <2>2. row.state = call[d].state
    BY <2>1, <1>c DEF CallRow
  <2>3. call' = call \/ call' = [call EXCEPT ![d] = row]
    BY <1>5, <1>c DEF HandleEvent
  <2> HIDE DEF row
  <2>4. \A c \in Calls : call'[c].state = call[c].state
    BY <2>1, <2>2, <2>3, <1>c
  <2> QED
    BY <2>4 DEF Seen
<1>6. ASSUME NEW s \in Streams, Media(s) PROVE call' = call
  BY <1>6 DEF Media, Speak, Persist, HangUp, Summarise, Record, NotRecorded, CrashStream
<1>7. ASSUME NEW h \in Handlers,
             \/ \E e \in Event : RecordEvent(h, e)
             \/ FindCall(h) \/ EventFails(h) \/ \E taken \in BOOLEAN : NormalizeCall(h, taken)
      PROVE call' = call
  BY <1>7 DEF RecordEvent, FindCall, EventFails, NormalizeCall
<1>8. ASSUME \/ Reconcile \/ UNCHANGED vars
             \/ \E c \in Calls, through \in BOOLEAN : HttpComplete(c, through)
             \/ \E k \in CrmKinds, taken \in BOOLEAN : CrmEvent(k, taken)
             \/ \E s \in Streams : \E u \in offered, room \in BOOLEAN : OpenStream(s, u, room)
      PROVE call' = call
  BY <1>8 DEF Reconcile, vars, HttpComplete, CrmEvent, OpenStream
<1> QED
  BY <1>1, <1>2, <1>3, <1>4, <1>5, <1>6, <1>7, <1>8 DEF Next

\* What a step does to the job and to the outcomes recorded for it.
LEMMA OutcomeMoves ==
  ASSUME TypeOK, [Next]_vars
  PROVE  \/ outcomes' = outcomes /\ (job'.status = "calling" => job.status = "calling" \/ Seen' # Seen)
         \/ outcomes' = outcomes + 1 /\ job.status = "calling" /\ job'.status # "calling" /\ Seen' = Seen
<1>j. job \in [status : {"waiting", "dialling", "calling", "completed", "failed"}, test : BOOLEAN]
  BY DEF TypeOK
<1>c. call \in [Calls -> CallRow]
  BY DEF TypeOK
<1>1. ASSUME NEW c \in Calls, Dial(c) \/ LoseDial(c)
      PROVE outcomes' = outcomes /\ job'.status # "calling"
  BY <1>1, <1>j DEF Dial, LoseDial
<1>2. ASSUME NEW c \in Calls, CommitDial(c) PROVE outcomes' = outcomes /\ Seen' # Seen
  BY <1>2, <1>c DEF CommitDial, Seen, CallRow
<1>3. ASSUME NEW c \in Calls, NEW s \in Streams, NEW room \in BOOLEAN, StartTest(c, s, room)
      PROVE outcomes' = outcomes /\ Seen' # Seen
  BY <1>3, <1>c DEF StartTest, Seen, CallRow, NextCall
<1>4. ASSUME NEW status \in {"completed", "failed", "waiting"}, Completable, Ends(status), call' = call
      PROVE /\ outcomes' = outcomes + 1 /\ job.status = "calling" /\ job'.status # "calling"
            /\ Seen' = Seen
  BY <1>4, <1>j DEF Completable, Ends, Seen
<1>5. AfterFailure \in {"failed", "waiting"}
  BY DEF AfterFailure
<1>6. ASSUME NEW c \in Calls, NEW through \in BOOLEAN, HttpComplete(c, through)
      PROVE \E status \in {"completed", "failed", "waiting"} :
              Completable /\ Ends(status) /\ call' = call
  BY <1>5, <1>6 DEF HttpComplete
<1>7. ASSUME Reconcile
      PROVE \E status \in {"completed", "failed", "waiting"} :
              Completable /\ Ends(status) /\ call' = call
  BY <1>5, <1>7 DEF Reconcile, Completable
<1>8. ASSUME NEW s \in Streams, Record(s)
      PROVE Completable /\ Ends("completed") /\ call' = call
  BY <1>8 DEF Record
<1>9. ASSUME NEW s \in Streams, Media(s), ~Record(s) PROVE UNCHANGED <<job, outcomes>>
  BY <1>9 DEF Media, Speak, Persist, HangUp, Summarise, NotRecorded, CrashStream
<1>10. ASSUME NEW h \in Handlers,
             \/ \E e \in Event : RecordEvent(h, e)
             \/ FindCall(h) \/ HandleEvent(h) \/ EventFails(h)
             \/ \E taken \in BOOLEAN : NormalizeCall(h, taken)
      PROVE UNCHANGED <<job, outcomes>>
  BY <1>10 DEF RecordEvent, FindCall, HandleEvent, EventFails, NormalizeCall
<1>11. ASSUME \/ UNCHANGED vars
              \/ \E k \in CrmKinds, taken \in BOOLEAN : CrmEvent(k, taken)
              \/ \E s \in Streams : \E u \in offered, room \in BOOLEAN : OpenStream(s, u, room)
      PROVE UNCHANGED <<job, outcomes>>
  BY <1>11 DEF vars, CrmEvent, OpenStream
<1> QED
  BY <1>1, <1>2, <1>3, <1>4, <1>6, <1>7, <1>8, <1>9, <1>10, <1>11 DEF Next

\* There is never an outcome too many, and one is due while the job is being called.
LEMMA OutcomeNext == TypeOK /\ Received /\ OutcomeDue /\ [Next]_vars => OutcomeDue'
<1> SUFFICES ASSUME TypeOK, Received, OutcomeDue, [Next]_vars PROVE OutcomeDue'
  OBVIOUS
<1>1. Cardinality(Seen) \in Nat /\ outcomes \in Nat
  BY SeenFinite DEF TypeOK
<1>2. CASE Seen' = Seen
  BY <1>1, <1>2, OutcomeMoves DEF OutcomeDue, OutcomesMatchDials
<1>3. CASE outcomes' = outcomes /\ \E c \in Calls : c \notin Seen /\ Seen' = Seen \cup {c}
  <2>1. Cardinality(Seen') = Cardinality(Seen) + 1
    BY <1>3, OneMoreSeen
  <2> QED
    BY <1>1, <1>3, <2>1 DEF OutcomeDue, OutcomesMatchDials
<1> QED
  BY <1>2, <1>3, SeenMoves

-----------------------------------------------------------------------------
(* Sockets and what they leave *)

\* Steps that touch no socket and nothing a socket leaves, and only end an attempt.
LEMMA OthersKeepSockets ==
  ASSUME TypeOK, SocketInv, Seen \subseteq Seen', UNCHANGED <<stream, summary, handoff>>,
         \A c \in Calls :
           \/ attempt'[c] = attempt[c]
           \/ c \in Seen' /\ (attempt'[c] = "completed" \/ c \notin Seen)
  PROVE  SocketInv'
<1>1. \A c \in Calls : c \notin Seen => summary[c] = None
  BY DEF SocketInv, NothingBeforeDial, OutcomeAllOrNothing
<1>2. \A c \in Calls : summary'[c] # None => attempt'[c] = "completed"
  BY <1>1 DEF SocketInv, OutcomeAllOrNothing
<1>3. NothingBeforeDial'
  BY DEF SocketInv, NothingBeforeDial
<1>4. SocketsHaveCalls' /\ FailureKept' /\ WritesAwaited' /\ DegradedHandsOver'
  BY DEF SocketInv, SocketsHaveCalls, FailureKept, WritesAwaited, DegradedHandsOver
<1> QED
  BY <1>2, <1>3, <1>4 DEF SocketInv, OutcomeAllOrNothing

\* Steps of one socket that is not through and does not record: it keeps what it owes.
LEMMA OneSocketMoves ==
  ASSUME TypeOK, SocketInv, Seen \subseteq Seen', UNCHANGED <<summary, handoff>>,
         NEW s \in Streams, \A t \in Streams \ {s} : stream'[t] = stream[t],
         stream[s].step # "recorded", stream'[s].step # "recorded",
         stream'[s].step \in Live => stream'[s].call \in Seen',
         stream'[s].step \in {"idle", "talking", "closing"} => (stream'[s].broke => stream'[s].degraded),
         stream'[s].step = "summarised" => (stream'[s].broke => stream'[s].human) /\ stream'[s].writing = {},
         \A c \in Calls : attempt'[c] = attempt[c] \/ (c \in Seen' /\ c \notin Seen)
  PROVE  SocketInv'
<1>s. stream \in [Streams -> StreamRow] /\ summary \in [Calls -> Streams \cup {None}] /\ handoff \subseteq Streams
  BY DEF TypeOK
<1>1. SocketsHaveCalls' /\ FailureKept' /\ WritesAwaited' /\ DegradedHandsOver'
  BY DEF SocketInv, SocketsHaveCalls, FailureKept, WritesAwaited, DegradedHandsOver
<1>2. NothingBeforeDial'
  BY DEF SocketInv, NothingBeforeDial
<1>3. \A c \in Calls : summary[c] # None =>
        summary[c] # s /\ attempt'[c] = "completed" /\ stream'[summary[c]].step = "recorded"
  BY <1>s DEF SocketInv, NothingBeforeDial, OutcomeAllOrNothing
<1>4. \A t \in handoff : stream'[t].step = "recorded" /\ stream'[t].human
  BY <1>s DEF SocketInv, OutcomeAllOrNothing
<1> QED
  BY <1>1, <1>2, <1>3, <1>4 DEF SocketInv, OutcomeAllOrNothing

\* The gateway takes the outcome: the summary, the handoff and the end of the
\* attempt come with it.
LEMMA RecordKeeps ==
  ASSUME TypeOK, SocketInv, Seen' = Seen, NEW s \in Streams, Record(s)
  PROVE  SocketInv'
<1> USE PhoneAssumption
<1>s. /\ stream \in [Streams -> StreamRow] /\ summary \in [Calls -> Streams \cup {None}]
      /\ handoff \subseteq Streams /\ attempt \in [Calls -> {"none", "in_progress", "completed"}]
  BY DEF TypeOK
<1> DEFINE d == stream[s].call
<1>1. d \in Seen /\ d \in Calls
  BY DEF Record, SocketInv, SocketsHaveCalls, Live, Seen
<1>2. /\ stream'[s].step = "recorded" /\ stream'[s].human = stream[s].human
      /\ stream'[s].broke = stream[s].broke /\ stream'[s].call = d
      /\ stream'[s].writing = stream[s].writing
      /\ \A t \in Streams \ {s} : stream'[t] = stream[t]
  BY <1>s DEF Record, StreamRow
<1>3. summary'[d] = s /\ attempt'[d] = "completed"
  BY <1>s, <1>1 DEF Record, SummaryAfter
<1>4. \A c \in Calls \ {d} : summary'[c] = summary[c] /\ attempt'[c] = attempt[c]
  BY <1>s, <1>1 DEF Record, SummaryAfter
<1>5. handoff' = IF stream[s].human THEN handoff \cup {s} ELSE handoff
  BY DEF Record
<1>6. SocketsHaveCalls'
  BY <1>1, <1>2 DEF SocketInv, SocketsHaveCalls
<1>7. NothingBeforeDial'
  BY <1>1, <1>4 DEF SocketInv, NothingBeforeDial
<1>8. FailureKept' /\ WritesAwaited'
  BY <1>2 DEF SocketInv, FailureKept, WritesAwaited, Record
<1>9. DegradedHandsOver'
  BY <1>2, <1>5 DEF SocketInv, FailureKept, DegradedHandsOver, Record
<1>10. \A c \in Calls : summary'[c] # None =>
         attempt'[c] = "completed" /\ stream'[summary'[c]].step = "recorded"
  BY <1>s, <1>1, <1>2, <1>3, <1>4 DEF SocketInv, OutcomeAllOrNothing
<1>11. \A t \in handoff' : stream'[t].step = "recorded" /\ stream'[t].human
  BY <1>s, <1>2, <1>5 DEF SocketInv, OutcomeAllOrNothing
<1> QED
  BY <1>6, <1>7, <1>8, <1>9, <1>10, <1>11 DEF SocketInv, OutcomeAllOrNothing

\* Every step keeps what a socket owes and leaves.
LEMMA SocketNext == TypeOK /\ Received /\ SocketInv /\ [Next]_vars => SocketInv'
<1> SUFFICES ASSUME TypeOK, Received, SocketInv, [Next]_vars PROVE SocketInv'
  OBVIOUS
<1> USE PhoneAssumption
<1>s. stream \in [Streams -> StreamRow] /\ call \in [Calls -> CallRow]
      /\ attempt \in [Calls -> {"none", "in_progress", "completed"}]
  BY DEF TypeOK
<1>g. Seen \subseteq Seen'
  BY SeenMoves
<1>1. ASSUME NEW c \in Calls, CommitDial(c) PROVE SocketInv'
  <2>1. c \notin Seen /\ c \in Seen'
    BY <1>1, <1>s DEF CommitDial, Seen, CallRow
  <2>2. \A d \in Calls : d # c => attempt'[d] = attempt[d]
    BY <1>1, <1>s DEF CommitDial
  <2>3. UNCHANGED <<stream, summary, handoff>>
    BY <1>1 DEF CommitDial
  <2> QED
    BY <2>1, <2>2, <2>3, <1>g, OthersKeepSockets
<1>2. ASSUME NEW c \in Calls, NEW through \in BOOLEAN, HttpComplete(c, through) PROVE SocketInv'
  <2>0. attempt' = [attempt EXCEPT ![c] = "completed"] /\ c \in Seen
    BY <1>2 DEF HttpComplete
  <2>1. \A d \in Calls : attempt'[d] = attempt[d] \/ (d \in Seen /\ attempt'[d] = "completed")
    BY <2>0, <1>s
  <2>2. UNCHANGED <<stream, summary, handoff>>
    BY <1>2 DEF HttpComplete
  <2> QED
    BY <2>1, <2>2, <1>g, OthersKeepSockets
<1>3. ASSUME UNCHANGED <<stream, summary, handoff, attempt>> PROVE SocketInv'
  BY <1>3, <1>g, OthersKeepSockets
<1>4. ASSUME NEW c \in Calls, NEW s \in Streams, NEW room \in BOOLEAN, StartTest(c, s, room)
      PROVE SocketInv'
  <2>1. c \notin Seen /\ c \in Seen' /\ \A d \in Calls : d # c => attempt'[d] = attempt[d]
    BY <1>4, <1>s DEF StartTest, Seen, CallRow, NextCall
  <2>2. CASE room
    <3> DEFINE row == [stream[s] EXCEPT !.step = "talking", !.call = c]
    <3>1. stream' = [stream EXCEPT ![s] = row]
      BY <1>4, <1>s, <2>2 DEF StartTest
    <3>2. row.step = "talking" /\ row.call = c /\ row.broke = FALSE
      BY <1>4, <1>s DEF StartTest, StreamRow, IdleStream
    <3>3. stream[s].step = "idle" /\ UNCHANGED <<summary, handoff>>
      BY <1>4 DEF StartTest, IdleStream
    <3>4. stream'[s] = row /\ \A t \in Streams \ {s} : stream'[t] = stream[t]
      BY <3>1, <1>s
    <3> HIDE DEF row
    <3>5. stream[s].step # "recorded" /\ stream'[s].step # "recorded"
      BY <3>2, <3>3, <3>4
    <3>6. stream'[s].step \in Live => stream'[s].call \in Seen'
      BY <2>1, <3>2, <3>4
    <3>7. stream'[s].step \in {"idle", "talking", "closing"} => (stream'[s].broke => stream'[s].degraded)
      BY <3>2, <3>4
    <3>8. stream'[s].step = "summarised" => (stream'[s].broke => stream'[s].human) /\ stream'[s].writing = {}
      BY <3>2, <3>4
    <3>9. \A d \in Calls : attempt'[d] = attempt[d] \/ (d \in Seen' /\ d \notin Seen)
      BY <2>1
    <3> QED
      BY <3>3, <3>4, <3>5, <3>6, <3>7, <3>8, <3>9, <1>g, OneSocketMoves
  <2>3. CASE ~room
    <3>1. stream' = stream
      BY <1>4, <1>s, <2>3 DEF StartTest, StreamRow
    <3>2. UNCHANGED <<summary, handoff>>
      BY <1>4 DEF StartTest
    <3> QED
      BY <2>1, <3>1, <3>2, <1>g, OthersKeepSockets
  <2> QED
    BY <2>2, <2>3
<1>5. ASSUME NEW s \in Streams, NEW u \in offered, NEW room \in BOOLEAN, OpenStream(s, u, room)
      PROVE SocketInv'
  <2>1. PICK v \in {"talking", "refused", "unknown"} :
          /\ stream' = [stream EXCEPT ![s] = [stream[s] EXCEPT !.call = u.call, !.step = v]]
          /\ v = "talking" => u.call \in Seen
    BY <1>5, <1>s DEF OpenStream, Resolves, Current
  <2> DEFINE row == [stream[s] EXCEPT !.call = u.call, !.step = v]
  <2>2. row.step = v /\ row.call = u.call /\ row.broke = FALSE
    BY <1>5, <1>s DEF OpenStream, StreamRow, IdleStream
  <2>3. stream[s].step = "idle"
    BY <1>5 DEF OpenStream, IdleStream
  <2>4. UNCHANGED <<summary, handoff, attempt>>
    BY <1>5 DEF OpenStream
  <2>r. stream'[s] = row /\ \A t \in Streams \ {s} : stream'[t] = stream[t]
    BY <2>1, <1>s
  <2> HIDE DEF row
  <2> QED
    BY <2>r, <2>1, <2>2, <2>3, <2>4, <1>g, OneSocketMoves DEF Live
<1>6. ASSUME NEW s \in Streams, \A t \in Streams \ {s} : stream'[t] = stream[t],
             stream[s].step \in {"talking", "closing", "summarised"},
             stream'[s].step \in {"talking", "closing", "summarised", "unrecorded", "dead"},
             stream'[s].call = stream[s].call,
             stream'[s].step \in {"talking", "closing"} => (stream'[s].broke => stream'[s].degraded),
             stream'[s].step = "summarised" => (stream'[s].broke => stream'[s].human) /\ stream'[s].writing = {},
             UNCHANGED <<summary, handoff, attempt>>
      PROVE SocketInv'
  <2>1. stream'[s].call \in Seen'
    BY <1>6, <1>g DEF SocketInv, SocketsHaveCalls, Live
  <2> QED
    BY <1>6, <2>1, <1>g, OneSocketMoves
<1>7. ASSUME NEW s \in Streams, NEW failed \in BOOLEAN, Speak(s, failed) PROVE SocketInv'
  <2> DEFINE q == stream[s].lines + 1
             row == [stream[s] EXCEPT !.lines = q, !.writing = @ \cup {q},
                                      !.degraded = Sticky(@, failed), !.broke = @ \/ failed]
  <2>1. stream' = [stream EXCEPT ![s] = row] /\ stream[s].step = "talking"
        /\ UNCHANGED <<summary, handoff, attempt>>
    BY <1>7, <1>s DEF Speak
  <2>2. stream[s].broke => stream[s].degraded
    BY <2>1 DEF SocketInv, FailureKept
  <2>3. row.step = "talking" /\ row.call = stream[s].call
        /\ row.broke = (stream[s].broke \/ failed) /\ row.degraded = Sticky(stream[s].degraded, failed)
    BY <2>1, <1>s DEF StreamRow
  <2>4. row.broke => row.degraded
    BY <2>2, <2>3 DEF Sticky
  <2>r. stream'[s] = row /\ \A t \in Streams \ {s} : stream'[t] = stream[t]
    BY <2>1, <1>s
  <2> HIDE DEF row
  <2> QED
    BY <2>r, <1>6, <2>1, <2>3, <2>4
<1>8. ASSUME NEW s \in Streams, NEW q \in 1..MaxLines, NEW fails \in BOOLEAN, Persist(s, q, fails)
      PROVE SocketInv'
  <2> DEFINE row == [stream[s] EXCEPT !.writing = @ \ {q}]
  <2>1. stream' = [stream EXCEPT ![s] = row] /\ q \in stream[s].writing
        /\ UNCHANGED <<summary, handoff, attempt>>
    BY <1>8, <1>s DEF Persist
  <2>2. /\ row.step = stream[s].step /\ row.call = stream[s].call
        /\ row.broke = stream[s].broke /\ row.degraded = stream[s].degraded
    BY <1>s DEF StreamRow
  <2>3. stream[s].step \notin {"summarised", "recorded"}
    BY <2>1 DEF SocketInv, WritesAwaited
  <2>4. row.step \in Live => row.call \in Seen'
    BY <2>2, <1>g DEF SocketInv, SocketsHaveCalls
  <2>5. row.step \in {"idle", "talking", "closing"} => (row.broke => row.degraded)
    BY <2>2 DEF SocketInv, FailureKept
  <2>r. stream'[s] = row /\ \A t \in Streams \ {s} : stream'[t] = stream[t]
    BY <2>1, <1>s
  <2> HIDE DEF row
  <2> QED
    BY <2>r, <2>1, <2>2, <2>3, <2>4, <2>5, <1>g, OneSocketMoves
<1>9. ASSUME NEW s \in Streams, HangUp(s) PROVE SocketInv'
  <2> DEFINE row == [stream[s] EXCEPT !.step = "closing"]
  <2>1. stream' = [stream EXCEPT ![s] = row] /\ stream[s].step = "talking"
        /\ UNCHANGED <<summary, handoff, attempt>>
    BY <1>9, <1>s DEF HangUp
  <2>2. /\ row.step = "closing" /\ row.call = stream[s].call
        /\ row.broke = stream[s].broke /\ row.degraded = stream[s].degraded
    BY <1>s DEF StreamRow
  <2>3. stream[s].broke => stream[s].degraded
    BY <2>1 DEF SocketInv, FailureKept
  <2>r. stream'[s] = row /\ \A t \in Streams \ {s} : stream'[t] = stream[t]
    BY <2>1, <1>s
  <2> HIDE DEF row
  <2> QED
    BY <2>r, <1>6, <2>1, <2>2, <2>3
<1>10. ASSUME NEW s \in Streams, NEW failed \in BOOLEAN, NEW wants \in BOOLEAN,
              Summarise(s, failed, wants)
       PROVE SocketInv'
  <2> DEFINE row == [stream[s] EXCEPT !.step = "summarised",
                                      !.broke = @ \/ (failed /\ stream[s].lines > 0),
                                      !.human = NeedsHuman(stream[s], failed, wants)]
  <2>1. stream' = [stream EXCEPT ![s] = row] /\ stream[s].step = "closing" /\ stream[s].writing = {}
        /\ UNCHANGED <<summary, handoff, attempt>>
    BY <1>10, <1>s DEF Summarise, Flushed
  <2>2. /\ row.step = "summarised" /\ row.call = stream[s].call /\ row.writing = stream[s].writing
        /\ row.broke = (stream[s].broke \/ (failed /\ stream[s].lines > 0))
        /\ row.human = NeedsHuman(stream[s], failed, wants)
    BY <1>s DEF StreamRow
  <2>3. stream[s].broke => stream[s].degraded
    BY <2>1 DEF SocketInv, FailureKept
  <2>4. stream[s].lines \in Nat
    BY <1>s DEF StreamRow
  <2>5. row.broke => row.human
    <3>1. (stream[s].broke \/ (failed /\ stream[s].lines > 0)) =>
            IF stream[s].lines = 0 THEN stream[s].degraded
            ELSE failed \/ wants \/ stream[s].degraded
      BY <2>3, <2>4
    <3> QED
      BY <2>2, <3>1, Zenon DEF NeedsHuman
  <2>r. stream'[s] = row /\ \A t \in Streams \ {s} : stream'[t] = stream[t]
    BY <2>1, <1>s
  <2> HIDE DEF row
  <2> QED
    BY <2>r, <1>6, <2>1, <2>2, <2>5
<1>11. ASSUME NEW s \in Streams, Record(s) PROVE SocketInv'
  <2>1. Seen' = Seen
    BY <1>11 DEF Record, Seen
  <2> QED
    BY <1>11, <2>1, RecordKeeps
<1>12. ASSUME NEW s \in Streams, NotRecorded(s) PROVE SocketInv'
  <2> DEFINE row == [stream[s] EXCEPT !.step = "unrecorded"]
  <2>1. stream' = [stream EXCEPT ![s] = row] /\ stream[s].step = "summarised"
        /\ UNCHANGED <<summary, handoff, attempt>>
    BY <1>12, <1>s DEF NotRecorded
  <2>2. row.step = "unrecorded" /\ row.call = stream[s].call
    BY <1>s DEF StreamRow
  <2>r. stream'[s] = row /\ \A t \in Streams \ {s} : stream'[t] = stream[t]
    BY <2>1, <1>s
  <2> HIDE DEF row
  <2> QED
    BY <2>r, <1>6, <2>1, <2>2
<1>13. ASSUME NEW s \in Streams, CrashStream(s) PROVE SocketInv'
  <2> DEFINE row == [stream[s] EXCEPT !.step = "dead", !.writing = {}]
  <2>1. stream' = [stream EXCEPT ![s] = row] /\ stream[s].step \in {"talking", "closing", "summarised"}
        /\ UNCHANGED <<summary, handoff, attempt>>
    BY <1>13, <1>s DEF CrashStream
  <2>2. row.step = "dead" /\ row.call = stream[s].call
    BY <1>s DEF StreamRow
  <2>r. stream'[s] = row /\ \A t \in Streams \ {s} : stream'[t] = stream[t]
    BY <2>1, <1>s
  <2> HIDE DEF row
  <2> QED
    BY <2>r, <1>6, <2>1, <2>2
<1>14. ASSUME NEW h \in Handlers,
             \/ \E e \in Event : RecordEvent(h, e)
             \/ FindCall(h) \/ HandleEvent(h) \/ EventFails(h)
             \/ \E taken \in BOOLEAN : NormalizeCall(h, taken)
      PROVE SocketInv'
  BY <1>14, <1>3 DEF RecordEvent, FindCall, HandleEvent, EventFails, NormalizeCall
<1>15. ASSUME \/ UNCHANGED vars \/ Reconcile
              \/ \E c \in Calls : Dial(c) \/ LoseDial(c)
              \/ \E k \in CrmKinds, taken \in BOOLEAN : CrmEvent(k, taken)
      PROVE SocketInv'
  BY <1>15, <1>3 DEF vars, Reconcile, Dial, LoseDial, CrmEvent
<1> QED
  BY <1>1, <1>2, <1>4, <1>5, <1>7, <1>8, <1>9, <1>10, <1>11, <1>12, <1>13, <1>14, <1>15
     DEF Next, Media

-----------------------------------------------------------------------------
(* Theorems *)

\* Everything holds while nothing has been dialled.
LEMMA PhoneInit == Init => PhoneInv
<1> SUFFICES ASSUME Init PROVE PhoneInv
  OBVIOUS
<1>1. TypeOK /\ Received
  BY TypeInit
<1>2. SocketInv
  BY DEF Init, SocketInv, SocketsHaveCalls, NothingBeforeDial, FailureKept, WritesAwaited,
         OutcomeAllOrNothing, DegradedHandsOver, IdleStream, Live
<1>3. Cardinality(Seen) \in Nat
  BY <1>1, SeenFinite
<1>4. outcomes = 0 /\ job.status = "waiting"
  BY DEF Init
<1> QED
  BY <1>1, <1>2, <1>3, <1>4 DEF PhoneInv, OutcomeDue, OutcomesMatchDials

\* The inductive invariant holds of every behaviour.
THEOREM PhoneInvariant == Spec => []PhoneInv
<1>1. PhoneInv /\ [Next]_vars => PhoneInv'
  BY TypeNext, SocketNext, OutcomeNext DEF PhoneInv
<1> QED
  BY PhoneInit, <1>1, PTL DEF Spec

\* Tables, requests and sockets keep their types.
THEOREM PhoneTyped == Spec => []TypeOK
<1>1. PhoneInv => TypeOK
  BY DEF PhoneInv
<1> QED
  BY <1>1, PhoneInvariant, PTL

\* record_outcome: no summary and no handoff of a conversation without the completion
\* of its attempt, whatever sockets, completions, crashes and reconciliations race.
THEOREM OutcomeWhole == Spec => []OutcomeAllOrNothing
<1>1. PhoneInv => OutcomeAllOrNothing
  BY DEF PhoneInv, SocketInv
<1> QED
  BY <1>1, PhoneInvariant, PTL

\* One outcome at most for each dial whose row is committed.
THEOREM OneOutcomeADial == Spec => []OutcomesMatchDials
<1>1. PhoneInv => OutcomesMatchDials
  BY DEF PhoneInv, OutcomeDue
<1> QED
  BY <1>1, PhoneInvariant, PTL

\* _finish waits for the transcript's writes before it summarises.
THEOREM TranscriptIsSettled == Spec => []TranscriptSettled
<1>1. PhoneInv => TranscriptSettled
  <2> SUFFICES ASSUME PhoneInv, NEW c \in Calls, summary[c] # None
               PROVE  stream[summary[c]].writing = {}
    BY DEF TranscriptSettled
  <2>1. summary[c] \in Streams
    BY DEF PhoneInv, TypeOK
  <2> QED
    BY <2>1 DEF PhoneInv, SocketInv, OutcomeAllOrNothing, WritesAwaited
<1> QED
  BY <1>1, PhoneInvariant, PTL

\* A call in which the model failed and whose outcome is recorded goes to a person.
THEOREM DegradedIsHandedOver == Spec => []DegradedHandsOver
<1>1. PhoneInv => DegradedHandsOver
  BY DEF PhoneInv, SocketInv
<1> QED
  BY <1>1, PhoneInvariant, PTL

-----------------------------------------------------------------------------
(* Events *)

\* Requests that are open at the same time handle different events, none of which has
\* been handled.
Open(h) == handler[h].event # NoEvent
EventsApart ==
  /\ \A h, k \in Handlers : Open(h) /\ Open(k) /\ Id(handler[h].event) = Id(handler[k].event) => h = k
  /\ \A h \in Handlers : Open(h) => handler[h].event \in Event /\ log[Id(handler[h].event)] = 0
  /\ \A h \in Handlers : handler[h].step # "idle" => Open(h)
EventInv == EventsApart /\ EventOnce

\* The id of an event is one, of the same call and kind.
LEMMA IdOfEvent ==
  ASSUME NEW e \in Event
  PROVE  Id(e) \in Ids /\ Id(e).call = e.call /\ Id(e).kind = e.kind /\ e # NoEvent
<1>1. e.call \in Calls /\ NoEvent.call = None
  BY DEF Event, NoEvent
<1>2. None \notin Calls
  BY PhoneAssumption
<1>3. e # NoEvent
  BY <1>1, <1>2
<1> QED
  BY <1>3 DEF Id, Ids, Event

\* A step that leaves the events alone.
LEMMA EventsKept ==
  ASSUME EventInv, UNCHANGED <<handler, log, cdr>>, \A c \in Calls : call'[c].ended => call[c].ended
  PROVE  EventInv'
BY DEF EventInv, EventsApart, EventOnce, Open

\* A request that takes up an event no other has, or is done with its own, keeps them apart.
LEMMA EventsMove ==
  ASSUME TypeOK, EventInv, NEW h \in Handlers, NEW x \in HandlerRow,
         handler' = [handler EXCEPT ![h] = x], UNCHANGED <<log, cdr, call>>,
         \/ x = IdleHandler
         \/ x.event = handler[h].event /\ Open(h)
         \/ /\ x.event \in Event /\ log[Id(x.event)] = 0
            /\ \A k \in Handlers : Open(k) => Id(handler[k].event) # Id(x.event)
  PROVE  EventInv'
<1>1. EventOnce'
  BY DEF EventInv, EventOnce
<1>2. handler'[h] = x /\ \A k \in Handlers \ {h} : handler'[k] = handler[k]
  BY DEF TypeOK
<1>3. x = IdleHandler => x.event = NoEvent /\ x.step = "idle"
  BY DEF IdleHandler
<1>4. x.event \in Event => x.event # NoEvent
  BY IdOfEvent
<1>5. \A k \in Handlers \ {h} : Open(k)' <=> Open(k)
  BY <1>2 DEF Open
<1>6. Open(h)' <=> x.event # NoEvent
  BY <1>2 DEF Open
<1>7. ASSUME NEW j \in Handlers, NEW k \in Handlers, Open(j)', Open(k)',
             Id(handler'[j].event) = Id(handler'[k].event)
      PROVE  j = k
  <2>1. CASE j # h /\ k # h
    BY <2>1, <1>2, <1>5, <1>7 DEF EventInv, EventsApart
  <2>2. ASSUME NEW i \in Handlers \ {h}, Open(i), x.event # NoEvent
        PROVE  Id(handler[i].event) # Id(x.event)
    BY <2>2, <1>3, <1>4 DEF EventInv, EventsApart
  <2>3. CASE j = h /\ k # h
    BY <2>2, <2>3, <1>2, <1>5, <1>6, <1>7
  <2>4. CASE j # h /\ k = h
    BY <2>2, <2>4, <1>2, <1>5, <1>6, <1>7
  <2> QED
    BY <2>1, <2>3, <2>4
<1>8. ASSUME NEW k \in Handlers
      PROVE  /\ Open(k)' => handler'[k].event \in Event /\ log[Id(handler'[k].event)] = 0
             /\ handler'[k].step # "idle" => Open(k)'
  <2>1. CASE k # h
    BY <2>1, <1>2, <1>5 DEF EventInv, EventsApart
  <2>2. CASE k = h
    BY <2>2, <1>2, <1>3, <1>4, <1>6 DEF EventInv, EventsApart, Open
  <2> QED
    BY <2>1, <2>2
<1>9. EventsApart'
  BY <1>7, <1>8, Zenon DEF EventsApart
<1> QED
  BY <1>1, <1>9 DEF EventInv

\* The event is handled: one more under its id, by the only request that has it.
LEMMA EventHandled ==
  ASSUME TypeOK, EventInv, NEW h \in Handlers, HandleEvent(h)
  PROVE  EventInv'
<1> DEFINE e == handler[h].event
<1>1. /\ handler[h].step = "found" /\ handler' = [handler EXCEPT ![h] = IdleHandler]
      /\ log' = [log EXCEPT ![Id(e)] = @ + 1] /\ cdr' = cdr
  BY Zenon DEF HandleEvent, Respond
<1>2. Open(h) /\ e \in Event /\ log[Id(e)] = 0
  BY <1>1 DEF EventInv, EventsApart
<1>3. Id(e) \in Ids /\ Id(e).call = e.call /\ Id(e).kind = e.kind /\ e.call \in Calls
  BY <1>2, IdOfEvent DEF Event
<1>4. log \in [Ids -> Nat] /\ call \in [Calls -> CallRow]
  BY DEF TypeOK
<1>5. log'[Id(e)] = 1 /\ \A i \in Ids \ {Id(e)} : log'[i] = log[i]
  BY <1>1, <1>2, <1>3, <1>4
<1>6. handler'[h] = IdleHandler /\ \A k \in Handlers \ {h} : handler'[k] = handler[k]
  BY <1>1 DEF TypeOK
<1>7. ~Open(h)' /\ handler'[h].step = "idle"
  BY <1>6 DEF Open, IdleHandler
<1>8. \A k \in Handlers \ {h} : Open(k)' <=> Open(k)
  BY <1>6 DEF Open
<1>9. ASSUME NEW k \in Handlers \ {h}, Open(k)
      PROVE  handler[k].event \in Event /\ log'[Id(handler[k].event)] = 0
  <2>1. Id(handler[k].event) # Id(e)
    BY <1>2, <1>9 DEF EventInv, EventsApart
  <2>2. handler[k].event \in Event /\ log[Id(handler[k].event)] = 0
    BY <1>9 DEF EventInv, EventsApart
  <2>3. Id(handler[k].event) \in Ids
    BY <2>2, IdOfEvent
  <2> QED
    BY <2>1, <2>2, <2>3, <1>5
<1>10. EventsApart'
  <2>1. \A j, k \in Handlers : Open(j)' /\ Open(k)' /\ Id(handler'[j].event) = Id(handler'[k].event)
                                 => j = k
    BY <1>6, <1>7, <1>8 DEF EventInv, EventsApart
  <2>2. \A k \in Handlers : Open(k)' => handler'[k].event \in Event /\ log'[Id(handler'[k].event)] = 0
    BY <1>6, <1>7, <1>8, <1>9
  <2>3. \A k \in Handlers : handler'[k].step # "idle" => Open(k)'
    BY <1>6, <1>7, <1>8 DEF EventInv, EventsApart
  <2> QED
    BY <2>1, <2>2, <2>3 DEF EventsApart
<1>11. ASSUME NEW c \in Calls, call'[c].ended
       PROVE  call[c].ended \/ (c = e.call /\ e.kind = "hangup")
  <2> DEFINE Row(d, s, b, i) == [call EXCEPT ![d].status = s, ![d].ended = b, ![d].id = i]
  <2>1. PICK d \in Calls : d = e.call
    BY <1>3
  <2>2. PICK s : s = StatusAfter(e.kind, handler[h].saw, call[d].status)
    OBVIOUS
  <2>3. PICK b \in BOOLEAN : b = (call[d].ended \/ e.kind = "hangup")
    OBVIOUS
  <2>4. PICK i : i = IF handler[h].renames THEN "call" ELSE call[d].id
    OBVIOUS
  <2>5. call' = call \/ call' = Row(d, s, b, i)
    BY <2>1, <2>2, <2>3, <2>4, Zenon DEF HandleEvent
  <2>6. Row(d, s, b, i)[d].ended = b /\ \A k \in Calls \ {d} : Row(d, s, b, i)[k] = call[k]
    BY <1>4, Zenon DEF CallRow
  <2> HIDE DEF Row
  <2>7. CASE call' = call
    BY <2>7, <1>11
  <2>8. CASE call' = Row(d, s, b, i) /\ c # d
    BY <2>6, <2>8, <1>11, Zenon
  <2>9. CASE call' = Row(d, s, b, i) /\ c = d
    <3>1. b
      BY <2>6, <2>9, <1>11, Zenon
    <3> QED
      BY <3>1, <2>1, <2>3, <2>9, Zenon
  <2> QED
    BY <2>5, <2>7, <2>8, <2>9, Zenon
<1>12. EventOnce'
  <2>1. \A i \in Ids : log[i] <= 1 => log'[i] <= 1
    BY <1>5
  <2>2. \A i \in Ids : log[i] = 1 => log'[i] = 1
    BY <1>5
  <2>3. ASSUME NEW c \in Calls, call'[c].ended
        PROVE  \E i \in Ids : i.call = c /\ i.kind = "hangup" /\ log'[i] = 1
    <3>1. CASE call[c].ended
      BY <3>1, <2>2 DEF EventInv, EventOnce
    <3>2. CASE c = e.call /\ e.kind = "hangup"
      BY <3>2, <1>3, <1>5
    <3> QED
      BY <3>1, <3>2, <2>3, <1>11
  <2> QED
    BY <2>1, <2>3, <1>1 DEF EventInv, EventOnce
<1> QED
  BY <1>10, <1>12 DEF EventInv

\* A CRM event is marked as processed with its effect.
LEMMA CrmKept ==
  ASSUME TypeOK, EventInv, NEW n \in CrmKinds, NEW taken \in BOOLEAN, CrmEvent(n, taken)
  PROVE  EventInv'
<1>1. EventsApart' /\ UNCHANGED <<log, call>>
  BY DEF CrmEvent, EventInv, EventsApart, Open
<1> DEFINE effect == [cdr EXCEPT !.logged[n] = "processed", !.done = @ \cup {n},
                        !.status = CASE n = "MISSED_CALL" -> "no_answer"
                                     [] n = "ALL_CALLS"   -> "completed"
                                     [] OTHER             -> @]
           noted == [cdr EXCEPT !.logged[n] = "failed"]
           bare == [cdr EXCEPT !.logged[n] = "processed"]
           Once(x) == x.known => \A k \in CrmKinds : x.logged[k] = "processed" <=> k \in x.done
<1>2. /\ ~cdr.known => cdr' = bare
      /\ cdr.known => cdr' \in {effect, noted}
  BY DEF CrmEvent
<1>3. cdr \in [known : BOOLEAN, status : {"open", "completed", "no_answer"},
               done : SUBSET CrmKinds, logged : [CrmKinds -> {"absent", "processed", "failed"}]]
  BY DEF TypeOK
<1>4. /\ effect.logged = [cdr.logged EXCEPT ![n] = "processed"] /\ effect.done = cdr.done \cup {n}
      /\ noted.logged = [cdr.logged EXCEPT ![n] = "failed"] /\ noted.done = cdr.done
  BY <1>3
<1>5. (noted.known <=> cdr.known) /\ (bare.known <=> cdr.known)
  BY <1>3, Zenon
<1>6. cdr.logged[n] = "absent"
  BY DEF CrmEvent
<1>7. Once(cdr)
  BY DEF EventInv, EventOnce
<1> HIDE DEF effect, noted, bare
<1>8. Once(cdr')
  <2>1. CASE ~cdr.known
    BY <1>2, <1>5, <2>1
  <2>2. CASE cdr.known
    <3>1. Once(effect)
      BY <1>3, <1>4, <1>7, <2>2
    <3>2. Once(noted)
      BY <1>3, <1>4, <1>6, <1>7, <2>2
    <3>3. cdr' = effect \/ cdr' = noted
      BY <1>2, <2>2
    <3> QED
      BY <3>1, <3>2, <3>3
  <2> QED
    BY <2>1, <2>2
<1> QED
  BY <1>1, <1>8 DEF EventInv, EventOnce

\* An event is handled once under its id, however often and at the same time it is
\* delivered.
LEMMA EventNext == TypeOK /\ EventInv /\ [Next]_vars => EventInv'
<1> SUFFICES ASSUME TypeOK, EventInv, [Next]_vars PROVE EventInv'
  OBVIOUS
<1>c. call \in [Calls -> CallRow] /\ handler \in [Handlers -> HandlerRow]
  BY DEF TypeOK
<1>1. ASSUME NEW c \in Calls, Dial(c) \/ CommitDial(c) \/ LoseDial(c) PROVE EventInv'
  <2>1. UNCHANGED <<handler, log, cdr>>
    BY <1>1 DEF Dial, CommitDial, LoseDial
  <2>2. \E s \in {"dialling", "seen", "orphan"} : call' = [call EXCEPT ![c].state = s]
    BY <1>1 DEF Dial, CommitDial, LoseDial
  <2>3. \A d \in Calls : call'[d].ended => call[d].ended
    BY <2>2, <1>c DEF CallRow
  <2> QED
    BY <2>1, <2>3, EventsKept
<1>2. ASSUME NEW c \in Calls, NEW s \in Streams, NEW room \in BOOLEAN, StartTest(c, s, room)
      PROVE  EventInv'
  <2>1. UNCHANGED <<handler, log, cdr>>
    BY <1>2 DEF StartTest
  <2>2. call' = [call EXCEPT ![c] = [state |-> "seen", status |-> "in_progress", id |-> "test",
                                     ended |-> FALSE]]
    BY <1>2 DEF StartTest
  <2>3. \A d \in Calls : call'[d].ended => call[d].ended
    BY <2>2, <1>c
  <2> QED
    BY <2>1, <2>3, EventsKept
<1>3. ASSUME UNCHANGED <<handler, log, cdr, call>> PROVE EventInv'
  BY <1>3, EventsKept
<1>4. ASSUME \/ Reconcile \/ UNCHANGED vars
             \/ \E c \in Calls, through \in BOOLEAN : HttpComplete(c, through)
             \/ \E s \in Streams : \E u \in offered, room \in BOOLEAN : OpenStream(s, u, room)
      PROVE  EventInv'
  BY <1>3, <1>4 DEF Reconcile, vars, HttpComplete, OpenStream
<1>5. ASSUME NEW s \in Streams, Media(s) PROVE EventInv'
  <2>1. UNCHANGED <<handler, log, cdr, call>>
    BY <1>5, Zenon DEF Media, Speak, Persist, HangUp, Summarise, Record, NotRecorded, CrashStream
  <2> QED
    BY <2>1, <1>3
<1>6. ASSUME NEW h \in Handlers, NEW e \in Event, RecordEvent(h, e) PROVE EventInv'
  <2>1. UNCHANGED <<log, cdr, call>> /\ handler[h] = IdleHandler
    BY <1>6 DEF RecordEvent
  <2>2. CASE log[Id(e)] > 0
    <3>1. handler' = [handler EXCEPT ![h] = IdleHandler]
      BY <1>6, <2>2 DEF RecordEvent, Respond
    <3> QED
      BY <2>1, <3>1, EventsMove, IdleRows
  <2>3. CASE ~(log[Id(e)] > 0)
    <3> DEFINE x == [handler[h] EXCEPT !.step = "recorded", !.event = e]
    <3>1. handler' = [handler EXCEPT ![h] = x]
      BY <1>6, <1>c, <2>3 DEF RecordEvent
    <3>2. x \in HandlerRow /\ x.event = e
      BY <1>c DEF HandlerRow
    <3>3. log[Id(e)] = 0
      BY <2>3, IdOfEvent DEF TypeOK
    <3>4. \A k \in Handlers : Open(k) => Id(handler[k].event) # Id(e)
      BY <1>6 DEF RecordEvent, Insertable, Open
    <3> HIDE DEF x
    <3> QED
      BY <2>1, <3>1, <3>2, <3>3, <3>4, EventsMove
  <2> QED
    BY <2>2, <2>3
<1>7. ASSUME NEW h \in Handlers, FindCall(h) PROVE EventInv'
  <2> DEFINE Row(m, w) == [handler[h] EXCEPT !.step = "found", !.match = m, !.saw = w]
  <2>1. UNCHANGED <<log, cdr, call>> /\ handler[h].step = "recorded"
    BY <1>7 DEF FindCall
  <2>2. Open(h) /\ handler[h].event \in Event
    BY <2>1 DEF EventInv, EventsApart
  <2>3. PICK m \in BOOLEAN : m = Matches(handler[h].event)
    BY DEF Matches
  <2>4. PICK w \in CallStatuses : w = call[handler[h].event.call].status
    BY <1>c, <2>2 DEF CallRow, Event
  <2>5. handler' = [handler EXCEPT ![h] = Row(m, w)]
    BY <1>7, <1>c, <2>3, <2>4 DEF FindCall
  <2>6. Row(m, w) \in HandlerRow /\ Row(m, w).event = handler[h].event
    BY <1>c DEF HandlerRow
  <2> HIDE DEF Row
  <2> QED
    BY <2>1, <2>2, <2>5, <2>6, EventsMove
<1>8. ASSUME NEW h \in Handlers, NEW taken \in BOOLEAN, NormalizeCall(h, taken) PROVE EventInv'
  <2> DEFINE Row(w) == [handler[h] EXCEPT !.step = "found", !.match = TRUE, !.saw = w,
                                          !.renames = TRUE]
  <2>1. UNCHANGED <<log, cdr, call>> /\ handler[h].step = "recorded"
    BY <1>8 DEF NormalizeCall
  <2>2. Open(h) /\ handler[h].event \in Event
    BY <2>1 DEF EventInv, EventsApart
  <2>3. PICK w \in CallStatuses : w = call[handler[h].event.call].status
    BY <1>c, <2>2 DEF CallRow, Event
  <2>4. handler' \in {[handler EXCEPT ![h] = Row(w)], [handler EXCEPT ![h] = IdleHandler]}
    BY <1>8, <1>c, <2>3 DEF NormalizeCall, Respond
  <2>5. Row(w) \in HandlerRow /\ Row(w).event = handler[h].event
    BY <1>c DEF HandlerRow
  <2> HIDE DEF Row
  <2>6. CASE handler' = [handler EXCEPT ![h] = Row(w)]
    BY <2>1, <2>2, <2>5, <2>6, EventsMove
  <2>7. CASE handler' = [handler EXCEPT ![h] = IdleHandler]
    BY <2>1, <2>7, EventsMove, IdleRows
  <2> QED
    BY <2>4, <2>6, <2>7
<1>9. ASSUME NEW h \in Handlers, EventFails(h) PROVE EventInv'
  <2>1. UNCHANGED <<log, cdr, call>> /\ handler' = [handler EXCEPT ![h] = IdleHandler]
    BY <1>9 DEF EventFails, Respond
  <2> QED
    BY <2>1, EventsMove, IdleRows
<1>10. ASSUME NEW h \in Handlers, HandleEvent(h) PROVE EventInv'
  BY <1>10, EventHandled
<1>11. ASSUME NEW k \in CrmKinds, NEW taken \in BOOLEAN, CrmEvent(k, taken) PROVE EventInv'
  BY <1>11, CrmKept
<1> QED
  BY <1>1, <1>2, <1>4, <1>5, <1>6, <1>7, <1>8, <1>9, <1>10, <1>11, Zenon DEF Next

\* However often and at the same time an event is delivered, it is handled once under its
\* id, and a call has ended only by a hangup on record.
THEOREM EventsOnce == Spec => []EventOnce
<1>1. Init => EventInv
  <2> SUFFICES ASSUME Init PROVE EventInv
    OBVIOUS
  <2>1. \A h \in Handlers : ~Open(h) /\ handler[h].step = "idle"
    BY DEF Init, Open, IdleHandler
  <2>2. \A c \in Calls : ~call[c].ended
    BY DEF Init, NoCall
  <2>3. \A i \in Ids : log[i] = 0
    BY DEF Init
  <2>4. \A k \in CrmKinds : cdr.logged[k] = "absent" /\ k \notin cdr.done
    BY DEF Init
  <2>5. EventOnce
    BY <2>2, <2>3, <2>4 DEF EventOnce
  <2>6. EventsApart
    BY <2>1 DEF EventsApart
  <2> QED
    BY <2>5, <2>6 DEF EventInv
<1>2. TypeOK /\ TypeOK' /\ EventInv /\ [Next]_vars => EventInv'
  BY EventNext
<1>3. EventInv => EventOnce
  BY DEF EventInv
<1> QED
  BY <1>1, <1>2, <1>3, PhoneTyped, PTL DEF Spec

\* A line of the transcript is never replaced by that of a later socket.
THEOREM LinesKept == Spec => TranscriptKept
<1>1. TypeOK /\ [Next]_vars
        => [\A c \in Calls, q \in 1..MaxLines :
              message[c][q] # None => message'[c][q] = message[c][q]]_vars
  <2> SUFFICES ASSUME TypeOK, Next, NEW c \in Calls, NEW q \in 1..MaxLines, message[c][q] # None
               PROVE  message'[c][q] = message[c][q]
    OBVIOUS
  <2>1. message \in [Calls -> [1..MaxLines -> Streams \cup {None}]] /\ stream \in [Streams -> StreamRow]
    BY DEF TypeOK
  <2>2. ASSUME NEW s \in Streams, NEW p \in 1..MaxLines, NEW fails \in BOOLEAN, Persist(s, p, fails)
        PROVE  message'[c][q] = message[c][q]
    <3>1. PICK d : d = stream[s].call
      OBVIOUS
    <3>2. \/ message' = message
          \/ message' = [message EXCEPT ![d][p] = KeptRow(@, s)]
      BY <2>2, <3>1 DEF Persist
    <3>3. CASE d # c
      BY <2>1, <3>2, <3>3
    <3>4. CASE d = c /\ p # q
      <4>1. \A v : [message EXCEPT ![c][p] = v][c][q] = message[c][q]
        BY <2>1, <3>4
      <4> QED
        BY <3>2, <3>4, <4>1
    <3>5. CASE d = c /\ p = q
      <4>1. KeptRow(message[c][q], s) = message[c][q]
        BY DEF KeptRow
      <4> QED
        BY <2>1, <3>2, <3>5, <4>1
    <3> QED
      BY <3>3, <3>4, <3>5
  <2>3. CASE message' = message
    BY <2>3
  <2> QED
    BY <2>2, <2>3, Zenon
       DEF Next, Media, Dial, CommitDial, LoseDial, StartTest, HttpComplete, Reconcile, RecordEvent,
           FindCall, HandleEvent, EventFails, NormalizeCall, CrmEvent, OpenStream, Speak, HangUp,
           Summarise, Record, NotRecorded, CrashStream
<1> QED
  BY <1>1, PhoneTyped, PTL DEF Spec, TranscriptKept
=============================================================================
