------------------------------- MODULE VoiceRoom -------------------------------
(***************************************************************************)
(* The LiveKit room of one call attempt: made before the phone rings and   *)
(* again by every media socket, joined by the customer's leg and by the    *)
(* agent's, torn down by whoever is done.  Its name follows from the       *)
(* attempt, so a socket that reconnects shares it with the one it replaces. *)
(* A browser test has a room too, where the tester's browser is the        *)
(* customer.                                                               *)
(*                                                                         *)
(* Each step is one request to LiveKit, which may fail; the room and the   *)
(* participants are LiveKit's.                                             *)
(***************************************************************************)
EXTENDS Naturals

CONSTANTS
  Sockets,     \* media sockets of the attempt, or the run of one browser test
  Browser,     \* the tester
  AutoCreates, \* whether LiveKit makes the room that a participant joins
  None

ASSUME RoomAssumption ==
  Browser \notin Sockets /\ None \notin Sockets \cup {Browser} /\ AutoCreates \subseteq BOOLEAN

VARIABLES
  testing,  \* a browser test, not a phone call
  warm,     \* the task that makes the room while the phone rings
  room,     \* the room exists
  leg,      \* who is in it under each of the two identities
  stage,    \* how far each socket's handler is
  half,     \* handlers whose bridge joined and did not get as far as to own the connection
  browser   \* the tester: not yet, in, left

vars == <<testing, warm, room, leg, stage, half, browser>>

\* The customer's is a fixed one, or in a test the tester's own; the agent's is fixed.
Identities == {"customer", "agent"}
Stages == {"idle", "ensured", "bridged", "joined", "talking", "leaving", "closing", "deleting",
           "refused", "done", "dead"}

\* Every variable keeps to its tables and stages.
TypeOK ==
  /\ testing \in BOOLEAN /\ room \in BOOLEAN
  /\ warm \in {"asking", "done"}
  /\ leg \in [Identities -> Sockets \cup {Browser, None}]
  /\ stage \in [Sockets -> Stages]
  /\ half \subseteq Sockets
  /\ browser \in {"away", "in", "left"}

Init ==
  /\ testing \in BOOLEAN
  /\ warm = IF testing THEN "done" ELSE "asking"
  /\ room = FALSE
  /\ leg = [i \in Identities |-> None]
  /\ stage = [s \in Sockets |-> "idle"]
  /\ half = {}
  /\ browser = "away"

Goto(s, there) == stage' = [stage EXCEPT ![s] = there]
Empty == [i \in Identities |-> None]

-----------------------------------------------------------------------------
(* The room *)

\* Making a room that exists does nothing; a failure is logged.
EnsureRoom(works) == room' = (room \/ works)

\* The phone has been dialled; nothing waits for this.
Prewarm(works) ==
  /\ warm = "asking"
  /\ EnsureRoom(works) /\ warm' = "done"
  /\ UNCHANGED <<testing, leg, stage, half, browser>>

\* LiveKit closes a room nobody has been in for a while.
EmptyTimeout ==
  /\ room /\ leg = Empty
  /\ room' = FALSE
  /\ UNCHANGED <<testing, warm, leg, stage, half, browser>>

\* It sees the connection of a process that died, or of a bridge that was dropped, go.
DropLeg(i) ==
  /\ leg[i] \in Sockets
  /\ stage[leg[i]] = "dead" \/ leg[i] \in half
  /\ leg' = [leg EXCEPT ![i] = None]
  /\ UNCHANGED <<testing, warm, room, stage, half, browser>>

\* A second participant of an identity puts the first one out.
Join(i, who) == leg' = [leg EXCEPT ![i] = who] /\ room' = TRUE
Joinable(auto) == room \/ (auto /\ auto \in AutoCreates)

\* (a mutant: the agent's token has the customer's identity.)
SameIdentity(s) == Join("customer", s)
JoinAsAgent(s) == Join("agent", s)

-----------------------------------------------------------------------------
(* A socket's handler *)

\* A second socket may come while the first has not ended; a test has one run.
Open(s, works) ==
  /\ stage[s] = "idle"
  /\ testing => \A t \in Sockets : stage[t] = "idle"
  /\ EnsureRoom(works)
  /\ Goto(s, IF works THEN "ensured" ELSE "refused")
  /\ UNCHANGED <<testing, warm, leg, half, browser>>

\* The customer's leg; a test has none of its own.
BridgeConnects(s, auto) ==
  /\ stage[s] = "ensured" /\ ~testing /\ Joinable(auto)
  /\ Join("customer", s)
  /\ Goto(s, "bridged")
  /\ UNCHANGED <<testing, warm, half, browser>>

\* The bridge owns its connection only once the track is published.
BridgeFails(s, auto) ==
  /\ stage[s] = "ensured" /\ ~testing
  /\ \/ UNCHANGED <<room, leg, half>>
     \/ Joinable(auto) /\ Join("customer", s) /\ half' = half \cup {s}
  /\ Goto(s, "closing")
  /\ UNCHANGED <<testing, warm, browser>>

AgentJoins(s, auto) ==
  /\ stage[s] = (IF testing THEN "ensured" ELSE "bridged") /\ Joinable(auto)
  /\ JoinAsAgent(s)
  /\ Goto(s, "joined")
  /\ UNCHANGED <<testing, warm, half, browser>>

\* A phone call's bridge is closed before the room is deleted.
Teardown == IF testing THEN "deleting" ELSE "closing"

AgentFails(s) ==
  /\ stage[s] = (IF testing THEN "ensured" ELSE "bridged")
  /\ Goto(s, Teardown)
  /\ UNCHANGED <<testing, warm, room, leg, half, browser>>

Greet(s) ==
  /\ stage[s] = "joined"
  /\ Goto(s, "talking")
  /\ UNCHANGED <<testing, warm, room, leg, half, browser>>

\* (a mutant: the agent is not disconnected when its session does not start.)
LeftJoined == Teardown
AfterFailedStart == "leaving"
GreetFails(s) ==
  /\ stage[s] = "joined"
  /\ Goto(s, AfterFailedStart)
  /\ UNCHANGED <<testing, warm, room, leg, half, browser>>

\* The socket closes or breaks.
HangUp(s) ==
  /\ stage[s] = "talking" /\ ~testing
  /\ Goto(s, "leaving")
  /\ UNCHANGED <<testing, warm, room, leg, half, browser>>

\* The test is told to stop, has seen the tester leave, or has lasted long enough.
TestEnds(s) ==
  /\ stage[s] = "talking" /\ testing
  /\ Goto(s, "leaving")
  /\ UNCHANGED <<testing, warm, room, leg, half, browser>>

\* A participant leaves a room that it may have been put out of.
Leaves(s, i) == leg' = IF leg[i] = s THEN [leg EXCEPT ![i] = None] ELSE leg

AgentLeaves(s) ==
  /\ stage[s] = "leaving"
  /\ Leaves(s, "agent")
  /\ Goto(s, Teardown)
  /\ UNCHANGED <<testing, warm, room, half, browser>>

\* (a mutant: only the pumps are stopped.)
StaysConnected(s) == UNCHANGED leg
Disconnected(s) == IF s \in half THEN UNCHANGED leg ELSE Leaves(s, "customer")
CloseBridge(s) ==
  /\ stage[s] = "closing"
  /\ Disconnected(s)
  /\ Goto(s, "deleting")
  /\ UNCHANGED <<testing, warm, room, half, browser>>

\* The room goes with everyone in it, whoever they are; a failure is logged.
DeleteRoom(s, works) ==
  /\ stage[s] = "deleting"
  /\ room' = (room /\ ~works)
  /\ leg' = IF works THEN Empty ELSE leg
  /\ browser' = IF works /\ browser = "in" THEN "left" ELSE browser
  /\ Goto(s, "done")
  /\ UNCHANGED <<testing, warm, half>>

\* The process stops, or cancels the handler on its way out.
Die(s) ==
  /\ stage[s] \notin {"idle", "refused", "done", "dead"}
  /\ Goto(s, "dead")
  /\ UNCHANGED <<testing, warm, room, leg, half, browser>>

-----------------------------------------------------------------------------
(* The tester's browser *)

BrowserJoins(auto) ==
  /\ testing /\ browser = "away" /\ Joinable(auto)
  /\ \E s \in Sockets : stage[s] \notin {"idle", "refused"}
  /\ Join("customer", Browser)
  /\ browser' = "in"
  /\ UNCHANGED <<testing, warm, stage, half>>

BrowserLeaves ==
  /\ browser = "in"
  /\ Leaves(Browser, "customer")
  /\ browser' = "left"
  /\ UNCHANGED <<testing, warm, room, stage, half>>

-----------------------------------------------------------------------------
\* What the handler does by itself.
Advance(s) ==
  \/ \E auto \in BOOLEAN : BridgeConnects(s, auto) \/ BridgeFails(s, auto) \/ AgentJoins(s, auto)
  \/ AgentFails(s) \/ Greet(s) \/ GreetFails(s) \/ TestEnds(s)
  \/ AgentLeaves(s) \/ CloseBridge(s)
  \/ \E works \in BOOLEAN : DeleteRoom(s, works)

Next ==
  \/ \E works \in BOOLEAN : Prewarm(works)
  \/ EmptyTimeout \/ BrowserLeaves
  \/ \E auto \in BOOLEAN : BrowserJoins(auto)
  \/ \E i \in Identities : DropLeg(i)
  \/ \E s \in Sockets :
       \/ \E works \in BOOLEAN : Open(s, works)
       \/ Advance(s) \/ HangUp(s) \/ Die(s)

Spec == Init /\ [][Next]_vars

\* A handler is running code and none of its requests waits for ever; LiveKit notices
\* what is gone; nobody stays in a room alone for ever.  Nothing makes a customer hang up.
FairSpec ==
  /\ Spec
  /\ \A s \in Sockets : WF_vars(Advance(s))
  /\ \A i \in Identities : WF_vars(DropLeg(i))
  /\ WF_vars(EmptyTimeout) /\ WF_vars(BrowserLeaves)

-----------------------------------------------------------------------------
(* Properties *)

\* Whatever fails on the way in, a handler that has let go of its agent and its bridge
\* has no participant in the room, but for a bridge that failed half made (_run's
\* finally, _finish).
NothingLeftBehind ==
  \A s \in Sockets :
    /\ leg["agent"] = s => stage[s] \in {"joined", "talking", "leaving", "dead"}
    /\ leg["customer"] = s =>
         \/ s \in half
         \/ stage[s] \in {"bridged", "joined", "talking", "leaving", "closing", "dead"}

\* Neither the task that makes the room early, nor LiveKit's timeouts, nor a failure
\* gets between a customer and the agent: only another socket of the call does.
OnlyTwinsPart ==
  \A s \in Sockets :
    /\ stage[s] = "talking"
    /\ \A t \in Sockets \ {s} : stage[t] \in {"idle", "refused"}
    => /\ room /\ leg["agent"] = s
       /\ ~testing => leg["customer"] = s

\* A room does not outlive its call: even where its deletion failed, or the process
\* died, or the early task made it again, it goes once nobody talks in it.
RoomGoes == room ~> (~room \/ \E s \in Sockets : stage[s] = "talking")

\* livekit_gateway.py:212-213: CreateRoom is idempotent, "so a reconnecting media stream
\* re-enters the same room": and there it talks, while the socket it replaced is torn down.
TalkersHaveRoom == \A s \in Sockets : stage[s] = "talking" => room
================================================================================
