---------------------------- MODULE VoiceRoomProofs ----------------------------
(***************************************************************************)
(* What holds of the room of a call attempt for any number of sockets: who *)
(* may be in it, what may come between a customer and the agent, and that  *)
(* nobody is left in it.                                                   *)
(***************************************************************************)
EXTENDS VoiceRoom, TLAPS

\* A bridge that failed half made: its handler goes on to the teardown.
HalfMade == \A s \in half : stage[s] \in {"closing", "deleting", "done", "dead"}

\* A browser test has no bridge, so no socket stands for its customer.
TestHasNoBridge ==
  testing => /\ leg["customer"] \notin Sockets
             /\ \A s \in Sockets : stage[s] \notin {"bridged", "closing"}

\* A socket that is the only one has what it joined, from its first join on.
Alone(s) == \A t \in Sockets \ {s} : stage[t] \in {"idle", "refused"}
LegsHeld ==
  \A s \in Sockets :
    /\ stage[s] \in {"bridged", "joined", "talking"}
    /\ Alone(s)
    => /\ room
       /\ stage[s] # "bridged" => leg["agent"] = s
       /\ ~testing => leg["customer"] = s

\* The inductive invariant.
RoomInv == TypeOK /\ HalfMade /\ TestHasNoBridge /\ NothingLeftBehind /\ LegsHeld

USE DEF Identities, Stages, RoomInv, TypeOK, HalfMade, TestHasNoBridge, NothingLeftBehind

-----------------------------------------------------------------------------

\* It holds while no socket has come.
LEMMA RoomInit == Init => RoomInv
BY RoomAssumption DEF Init, LegsHeld

\* Every step of a handler, of LiveKit and of the tester's browser keeps it.  The steps
\* that put somebody out of the room need that a half-made bridge is being torn down
\* and that a test has none.
LEMMA RoomNext == RoomInv /\ [Next]_vars => RoomInv'
<1> SUFFICES ASSUME RoomInv, [Next]_vars PROVE RoomInv'
  OBVIOUS
<1> USE RoomAssumption
<1>1. ASSUME NEW works \in BOOLEAN, Prewarm(works) PROVE RoomInv'
  BY <1>1 DEF Prewarm, EnsureRoom, LegsHeld, Alone
<1>2. CASE EmptyTimeout
  BY <1>2 DEF EmptyTimeout, Empty, LegsHeld, Alone
<1>3. CASE BrowserLeaves
  BY <1>3 DEF BrowserLeaves, Leaves, LegsHeld, Alone
<1>4. ASSUME NEW auto \in BOOLEAN, BrowserJoins(auto) PROVE RoomInv'
  BY <1>4 DEF BrowserJoins, Join, LegsHeld, Alone
<1>5. ASSUME NEW i \in Identities, DropLeg(i) PROVE RoomInv'
  BY <1>5 DEF DropLeg, LegsHeld, Alone
<1>6. ASSUME NEW s \in Sockets, NEW works \in BOOLEAN, Open(s, works) PROVE RoomInv'
  BY <1>6 DEF Open, EnsureRoom, Goto, LegsHeld, Alone
<1>7. ASSUME NEW s \in Sockets, NEW auto \in BOOLEAN, BridgeConnects(s, auto) PROVE RoomInv'
  BY <1>7 DEF BridgeConnects, Join, Goto, LegsHeld, Alone
<1>8. ASSUME NEW s \in Sockets, NEW auto \in BOOLEAN, BridgeFails(s, auto) PROVE RoomInv'
  <2>1. /\ stage' = [stage EXCEPT ![s] = "closing"] /\ stage[s] = "ensured" /\ ~testing
        /\ UNCHANGED <<testing, warm, browser>>
    BY <1>8 DEF BridgeFails, Goto
  <2>2. CASE UNCHANGED <<room, leg, half>>
    BY <2>1, <2>2 DEF LegsHeld, Alone
  <2>3. CASE Joinable(auto) /\ Join("customer", s) /\ half' = half \cup {s}
    <3>1. TypeOK' /\ HalfMade' /\ TestHasNoBridge'
      BY <2>1, <2>3 DEF Join
    <3>2. NothingLeftBehind'
      BY <2>1, <2>3 DEF Join
    <3>3. \A q \in Sockets \ {s} : ~(Alone(q)')
      BY <2>1 DEF Alone
    <3> QED
      BY <2>1, <3>1, <3>2, <3>3 DEF LegsHeld
  <2> QED
    BY <1>8, <2>2, <2>3 DEF BridgeFails
<1>9. ASSUME NEW s \in Sockets, NEW auto \in BOOLEAN, AgentJoins(s, auto) PROVE RoomInv'
  BY <1>9 DEF AgentJoins, JoinAsAgent, Join, Goto, LegsHeld, Alone
<1>10. ASSUME NEW s \in Sockets, AgentFails(s) PROVE RoomInv'
  BY <1>10 DEF AgentFails, Teardown, Goto, LegsHeld, Alone
<1>11. ASSUME NEW s \in Sockets, Greet(s) PROVE RoomInv'
  BY <1>11 DEF Greet, Goto, LegsHeld, Alone
<1>12. ASSUME NEW s \in Sockets, GreetFails(s) \/ HangUp(s) \/ TestEnds(s) \/ Die(s) PROVE RoomInv'
  BY <1>12 DEF GreetFails, AfterFailedStart, HangUp, TestEnds, Die, Goto, LegsHeld, Alone
<1>13. ASSUME NEW s \in Sockets, AgentLeaves(s) PROVE RoomInv'
  BY <1>13 DEF AgentLeaves, Leaves, Teardown, Goto, LegsHeld, Alone
<1>14. ASSUME NEW s \in Sockets, CloseBridge(s) PROVE RoomInv'
  BY <1>14 DEF CloseBridge, Disconnected, Leaves, Goto, LegsHeld, Alone
<1>15. ASSUME NEW s \in Sockets, NEW works \in BOOLEAN, DeleteRoom(s, works) PROVE RoomInv'
  BY <1>15 DEF DeleteRoom, Empty, Goto, LegsHeld, Alone
<1>16. CASE UNCHANGED vars
  BY <1>16 DEF vars, LegsHeld, Alone
<1> QED
  BY <1>1, <1>2, <1>3, <1>4, <1>5, <1>6, <1>7, <1>8, <1>9, <1>10, <1>11, <1>12, <1>13, <1>14,
     <1>15, <1>16 DEF Next, Advance

\* The inductive invariant holds of every behaviour.
THEOREM RoomInvariant == Spec => []RoomInv
<1> QED
  BY RoomInit, RoomNext, PTL DEF Spec

\* Tables and stages keep their types, for any number of sockets.
THEOREM RoomTyped == Spec => []TypeOK
<1>1. RoomInv => TypeOK
  OBVIOUS
<1> QED
  BY <1>1, RoomInvariant, PTL

\* No handler that is done leaves a participant in the room (voice/service.py, _run and
\* _finish), for any number of sockets and whatever fails.
THEOREM RoomLeftClean == Spec => []NothingLeftBehind
<1>1. RoomInv => NothingLeftBehind
  OBVIOUS
<1> QED
  BY <1>1, RoomInvariant, PTL

\* Only another socket of the call parts a customer from the agent.
THEOREM OnlyTwinsPartThem == Spec => []OnlyTwinsPart
<1>1. RoomInv => OnlyTwinsPart
  BY DEF LegsHeld, Alone, OnlyTwinsPart
<1> QED
  BY <1>1, RoomInvariant, PTL

-----------------------------------------------------------------------------
(* Nobody stays for ever *)

\* Whoever is in the room leaves it or is seen gone: the tester's browser that has not
\* left, a socket whose handler still has to let go, or one whose connection LiveKit drops.
WayOut(who) ==
  \/ who = Browser /\ browser = "in"
  \/ /\ who \in Sockets
     /\ who \in half
        \/ stage[who] \in {"bridged", "joined", "talking", "leaving", "closing", "dead"}
NobodyStuck ==
  /\ leg # Empty => room
  /\ \A i \in Identities : leg[i] # None => WayOut(leg[i])

\* What it rests on, next to who may be in the room: the tester's browser is the customer
\* until it leaves, and a participant joins a room that is there.
BrowserSeen ==
  /\ leg["agent"] # Browser
  /\ leg["customer"] = Browser => browser = "in" /\ testing
  /\ \A i \in Identities : leg[i] # None => room

\* Every step keeps it.
LEMMA SeenNext == RoomInv /\ BrowserSeen /\ [Next]_vars => BrowserSeen'
<1> SUFFICES ASSUME RoomInv, BrowserSeen, [Next]_vars PROVE BrowserSeen'
  OBVIOUS
<1> USE RoomAssumption DEF BrowserSeen
<1>1. ASSUME NEW works \in BOOLEAN, Prewarm(works) PROVE BrowserSeen'
  BY <1>1 DEF Prewarm, EnsureRoom
<1>2. CASE EmptyTimeout
  BY <1>2 DEF EmptyTimeout, Empty
<1>3. CASE BrowserLeaves
  BY <1>3 DEF BrowserLeaves, Leaves
<1>4. ASSUME NEW auto \in BOOLEAN, BrowserJoins(auto) PROVE BrowserSeen'
  BY <1>4 DEF BrowserJoins, Join
<1>5. ASSUME NEW i \in Identities, DropLeg(i) PROVE BrowserSeen'
  BY <1>5 DEF DropLeg
<1>6. ASSUME NEW s \in Sockets, NEW works \in BOOLEAN, Open(s, works) PROVE BrowserSeen'
  BY <1>6 DEF Open, EnsureRoom
<1>7. ASSUME NEW s \in Sockets, NEW auto \in BOOLEAN,
             BridgeConnects(s, auto) \/ BridgeFails(s, auto) PROVE BrowserSeen'
  BY <1>7 DEF BridgeConnects, BridgeFails, Join
<1>8. ASSUME NEW s \in Sockets, NEW auto \in BOOLEAN, AgentJoins(s, auto) PROVE BrowserSeen'
  BY <1>8 DEF AgentJoins, JoinAsAgent, Join
<1>9. ASSUME NEW s \in Sockets,
             AgentFails(s) \/ Greet(s) \/ GreetFails(s) \/ HangUp(s) \/ TestEnds(s) \/ Die(s)
      PROVE BrowserSeen'
  BY <1>9 DEF AgentFails, Greet, GreetFails, HangUp, TestEnds, Die
<1>10. ASSUME NEW s \in Sockets, AgentLeaves(s) \/ CloseBridge(s) PROVE BrowserSeen'
  BY <1>10 DEF AgentLeaves, CloseBridge, Disconnected, Leaves
<1>11. ASSUME NEW s \in Sockets, NEW works \in BOOLEAN, DeleteRoom(s, works) PROVE BrowserSeen'
  BY <1>11 DEF DeleteRoom, Empty
<1>12. CASE UNCHANGED vars
  BY <1>12 DEF vars
<1> QED
  BY <1>1, <1>2, <1>3, <1>4, <1>5, <1>6, <1>7, <1>8, <1>9, <1>10, <1>11, <1>12
     DEF Next, Advance

\* Whatever failed and whoever died, no participant is left in the room whom nobody takes
\* out, so the room empties and LiveKit closes it even where its deletion failed (_finish).
THEOREM NobodyIsStuck == Spec => []NobodyStuck
<1>1. Init => BrowserSeen
  BY RoomAssumption DEF Init, BrowserSeen
<1>2. RoomInv /\ BrowserSeen => NobodyStuck
  BY RoomAssumption DEF BrowserSeen, NobodyStuck, WayOut, Empty
<1> QED
  BY <1>1, <1>2, SeenNext, RoomInvariant, PTL DEF Spec

================================================================================
