------------------------------ MODULE MCLeadDesk ------------------------------
EXTENDS LeadDesk, TLC
Perm == Permutations(Requests) \cup Permutations(Users)
\* Bound: visits and hand-overs, which meet in the keys only, apart.
NoHandoffs == /\ \A h \in Handoffs : handoff[h].status = "absent"
              /\ \A r \in Requests : req[r].step \notin {"transferring", "requested"}
NoVisits == /\ \A v \in Visits : visit[v] = NoVisit
            /\ \A r \in Requests : req[r].step \notin {"scheduling", "booked"}
Apart == NoHandoffs \/ NoVisits
===============================================================================
