------------------------------- MODULE MCLeadFile -------------------------------
EXTENDS LeadFile, TLC
CONSTANTS r1, r2, a1, a2, villa, flat, unit, project, u1, u2
MCSymmetry == Permutations(Requests) \cup Permutations(Agents)
\* Bounds: one part of the file at a time, the others as they were at first.
NoTasks == task.status = "none"
NoJobs == \A j \in Jobs : job[j] = "none"
Busy(ops) == \A r \in Requests : Free(r) \/ req[r].op \in ops
Untouched == lead.assignee = None /\ lead.need = None /\ lead.status = "open" /\ history = {}
Staffed ==
  /\ interest = <<>> /\ followup = <<>> /\ ~dnc /\ NoTasks /\ NoJobs
  /\ \/ lead.need = None /\ history = {} /\ Busy({"assign", "edit"}) /\ lead.status = "open"
     \/ assigned = <<>> /\ Busy({"edit", "require"})
Interests ==
  /\ assigned = <<>> /\ followup = <<>> /\ ~dnc /\ NoTasks /\ NoJobs /\ Untouched
  /\ Busy({"interest", "drop"}) /\ Len(interest) <= 2
FollowUps ==
  /\ assigned = <<>> /\ interest = <<>> /\ NoTasks /\ Untouched
  /\ Busy({"followup", "reschedule", "cancel"})
  /\ Len(followup) <= 2 /\ (Len(followup) = 2 => NoJobs /\ ~dnc)
Tasks ==
  /\ assigned = <<>> /\ interest = <<>> /\ followup = <<>> /\ ~dnc /\ NoJobs
  /\ Untouched /\ Busy({})
Focus == Staffed \/ Interests \/ FollowUps \/ Tasks
================================================================================
