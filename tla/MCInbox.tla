-------------------------------- MODULE MCInbox --------------------------------
EXTENDS Inbox, TLC
CONSTANTS ann, m1, m2, r1, r2
MCFrom == m1 :> ann @@ m2 :> ann
MCSymmetry == Permutations(Requests)
\* Bounds: one message and one lead with everything that may go wrong with
\* them, or two messages, each delivered once, and two leads, where the turns
\* are skipped or close the lead and no process dies.
OneMessage == due[m2] = MaxCopies /\ lead[2].by = Absent
TwoMessages ==
  /\ \A m \in Messages : /\ row[m].did \subseteq {"lost"} /\ row[m].turn \in {"none", "done"}
                         /\ ~row[m].human /\ due[m] >= MaxCopies - 1
  /\ \A r \in Requests : At(r, "acting") => req[r].plan.action = "MARK_NOT_INTERESTED"
  /\ crashes = 0
Focus == OneMessage \/ TwoMessages
================================================================================
