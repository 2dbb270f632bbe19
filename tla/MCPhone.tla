-------------------------------- MODULE MCPhone --------------------------------
EXTENDS Phone, TLC
CONSTANTS s1, s2, h1, h2
MCSymmetry == Permutations(Streams) \cup Permutations(Handlers)
NoCrm == ~cdr.known /\ \A k \in CrmKinds : cdr.logged[k] = "absent"
\* Bounds: the provider's events on one call, while it lasts, with a socket that
\* opens and says nothing; sockets that talk after one answer and no other event
\* (two on one call with two lines in all, or on two calls with one line in all,
\* or one and a crash); or the CRM's events alone.
Untouched(s) == stream[s] = IdleStream
EventsOnly ==
  /\ NoCrm /\ call[2].state = "none" /\ faults = 0 /\ outcomes = 0
  /\ \A s \in Streams : stream[s].step \in {"idle", "talking", "unknown"} /\ stream[s].lines = 0
  /\ \E s \in Streams : Untouched(s)
OneAnswer ==
  /\ \A h \in Handlers : handler[h] = IdleHandler \/ handler[h].event.ids = "request"
  /\ \A c \in Calls : call[c].status \in {"initiated", "answered", "in_progress"}
  /\ events <= Cardinality(Seen)
Lines == stream[s1].lines + stream[s2].lines
TalksOnly ==
  /\ NoCrm /\ OneAnswer
  /\ \A s \in Streams : stream[s].step \notin {"unknown", "refused"}
  /\ \/ \A h \in Handlers : handler[h] = IdleHandler
     \/ \A s \in Streams : stream[s].lines = 0 /\ stream[s].step \in {"idle", "talking"}
  /\ \/ faults = 0 /\ call[2].state = "none" /\ Lines <= 2
     \/ faults = 0 /\ Lines <= 1
     \/ (\E s \in Streams : Untouched(s)) /\ Lines <= 1
CrmOnly == call[1].state = "none"
Focus == EventsOnly \/ TalksOnly \/ CrmOnly
================================================================================
