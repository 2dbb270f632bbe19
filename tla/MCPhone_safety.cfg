SPECIFICATION Spec
CONSTANTS
  s1 = s1
  s2 = s2
  h1 = h1
  h2 = h2
  Calls = {1, 2}
  Streams = {s1, s2}
  Handlers = {h1, h2}
  Carried = {"request", "both"}
  TakesDicts = {TRUE, FALSE}
  MaxAttempts = 2
  MaxLines = 2
  MaxEvents = 2
  MaxFaults = 1
CONSTRAINT Focus
SYMMETRY MCSymmetry
INVARIANTS OutcomeAllOrNothing OutcomesMatchDials TranscriptSettled DegradedHandsOver EventOnce
\* Both calls may be over, with their sockets and all events used.
CHECK_DEADLOCK FALSE
