SPECIFICATION FairSpec
CONSTANTS
  s1 = s1
  s3 = s3
  s2 = s2
  Sockets = {s1, s2, s3}
  Browser = Browser
  AutoCreates = {TRUE, FALSE}
  None = None
INVARIANTS NothingLeftBehind OnlyTwinsPart
PROPERTY RoomGoes
\* When every socket is done and the room is gone, it is over.
CHECK_DEADLOCK FALSE
