SPECIFICATION Spec
CONSTANTS
  Agents = {a1}
  Users = {u1, u2}
  Requests = {r1, r2}
  Keys = {k1}
  Times = {1, 2, 3}
  Lengths = {2}
  NewStatuses = {"pending", "completed"}
  MaxVisits = 2
  MaxHandoffs = 3
  MaxRings = 3
CONSTRAINT Apart
SYMMETRY Perm
INVARIANTS NoDoubleBooking AnswerMatchesEffect KeyRacesOnly LateRingsBounded
PROPERTIES CancelSparesCompleted AssigneeStays
