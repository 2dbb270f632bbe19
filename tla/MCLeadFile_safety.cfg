SPECIFICATION Spec
CONSTANTS
  r1 = r1
  r2 = r2
  a1 = a1
  a2 = a2
  villa = villa
  flat = flat
  unit = unit
  project = project
  Requests = {r1, r2}
  Agents = {a1, a2}
  Needs = {villa, flat}
  Places = {unit, project}
  NoPlace = project
  Slots = {0, 10, 20}
  Jobs = {"job"}
  Staff = {u1, u2}
  u1 = u1
  u2 = u2
  None = None
  MaxRows = 3
CONSTRAINT Focus
SYMMETRY MCSymmetry
INVARIANTS PrimariesRaced PrimaryInterestsRaced AssigneeIsCurrent OpenFollowUpsRaced
