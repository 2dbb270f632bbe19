SPECIFICATION Spec
CONSTANTS
  r1 = r1
  r2 = r2
  u1 = u1
  u2 = u2
  c1 = c1
  c2 = c2
  c3 = c3
  Requests = {r1, r2}
  Users = {u1, u2}
  Custom = {"deputy"}
  System <- MCSystem
  SuperAdmin = "super_admin"
  Codes <- MCCodes
  SystemCodes <- MCSystemCodes
  Asked <- MCAsked
  FirstAdmin = u1
  Admin = "admin"
  Customers = {c1, c2, c3}
  Shares = {0, 40, 60}
  None = None
CONSTRAINT Focus
SYMMETRY MCSymmetry
INVARIANTS TenantRolesStayTenant SharesSeen
\* Two users may withdraw each other's last role: then nobody is admitted.
CHECK_DEADLOCK FALSE
