CONSTANTS
  Admins = {p1, p2, u1, u2}
  Protected = {p1, p2}
  Sites = {s1, s2}
  Roles = {super, staff}
  SuperAdmin = super
  Managers = {super}
  Requests = {r1, r2}
  MaxGrants = 2
  MaxUnits = 2
  MaxAssigned = 1
  None = None
SPECIFICATION Spec
SYMMETRY Symmetry
INVARIANTS
  TypeOK
  EveryDashboardHasASuperAdmin
  BadgesHaveAuthority
PROPERTIES
  ProtectedBadgesStand
  LastBadgeNeedsAnOverlap
CHECK_DEADLOCK FALSE
