CONSTANTS
  Admins = {p1, u1}
  Protected = {p1}
  Sites = {s1, s2}
  Roles = {super, staff}
  SuperAdmin = super
  Managers = {super}
  Requests = {r1, r2}
  MaxGrants = 1
  MaxUnits = 1
  MaxAssigned = 1
  None = None
SPECIFICATION Spec
SYMMETRY Symmetry
PROPERTIES
  DeactivationHolds
CHECK_DEADLOCK FALSE
