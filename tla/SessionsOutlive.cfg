CONSTANTS
  Admins = {a1}
  Scopes = {s1}
  Tokens = {t1, t2}
  Families = {f1}
  Requests = {r1, r2}
  MaxPassword = 1
  MayCrash = FALSE
  None = None
SPECIFICATION Spec
SYMMETRY Symmetry
INVARIANTS
  PasswordChangeEndsSessions
CHECK_DEADLOCK FALSE
