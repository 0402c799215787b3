CONSTANTS
  Admins = {a1}
  Scopes = {s1}
  Tokens = {t1, t2, t3}
  Families = {f1}
  Requests = {r1, r2}
  MaxPassword = 0
  MayCrash = FALSE
  None = None
SPECIFICATION Spec
SYMMETRY Symmetry
INVARIANTS
  TokenIsSingleUse
CHECK_DEADLOCK FALSE
