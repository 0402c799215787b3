CONSTANTS
  Admins = {a1}
  Scopes = {s1, s2}
  Tokens = {t1, t2}
  Families = {f1}
  Requests = {r1, r2}
  MaxPassword = 1
  MayCrash = TRUE
  None = None
SPECIFICATION FairSpec
INVARIANTS
  TypeOK
  SessionKeepsItsScope
PROPERTIES
  ImplementsSessionBook
  SpentPasswordStaysSpent
  SessionsRunDry
CHECK_DEADLOCK FALSE
