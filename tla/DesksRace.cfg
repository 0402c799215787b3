SPECIFICATION DesksSpec
CONSTANTS
  Files = {f1, f2}
  Submissions = {r1, r2}
  MaxFiles = 2
  NoFile = NoFile
  CaseIds = {a1, a2}
  Clerks = {r1, r2}
  Owners = {o1}
  Nobody = Nobody
  Slots = {s1}
  Papers = {a1, a2}
  Calls = {r1, r2}
  NoPaper = NoPaper
  People = {a1, a2}
  Emails = {e1, e2}
  Officers = {r1, r2}
  NoPerson = NoPerson
  Records = {a1, a2}
  Attempts = {r1, r2}
  MaxDraw = 4
  NoRecord = NoRecord
  Notices = {a1, a2}
  Tellers = {r1, r2}
  Postings = {p1}
  Editors = {r1, r2}
  NoPosting = NoPosting
  Grants = {g1, g2, g3}
  Seeded = {g1, g2}
  TeamView = g1
  Writers = {r1, r2}
  Experts = {x1}
  Times = {h1}
  Absences = {a1, a2}
  Planners = {r1, r2}
  Everyone = Everyone
  NoAbsence = NoAbsence
  Weeks <- OfficeWeeks
  MaxDays = 2
  WorkEnd = 18
  Offsets = {0, 3}
INVARIANTS
  DesksTypeOK
  RowsAndObjectsAgree
  AcceptedKeepsItsFiles
  TakenUpStopsTheClock
  DuplicatesNeedAnOverlap
  SignOffIsOfThisFile
  AccountFollowsItsRecord
  ToldOnce
  LiveIsDated
  SuperAdminKeepsTeam
  PermissionsAreOneRequests
  OpenSlotsAreExplained
  DeadlineIsNthWorkingDay
PROPERTIES
  ImplementsLeadLedger
  WithdrawalStands
  HandlersMoveTheirColumn
SYMMETRY Symmetry
CHECK_DEADLOCK FALSE
