CONSTANTS
  Bookings = {b1, b2}
  Requests = {r1, r2}
  Architects = {a1}
  MaxHour = 2
  SessionHours = {1, 2}
  MaxEvents = 1
  MaxNotes = 0
  MayCrash = TRUE
  None = None
SPECIFICATION Spec
SYMMETRY Symmetry
VIEW WithoutMail
INVARIANTS
  TypeOK
  BookedHasArchitect
  OriginalHourIsKept
PROPERTIES
  ImplementsHourBoard
CHECK_DEADLOCK FALSE
