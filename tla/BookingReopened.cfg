CONSTANTS
  Bookings = {b1}
  Requests = {r1, r2}
  Architects = {a1}
  MaxHour = 2
  SessionHours = {1, 2}
  MaxEvents = 2
  MaxNotes = 1
  MayCrash = FALSE
  None = None
SPECIFICATION Spec
VIEW WithoutMail
PROPERTIES
  AssignKeepsOutcome
CHECK_DEADLOCK FALSE
