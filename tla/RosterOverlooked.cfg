CONSTANTS
  Bookings = {b1}
  Requests = {r1}
  Architects = {a1}
  MaxHour = 1
  SessionHours = {1}
  MaxEvents = 2
  MaxNotes = 0
  MayCrash = FALSE
  None = None
  Absences = {w1}
  Planners = {p1}
  Everyone = Everyone
  NoAbsence = NoAbsence
SPECIFICATION RosteredSpec
PROPERTIES
  BlackoutsSpareSessions
CHECK_DEADLOCK FALSE
