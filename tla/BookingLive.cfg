CONSTANTS
  Bookings = {b1}
  Requests = {r1, r2}
  Architects = {a1}
  MaxHour = 3
  SessionHours = {1, 2, 3}
  MaxEvents = 2
  MaxNotes = 1
  MayCrash = FALSE
  None = None
SPECIFICATION FairSpec
INVARIANTS
  LettersNameTheHour
  CancellationIsRecorded
PROPERTIES
  SettledSessionsStay
  AssignmentIsRecorded
  BookingIsAnnounced
CHECK_DEADLOCK FALSE
