CONSTANTS
  Visits = {v1}
  Engineers = {e1}
  Requests = {r1, r2}
  MaxDay = 2
  MaxEvents = 1
  None = None
SPECIFICATION Spec
PROPERTIES
  ConfirmedVisitsAreStaffed
CHECK_DEADLOCK FALSE
