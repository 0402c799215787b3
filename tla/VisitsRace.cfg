CONSTANTS
  Visits = {v1}
  Engineers = {e1, e2}
  Requests = {r1, r2}
  MaxDay = 2
  MaxEvents = 2
  None = None
SPECIFICATION Spec
SYMMETRY Symmetry
INVARIANTS
  TypeOK
  StatusIsBacked
  PromisesAreOnRecord
PROPERTIES
  CancellationSettles
  ClockStopsForGood
CHECK_DEADLOCK FALSE
