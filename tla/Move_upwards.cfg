SPECIFICATION Spec
CONSTANTS
  Clients = {c1, c2, c3}
  Calendars = {1, 2, 3}
  None = None
  Moves <- Upwards
  MaxRequests = 4
INVARIANTS TypeOK NeverVanishes OneCopy
CHECK_DEADLOCK FALSE
