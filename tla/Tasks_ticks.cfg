SPECIFICATION Spec
CONSTANTS
  Clients = {c1, c2}
  Uids = {u1, u2}
  NoTask = NoTask
  NoRequest = NoRequest
  NoPivot = NoPivot
  NoRule = NoRule
  Floating = Floating
  Absent = Absent
  Titles = {"a", "b"}
  Window <- Week
  FirstTasks <- AllKinds
  Moves <- Forth
  NewRules <- JustTwice
  Faults = TRUE
  MaxRequests = 2
INVARIANTS TypeOK OneStatusPerSlot
PROPERTIES TicksInPlace TicksFollow
SYMMETRY Symmetry
CHECK_DEADLOCK FALSE
