SPECIFICATION Spec
CONSTANTS
  Clients = {c1}
  Uids = {u1, u2}
  NoTask = NoTask
  NoRequest = NoRequest
  NoPivot = NoPivot
  NoRule = NoRule
  Floating = Floating
  Absent = Absent
  Titles = {"a", "b"}
  Window <- Week
  FirstTasks <- Chores
  Moves <- Forth
  NewRules = {}
  Faults = FALSE
  MaxRequests = 2
PROPERTIES UntickKeepsText
CHECK_DEADLOCK FALSE
