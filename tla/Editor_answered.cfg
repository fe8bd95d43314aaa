SPECIFICATION Spec
CONSTANTS
  Clients = {c1, c2}
  Uids = {u1, u2, u3}
  NoResource = NoResource
  NoRequest = NoRequest
  NoPivot = NoPivot
  NoRule = NoRule
  Floating = Floating
  Titles = {"a"}
  Times = {0, 1, 2, 3, 4}
  Starts = {1}
  Horizon <- Window
  InitialRules <- JustShort
  AllDays = {FALSE, TRUE}
  Drags <- Forth
  Retimes <- Stay
  RuleEdits <- JustMonthly
  EditShadowed = TRUE
  Faults = TRUE
  MaxRequests = 2
INVARIANTS TypeOK UniqueOverrides
PROPERTIES Answered
CHECK_DEADLOCK FALSE
