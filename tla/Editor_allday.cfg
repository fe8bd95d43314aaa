SPECIFICATION Spec
CONSTANTS
  Clients = {c1}
  Uids = {u1, u2, u3, u4}
  NoResource = NoResource
  NoRequest = NoRequest
  NoPivot = NoPivot
  NoRule = NoRule
  Floating = Floating
  Titles = {"a", "b"}
  Times = {0, 1, 2, 3, 4}
  Starts = {1}
  Horizon <- Window
  InitialRules <- JustCount
  AllDays = {TRUE}
  Drags <- Forth
  Retimes = {}
  RuleEdits = {}
  EditShadowed = FALSE
  Faults = FALSE
  MaxRequests = 3
INVARIANTS ErrorsExplained
CHECK_DEADLOCK FALSE
