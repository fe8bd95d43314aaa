SPECIFICATION Spec
CONSTANTS
  Clients = {c1}
  Uids = {u1, u2, u3, u4}
  NoResource = NoResource
  NoRequest = NoRequest
  NoPivot = NoPivot
  NoRule = NoRule
  Floating = Floating
  Titles = {t1, t2}
  Times = {0, 1, 2, 3, 4, 5}
  Starts = {1}
  Horizon <- Window
  InitialRules <- CountAndUntil
  AllDays = {FALSE}
  Drags <- BackAndForth
  Retimes = {}
  RuleEdits = {}
  EditShadowed = FALSE
  Faults = TRUE
  MaxRequests = 3
INVARIANTS OverridesOnGrid
PROPERTIES ImplementsAgenda EditsInPlace SplitConserves
CHECK_DEADLOCK FALSE
SYMMETRY Symmetry
