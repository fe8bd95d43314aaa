SPECIFICATION Spec
CONSTANTS
  Browsers = {b1}
  Tabs = {1, 2}
  Sessions = {s1, s2}
  None = None
  Never = Never
  Timeouts = {2}
  Cap = 3
  PollEvery = 1
  Choices <- AllChoices
  Throttled = TRUE
  MaxActs = 3
INVARIANTS TypeOK NotifyExclusive
PROPERTIES IdleLoggedOut
CHECK_DEADLOCK FALSE
