SPECIFICATION Spec
CONSTANTS
  Browsers = {b1, b2}
  Tabs = {1}
  Sessions = {s1, s2}
  None = None
  Never = Never
  Timeouts = {2}
  Cap = 3
  PollEvery = 1
  Choices <- AllChoices
  Throttled = TRUE
  MaxActs = 3
INVARIANT NotificationsDisableLogout
CHECK_DEADLOCK FALSE
