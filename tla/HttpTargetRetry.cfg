\* What the caller gets when the next pause does not fit.
CONSTANTS
  Kind = "http"
  Deadline = 4
  Statuses = {200, 429}
  RetryAfters = {0, 5}
  MaxClock = 4
  Nothing = Nothing
SPECIFICATION Spec
INVARIANT LastResultIsSurfaced
CHECK_DEADLOCK FALSE
