CONSTANTS
  Null = Null
  Keys = {k1, k2}
  Windows <- BothWindows
  Limit <- TwoAndTwo
  Period <- ThreeAndFour
  Restarts = TRUE
  SweepSize = 1
  LogCap = 1
SPECIFICATION Spec
INVARIANTS TypeOK RetryAfterHonoured WarningsCapped
PROPERTIES ImplementsQuota FrontIsSwept
