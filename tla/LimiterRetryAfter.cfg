CONSTANTS
  Null = Null
  Keys = {k1}
  Windows <- BothWindows
  Limit <- OneAndOne
  Period <- TwoAndSix
  Restarts = FALSE
  SweepSize = 2
  LogCap = 0
SPECIFICATION Spec
INVARIANTS RetryAfterSuffices
