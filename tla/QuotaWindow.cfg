CONSTANTS
  Keys = {k1, k2}
  Windows <- BothWindows
  Limit <- TwoAndThree
  Period <- ThreeAndSeven
  Restarts = TRUE
  MaxAge = 8
SPECIFICATION WindowSpec
INVARIANTS WindowBound
