SPECIFICATION Spec
CONSTANTS
  r1 = r1
  r2 = r2
  r3 = r3
  b1 = b1
  b2 = b2
  b3 = b3
  Requests = {r1, r2, r3}
  Calls = {r1, r2, r3}
  KindOf <- Streams
  Route <- OneRoute
  Usable = {b1}
  MaxAttempts <- MCMax
  PerMinute = 0
  PerDay = 1
  Window = 2
  DayLength = 2
  MaxClock = 2
  Never = Never
  Slots = 1
  MaxBoots = 0
PROPERTIES QuotaOverMidnight
CHECK_DEADLOCK FALSE
