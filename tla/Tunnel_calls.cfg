SPECIFICATION FairSpec
CONSTANTS
  None = None
  Ensure = Ensure
  Callers = {c1, c2}
  Procs = {t1, t2, t3}
  AutoStart = TRUE
  MaxCalls = 2
  MaxMishaps = 2
INVARIANTS
  OneWanted
  HandleIsOfTheLiving
PROPERTIES
  EveryCallReturns
CHECK_DEADLOCK FALSE
