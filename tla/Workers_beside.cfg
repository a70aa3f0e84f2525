SPECIFICATION Spec
CONSTANTS
  r1 = r1  r2 = r2  r3 = r3  r4 = r4
  t1 = t1  t2 = t2  t3 = t3
  en = en  cjk = cjk
  k1 = k1  k2 = k2
  None = None
  Alone = Alone
  Traced <- MCRequests
  Capacity = 2
  BatchSize = 2
  SampleRate = "some"
  MaxSwitches = 2
  Tasks <- MCTasks
  Names <- MCNames
  MaxCalls = 3
  MaxInstalls = 1
  MaxSaves = 1
  Relays <- MCRelays
  Together = 2
  MaxKills = 1
  Keepers <- MCKeepers
  MaxAsked = 4
  MaxMishaps = 2
INVARIANTS
  SpansAccounted
  CountsWithTheDisk
  OneGeneration
  BinaryIsThere
PROPERTY
  BroughtBack
CHECK_DEADLOCK FALSE
