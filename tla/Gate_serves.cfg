SPECIFICATION FairSpec
CONSTANTS
  r1 = r1
  r2 = r2
  r3 = r3
  Requests <- ThreeRequests
  Limits <- OneOrTwo
  Capacity = 2
  HangUps = FALSE
  Deadline = FALSE
  MaxReconfigs = 0
PROPERTIES
  EveryWaiterIsServed
