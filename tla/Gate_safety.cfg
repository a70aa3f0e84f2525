SPECIFICATION Spec
CONSTANTS
  r1 = r1
  r2 = r2
  r3 = r3
  Requests <- ThreeRequests
  Limits <- OneOrTwo
  Capacity = 2
  HangUps = TRUE
  Deadline = TRUE
  MaxReconfigs = 2
SYMMETRY Interchangeable
INVARIANTS
  GateAccounts
  NoIdleSlotWhileQueued
PROPERTIES
  ServesInOrder
