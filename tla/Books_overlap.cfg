SPECIFICATION Spec
CONSTANTS
  p1 = p1
  p2 = p2
  r1 = r1
  r2 = r2
  r3 = r3
  k1 = k1
  k2 = k2
  Nobody = Nobody
  Procs <- TwoProcesses
  Requests <- TwoRequests
  Keys = {k1}
  KeyOf <- OneKey
  Overlap = TRUE
  Unvoids = FALSE
  Capacity = 2
  Batch = 2
  Booked = 2
  Charge <- Charged
  Minimum = 0
  MaxFailures = 1
  MaxInvoices = 2
INVARIANT
  ChainVerifies
CHECK_DEADLOCK FALSE
