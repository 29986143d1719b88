CONSTANTS
  r1 = r1
  m1 = m1
  m2 = m2
  n1 = n1
  p1 = p1
  p2 = p2
  None = None
  Run <- OneRun
  Message <- Nothing
  Note <- Nothing
  Process <- OneProcess
  ClaimTtl = 1
  Grace = 1
  MaxAttempts = 2
  MaxTracked = 3
  PostAttempts = 2
  AckAttempts = 2
  Faults = {"live", "claim", "post", "scan", "ack", "crash"}
  MaxFaults = 3
SPECIFICATION FairSpec
INVARIANTS
  ShownByOne
PROPERTIES
  EveryDeliveryResolved
  RefusalShown
