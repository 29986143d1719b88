CONSTANTS
  p1 = p1
  p2 = p2
  c1 = c1
  c2 = c2
  Nowhere = Nowhere
  Process = {p1, p2}
  Call = {c1}
  Key <- MCKey
  Type = {"slack", "principal"}
  ClaimTtl = 1
  Content <- MCContent
  Every = 1
  Period = 1
  MaxTime = 1
  Faults = {"throw", "crash", "lock", "stop"}
  MaxEvents = 1
SPECIFICATION FairCronSpec
PROPERTIES
  CatchesUp
  ImplementsTriggers
CHECK_DEADLOCK FALSE
