CONSTANTS
  p1 = p1
  p2 = p2
  c1 = c1
  c2 = c2
  Nowhere = Nowhere
  Process = {p1}
  Call = {c1}
  Key <- MCKey
  Type = {"slack", "principal"}
  ClaimTtl = 1
  Content <- MCContent
  Every = 1
  Period = 1
  MaxTime = 1
  Faults = {"throw"}
  MaxEvents = 2
SPECIFICATION FairCronSpec
PROPERTIES
  StaleSlotsDoNotFire
CHECK_DEADLOCK FALSE
