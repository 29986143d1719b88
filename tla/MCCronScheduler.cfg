CONSTANTS
  p1 = p1
  p2 = p2
  c1 = c1
  c2 = c2
  Nowhere = Nowhere
  Process = {p1, p2}
  Call = {c1, c2}
  Key <- MCKey
  Type = {"slack", "principal"}
  ClaimTtl = 1
  Content <- MCContent
  Every = 1
  Period = 1
  MaxTime = 2
  Faults = {"throw", "crash", "lock", "stop"}
  MaxEvents = 1
SPECIFICATION CronSpec
SYMMETRY Alike
CONSTRAINTS NotOvertaken Backlog OneWithheld
INVARIANTS
  CronTypeOK
  LastSlotKept
  ClaimedByOne
  CommittedIsDone
CHECK_DEADLOCK FALSE
