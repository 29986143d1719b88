CONSTANTS
  r1 = r1
  s1 = s1
  w1 = w1
  w2 = w2
  z1 = z1
  None = None
  NoKey = NoKey
  RunId <- OneRun
  Session <- OneSession
  Worker <- TwoWorkers
  Inline <- NoInline
  Blank <- NoRun
  Synthetic <- NoRun
  Sweeper <- OneSweeper
  MaxAttempts = 2
  MaxClaims = 2
  Ttl = 1
  MaxAge = 1
  MaxSweep = 0
  MaxInstant = 1
  ClaimBound = 2
  SessionTtl = 2
  MaxLeases = 2
  MaxLog = 9
  LostBeats = 1
  Faults = {"crash"}
  MaxFaults = 1
SPECIFICATION Spec
PROPERTIES
  RetryCanReacquire
CHECK_DEADLOCK FALSE
