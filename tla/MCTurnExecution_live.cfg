CONSTANTS
  r1 = r1
  s1 = s1
  w1 = w1
  w2 = w2
  z1 = z1
  None = None
  NoKey = NoKey
  RunId <- OneRun
  Session <- OneSession
  Worker <- OneWorker
  Inline <- NoInline
  Blank <- OneRun
  Synthetic <- NoRun
  Sweeper <- OneSweeper
  MaxAttempts = 2
  MaxClaims = 2
  Ttl = 1
  MaxAge = 1
  MaxSweep = 0
  MaxInstant = 1
  ClaimBound = 3
  SessionTtl = 2
  MaxLeases = 3
  MaxLog = 9
  LostBeats = 2
  Faults = {"stop", "crash", "throw"}
  MaxFaults = 1
SPECIFICATION FairSpec
PROPERTIES
  EveryRunSettles
CHECK_DEADLOCK FALSE
