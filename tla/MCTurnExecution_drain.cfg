CONSTANTS
  r1 = r1
  s1 = s1
  w1 = w1
  w2 = w2
  z1 = z1
  None = None
  NoKey = NoKey
  RunId <- OneRun
  Session <- OneSession
  Worker <- TwoWorkers
  Inline <- OneInline
  Blank <- NoRun
  Synthetic <- OneRun
  Sweeper <- OneSweeper
  MaxAttempts = 2
  MaxClaims = 2
  Ttl = 1
  MaxAge = 0
  MaxSweep = 0
  MaxInstant = 1
  ClaimBound = 2
  SessionTtl = 1
  MaxLeases = 2
  MaxLog = 9
  LostBeats = 1
  Faults = {"stop", "release"}
  MaxFaults = 2
SPECIFICATION Spec
PROPERTIES
  ImplementsRunStore
  ImplementsSessionStore
ACTION_CONSTRAINT SettlesAtOnce
CHECK_DEADLOCK FALSE
