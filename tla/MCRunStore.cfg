CONSTANTS
  r1 = r1
  r2 = r2
  s1 = s1
  s2 = s2
  w1 = w1
  w2 = w2
  z1 = z1
  k1 = k1
  Worker <- MCWorker
  Sweeper <- MCSweeper
  NoKey = NoKey
  None = None
  Ttl = 1
  MaxSweep = 1
  RunId <- TwoRuns
  Session <- TwoSessions
  DedupKey <- OneKey
  MaxAttempts = 2
  MaxClaims = 3
  MaxAge = 2
  MaxInstant = 1
  ClaimBound = 4
SPECIFICATION Spec
SYMMETRY Symmetry
CONSTRAINT PairBounds
INVARIANTS
  TypeOK
  LeaseIffRunning
  ResultOfLastClaim
  ErrorBudgetRespected
  ClaimsCapped
  SettledOnce
  OneRunningPerSession
PROPERTIES
  TerminalIsFinal
  ReapsOnlyLapsed
  ImplementsQueue
CHECK_DEADLOCK FALSE
