CONSTANTS
  r1 = r1
  m1 = m1
  m2 = m2
  n1 = n1
  p1 = p1
  p2 = p2
  None = None
  Run <- OneRun
  Message <- TwoMessages
  Note <- OneNote
  Process <- TwoProcesses
  ClaimTtl = 1
  Grace = 1
  MaxAttempts = 2
  MaxTracked = 1
  PostAttempts = 2
  AckAttempts = 2
  Faults = {"listener", "live", "claim", "post", "scan", "ack", "crash"}
  MaxFaults = 2
SPECIFICATION Spec
INVARIANTS
  TypeOK
  AckedWasShown
  CopyPostedOnce
  MessagePostedOnce
  AckSticks
PROPERTY QueuedOnce
CONSTRAINT OneConcern
ACTION_CONSTRAINT NoRestart
SYMMETRY Alike
