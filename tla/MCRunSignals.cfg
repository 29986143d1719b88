CONSTANTS
  m1 = m1
  m2 = m2
  m3 = m3
  p1 = p1
  p2 = p2
  s1 = s1
  None = None
  Message = {m1, m2, m3}
  Process = {p1, p2}
  Thread = s1
  SessionId <- MCThread
  Reply = Reply
  Record = {m1, m2, m3, Reply}
  SessionTtl = 1
  MaxLeases = 6
  MaxLog = 7
  First = m1
  MaxSpells = 2
  Kinds = {"plain", "stop", "blank", "bare", "auto"}
  Faults = {"error", "crash", "stall", "replay", "steer", "persist"}
  MaxEvents = 3
SPECIFICATION FairSignalsSpec
ACTION_CONSTRAINT FirstClaimByP1
INVARIANTS
  SignalsTypeOK
  InOnePlace
  SteeredIsRecorded
  RecordedInOrder
  RepeatsOnlyWhatIsPast
  WritersInTurn
PROPERTY EveryMessageSettles
CHECK_DEADLOCK FALSE
