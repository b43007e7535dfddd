\* Nothing dies, but the queue may be unavailable and connections may break.
SPECIFICATION LiveSpec
CONSTANTS
  MaxEvents = 5
  MaxDrops = 2
  MaxFetches = 2
  PageSize = 2
  u1 = u1
  s1 = s1
  s2 = s2
  t1 = t1
  t2 = t2
  r1 = r1
  r2 = r2
  w1 = w1
  w2 = w2
  None = None
  Users = {u1}
  Tasks = {t1}
  Sessions = {s1}
  Requests = {r1, r2}
  Workers = {w1, w2}
  Owner <- SameOwner
  SessionOf <- SameSession
  Images <- OneImage
  FourK = {}
  InitialQuota = 2
  RetryLimit = 2
  InputVerdicts = {"approved", "review"}
  OutputVerdicts = {"approved", "review", "rejected"}
  Faults = {"queue"}
INVARIANTS InGoodHands AttemptsCountedOnce LiveTypeOK
PROPERTIES EventuallySettled CatchesUp
CHECK_DEADLOCK FALSE
