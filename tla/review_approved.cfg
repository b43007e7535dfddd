\* A prompt is approved by a moderator.
SPECIFICATION FairReviewSpec
CONSTANTS
  u1 = u1
  s1 = s1
  s2 = s2
  t1 = t1
  t2 = t2
  r1 = r1
  w1 = w1
  w2 = w2
  d1 = d1
  d2 = d2
  None = None
  Users = {u1}
  Tasks = {t1}
  Sessions = {s1}
  Requests = {r1}
  Workers = {w1}
  Decisions = {d1}
  Judgements = {"approved"}
  Owner <- SameOwner
  SessionOf <- SameSession
  Images <- OneImage
  FourK = {}
  InitialQuota = 2
  RetryLimit = 0
  InputVerdicts = {"approved", "review"}
  OutputVerdicts = {"approved"}
  Faults = {}
PROPERTY ApprovedIsRun
CHECK_DEADLOCK FALSE
