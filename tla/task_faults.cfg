\* One task, two workers and one request; only the queue is reliable.
SPECIFICATION Spec
CONSTANTS
  u1 = u1
  s1 = s1
  s2 = s2
  t1 = t1
  t2 = t2
  r1 = r1
  r2 = r2
  w1 = w1
  w2 = w2
  None = None
  Users = {u1}
  Tasks = {t1}
  Sessions = {s1}
  Requests = {r1}
  Workers = {w1, w2}
  Owner <- SameOwner
  SessionOf <- SameSession
  Images <- OneImage
  FourK = {}
  InitialQuota = 2
  RetryLimit = 1
  InputVerdicts = {"approved", "review"}
  OutputVerdicts = {"approved", "review", "rejected"}
  Faults = {"crash", "stall", "db"}
INVARIANTS SettledOnce QuotaMatchesLedger DeliveredIsPaid
PROPERTIES LegalTransitions
SYMMETRY Symmetry
CHECK_DEADLOCK FALSE
