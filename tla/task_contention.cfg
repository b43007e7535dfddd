\* Two tasks of one user, whose credits pay for one of them at a time; jobs stall.
SPECIFICATION Spec
CONSTANTS
  u1 = u1
  s1 = s1
  s2 = s2
  t1 = t1
  t2 = t2
  r1 = r1
  r2 = r2
  w1 = w1
  w2 = w2
  None = None
  Users = {u1}
  Tasks = {t1, t2}
  Sessions = {s1}
  Requests = {r1}
  Workers = {w1, w2}
  Owner <- SameOwner
  SessionOf <- SameSession
  Images <- Uneven
  FourK = {t1}
  InitialQuota = 4
  RetryLimit = 0
  InputVerdicts = {"approved", "review"}
  OutputVerdicts = {"approved", "review"}
  Faults = {"stall", "queue"}
SYMMETRY Symmetry
INVARIANTS NeverOverdrawn SingleExecution
PROPERTIES ImplementsBook
CHECK_DEADLOCK FALSE
