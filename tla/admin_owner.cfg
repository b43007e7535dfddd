\* Two owners suspend each other at the same time.
SPECIFICATION StaffSpec
CONSTANTS
  \* accounts
  Admins = {root, b}
  FirstAdmin = root
  Roles = {owner, staff}
  OwnerRole = owner
  Builtin = {owner}
  Grants <- MCGrants
  StaffCodes = {c1, c2}
  Handlers = {q1, q2}
  MaxAttempts = 1
  \* reviews
  u1 = u1
  s1 = s1
  s2 = s2
  t1 = t1
  t2 = t2
  r1 = r1
  w1 = w1
  w2 = w2
  d1 = d1
  d2 = d2
  None = None
  Users = {u1}
  Tasks = {t1}
  Sessions = {s1}
  Requests = {r1}
  Workers = {w1, w2}
  Decisions = {d1}
  Judgements = {"approved", "rejected"}
  Owner <- SameOwner
  SessionOf <- SameSession
  Images <- OneImage
  FourK = {}
  InitialQuota = 2
  RetryLimit = 1
  InputVerdicts = {"approved"}
  OutputVerdicts = {"approved", "review", "rejected"}
  Faults = {"crash", "stall", "queue"}
  \* appeals
  Moderators = {q1, q2}
  Pictures = {i1, i2}
  AppealIds = {c1, c2}
  Nobody = Nobody
INVARIANT OwnerAlwaysRemains
SYMMETRY MCSymmetry
CHECK_DEADLOCK FALSE
