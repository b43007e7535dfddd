\* Two requests that decide, a prompt and two images; a small catalogue and gallery.
SPECIFICATION StudioSpec
CONSTANTS
  u1 = u1
  s1 = s1
  s2 = s2
  t1 = t1
  t2 = t2
  r1 = r1
  w1 = w1
  w2 = w2
  d1 = d1
  d2 = d2
  None = None
  Users = {u1}
  Tasks = {t1}
  Sessions = {s1}
  Requests = {r1}
  Workers = {w1}
  Decisions = {d1, d2}
  Judgements = {"approved", "rejected"}
  Owner <- SameOwner
  SessionOf <- SameSession
  Images <- TwoImages
  FourK = {}
  InitialQuota = 4
  RetryLimit = 0
  InputVerdicts = {"approved", "review"}
  OutputVerdicts = {"approved", "review", "rejected"}
  Faults = {"crash", "queue"}
  x1 = x1
  x2 = x2
  \* catalogue
  Providers = {c1, c2}
  Models = {m}
  Revisions = {1, 2}
  Window = 2
  Ranks <- MCRanks
  Operations = {q1, q2}
  \* images
  Works = {t1}
  Executions = {x1, x2}
  WorkOf <- MCWorkOf
  ImageCount = 2
  Inspirations = {c1, c2}
  NoInspiration = NoInspiration
  \* calls
  Frames = {g1, g2, g3}
  HttpStatuses = {400, 401, 408, 429, 500}
  MaxTries = 4
  \* workspace
  Chats = {q1, q2}
  NoChat = NoChat
  Blank = Blank
  Absent = Absent
  Removed = Removed
  MaxEdits = 2
INVARIANTS StudioTypeOK DecidableAndPaid CatalogueInOrder OutputsInOrder OnlyPassedDelivered DraftsInOrder
CONSTRAINT MCOrderly
SYMMETRY MCSymmetry
CHECK_DEADLOCK FALSE
