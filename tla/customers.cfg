\* Two users and one phone, and an upload; an administrator.
SPECIFICATION CustomersSpec
CONSTANTS
  Users = {u1, u2}
  Phones = {p}
  Gone = gone
  Codes = {c1, c2}
  Requests = {q1, q2}
  Keys = {k}
  Versions = {1, 2}
  Actions = {"RESTRICT", "BAN"}
  MaxAttempts = 1
  Uploads = {i1}
  PrivacyIds = {r1}
  Cleaners = {api, worker}
  Nothing = nothing
  MaxFailures = 1
  \* the pages
  Rows = {1, 2}
  Start <- MCStart
  MaxAsked = 1
  MaxActs = 2
INVARIANTS CustomersTypeOK AccountsInOrder UploadsInOrder ScreensInOrder
PROPERTIES PenaltyHasHit
CONSTRAINT MCOrderly
SYMMETRY MCSymmetry
CHECK_DEADLOCK FALSE
