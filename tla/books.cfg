\* Two payers, one of whom buys tasks, and an account of credits that two
\* workers reconcile.
SPECIFICATION BooksSpec
CONSTANTS
  u1 = u1 u2 = u2 t1 = t1 t2 = t2 t3 = t3 t4 = t4 plan1 = plan1
  \* paid billing
  None = None
  Payers = {u1, u2}
  Plans = {plan1}
  Orders = {o1}
  Codes = {v1}
  TaskKeys = {t1, t2}
  Events = {q1, q2}
  RefundKeys = {c1, c2}
  CashKeys = {k1}
  TaskUser <- MCUser
  Need <- MCNeed
  Images <- MCImages
  PriceCents <- MCPrice
  UnitCents = 1
  GrantCents = 1
  MaxFlight = 2
  \* reconciliation
  NoTask = NoTask
  GenerationTasks = {t1, t2}
  TotalCost <- MCTotalCost
  Granted = 3
  Workers = {q1, q2}
  MaxWindow = 2
  MaxFaults = 1
  MaxCrashes = 1
  \* credits
  Users = {u1, u2}
  Tasks = {t1, t2, t3, t4}
  Owner <- MCOwner
  Cost <- MCCost
  MaxCost = 2
  InitialQuota = 4
  \* prices
  MaxRuleVersion = 3
  UnitPrices = {3, 10}
  Promotions = {half}
  Discounts = {5000}
  Administrators = {q1, q2}
  Buyers = {b1}
  ImageCounts = {1, 8}
  NoPrice = NoPrice
INVARIANTS BooksTypeOK CashIsAccounted PaidOnce AlwaysCovered RepairedOnce AlwaysPriced
PROPERTIES ImplementsPurse RepairsKeepBooks
SYMMETRY MCSymmetry
CHECK_DEADLOCK FALSE
