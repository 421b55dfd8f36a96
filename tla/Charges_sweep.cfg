SPECIFICATION ChargesFairSpec
CONSTANTS
  k1 = k1  m1 = m1  m2 = m2  j1 = j1  j2 = j2  w1 = w1  w2 = w2  c1 = c1
  Payers = {k1}
  Subs = {m1, m2}
  PayerOf <- OnePayer
  PriceOf <- Monthly
  Jobs = {j1, j2}
  OwnerOf <- OneJobEach
  PagesOf <- Pages
  CostOf <- Cost
  WalkIn = WalkIn
  Sweepers = {w1}
  Approvers = {c1}
  MaxDay = 2
  MaxLoads = 1
  LoadAmount <- Loaded
  MaxJobs = 1
  MaxFaults = 1
CHECK_DEADLOCK FALSE
INVARIANTS EachPeriodChargedOnce JobChargedOnce ChargedOnlyWhileRenewing
PROPERTY DueIsSettled
