SPECIFICATION FairSpec
CONSTANTS
  c1 = c1
  c2 = c2
  Free = Free
  Refs <- MCRefs
  Customers = {c1, c2}
  Workers = {w1, w2}
  Jobs <- TwoCustomers
  MaxJobs = 4
CHECK_DEADLOCK FALSE
PROPERTIES ImplementsLedger EveryTxEnds
