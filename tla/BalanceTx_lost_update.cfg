SPECIFICATION Spec
CONSTANTS
  c1 = c1
  c2 = c2
  Free = Free
  Refs <- MCRefs
  Customers = {c1}
  Workers = {w1, w2}
  Jobs <- OneCustomer
  MaxJobs = 4
CHECK_DEADLOCK FALSE
INVARIANT Reconstructable
