SPECIFICATION Spec
CONSTANTS
  c1 = c1  c2 = c2  g1 = g1  g2 = g2  k1 = k1  k2 = k2
  s1 = s1  s2 = s2  s3 = s3  w1 = w1  w2 = w2
  Nobody = Nobody
  NoGroup = NoGroup
  Computers = {c1, c2}
  Groups = {g1}
  Customers = {k1}
  SessionIds = {s1, s2}
  Workers = {w1, w2}
  Sources = {"MONEY_BALANCE"}
  Operations = {"open", "transfer", "close"}
  Extras = {}
  GroupOf <- SecondUngrouped
  PriceList <- PricesFixed
  FirstPrice <- AllStandard
  Restarts = {}
  Deposit <- Poor
  PerSecond = 2
  TickLength = 121
  MaxClock = 121
  MaxPlanned = 0
  MaxAccidents = 0
  MaxRequests = 3
  ClockWaits = FALSE
CHECK_DEADLOCK FALSE
SYMMETRY WorkerSymmetry
INVARIANT ExclusiveSessions
