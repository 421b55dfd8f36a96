SPECIFICATION Spec
CONSTANTS
  c1 = c1  c2 = c2  g1 = g1  g2 = g2  k1 = k1  k2 = k2
  s1 = s1  s2 = s2  s3 = s3  w1 = w1  w2 = w2
  Nobody = Nobody
  NoGroup = NoGroup
  Computers = {c1}
  Groups = {g1}
  Customers = {k1}
  SessionIds = {s1, s2}
  Workers = {w1, w2}
  Sources = {"MONEY_BALANCE"}
  Operations = {"open", "pause", "resume", "close"}
  Extras = {}
  GroupOf <- AllInFirst
  PriceList <- PricesRise
  FirstPrice <- AllStandard
  Restarts = {}
  Deposit <- Poor
  PerSecond = 2
  TickLength = 121
  MaxClock = 242
  MaxPlanned = 0
  MaxAccidents = 1
  MaxRequests = 4
  ClockWaits = FALSE
CHECK_DEADLOCK FALSE
SYMMETRY WorkerSymmetry
INVARIANT EndedAmountWasCharged
