SPECIFICATION Spec
CONSTANTS
  c1 = c1  c2 = c2  g1 = g1  g2 = g2  k1 = k1  k2 = k2
  s1 = s1  s2 = s2  s3 = s3  w1 = w1  w2 = w2
  Nobody = Nobody
  NoGroup = NoGroup
  Computers = {c1}
  Groups = {g1}
  Customers = {k1}
  SessionIds = {s1}
  Workers = {w1}
  Sources = {"MONEY_BALANCE"}
  Operations = {"open", "pause", "resume", "close"}
  Extras = {}
  GroupOf <- AllInFirst
  PriceList <- PricesRise
  FirstPrice <- AllStandard
  Restarts = {}
  Deposit <- Rich
  PerSecond = 2
  TickLength = 121
  MaxClock = 484
  MaxPlanned = 0
  MaxAccidents = 0
  MaxRequests = 6
  ClockWaits = TRUE
CHECK_DEADLOCK FALSE
INVARIANT BilledAtSnapshot
