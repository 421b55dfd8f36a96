SPECIFICATION Spec
CONSTANTS
  c1 = c1  c2 = c2  g1 = g1  g2 = g2  k1 = k1  k2 = k2
  s1 = s1  s2 = s2  s3 = s3  w1 = w1  w2 = w2
  Nobody = Nobody
  NoGroup = NoGroup
  Computers = {c1, c2}
  Groups = {g1, g2}
  Customers = {k1}
  SessionIds = {s1, s2}
  Workers = {w1}
  Sources = {"MONEY_BALANCE"}
  Operations = {"open", "addTime", "transfer", "pause", "resume", "close"}
  Extras = {30}
  GroupOf <- OnePerGroup
  PriceList <- PricesFixed
  FirstPrice <- DearAgora
  Restarts = {g1}
  Deposit <- Poor
  PerSecond = 2
  TickLength = 101
  MaxClock = 303
  MaxPlanned = 30
  MaxAccidents = 1
  MaxRequests = 5
  ClockWaits = TRUE
CHECK_DEADLOCK FALSE
SYMMETRY RowSymmetry
INVARIANTS InUseHasSession SecondsAddUp ChargedExactlyOnce OnlyUseIsBilled BilledAtSnapshot
