SPECIFICATION Spec
CONSTANTS
  k1 = k1  s1 = s1  s2 = s2  s3 = s3  w1 = w1  w2 = w2
  Nobody = Nobody
  NoKey = NoKey
  Customers = {k1}
  Workers = {w1, w2}
  SaleIds = {s1}
  Keys = {"key"}
  Carts <- OneCart
  Tenders = {}
  Amounts = {}
  Operations = {"prepare", "callback"}
  Coupon <- FixedOff
  TotalLimit = 1
  MaxRequests = 3
  MaxCrashes = 0
CHECK_DEADLOCK FALSE
INVARIANT DeliveredAtMostOnce
