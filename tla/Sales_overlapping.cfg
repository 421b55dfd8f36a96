SPECIFICATION Spec
CONSTANTS
  k1 = k1  s1 = s1  s2 = s2  s3 = s3  w1 = w1  w2 = w2
  Nobody = Nobody
  NoKey = NoKey
  Customers = {k1}
  Workers = {w1, w2}
  SaleIds = {s1, s2}
  Keys = {"key"}
  Carts <- SmallCarts
  Tenders = {1200}
  Amounts = {1200}
  Operations = {"sell", "order", "prepare", "callback", "devSettle", "refund", "cardRefund"}
  Coupon <- FixedOff
  TotalLimit = 1
  MaxRequests = 4
  MaxCrashes = 1
CHECK_DEADLOCK FALSE
SYMMETRY Symmetry
INVARIANTS OneSalePerKey PaidBeforeDelivered CouponOverrun
PROPERTY ImplementsPurchases
