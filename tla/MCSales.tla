-------------------------------- MODULE MCSales --------------------------------
(* Instances of Sales for TLC.                                              *)
EXTENDS Sales, TLC

CONSTANTS k1, s1, s2, s3, w1, w2

Line(kind, price, quantity, credits) ==
  [kind |-> kind, unitPriceMinor |-> price, quantity |-> quantity, credits |-> credits]

Drink == Line("PRODUCT", 800, 2, Nothing)
Hours == Line("PACKAGE", 1000, 2, [Nothing EXCEPT !["TIME_SECONDS"] = 60])

SmallCarts == {<< Drink >>, << Hours >>}
OneCart == {<< Hours >>}

FixedOff == [discountType |-> "FIXED", discountValue |-> 1800, minPurchaseMinor |-> 1000]

Symmetry == Permutations(SaleIds) \cup Permutations(Workers)
===============================================================================
