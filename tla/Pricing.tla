------------------------------- MODULE Pricing -------------------------------
(***************************************************************************)
(* The money arithmetic of the program: packages/shared/src/money.ts and   *)
(* the formulas of the sessions, coupons and sales services.  Amounts are  *)
(* whole minor units (agorot).  A billing ratio is a number with at most   *)
(* two decimals and is held in hundredths, so that the code's floating     *)
(* point expressions are exact fractions here; Math.round becomes          *)
(* RoundDiv on the fraction.                                               *)
(***************************************************************************)
EXTENDS Integers

RatioScale == 100
MinorPerUnit == 100

RoundingRules == {"UP", "NEAREST", "NONE"}

(* What the billing code reads of a ComputerGroup.                         *)
Pricings == [pricePerMinuteMinor : Nat, billingRatio : Nat, minChargeMinor : Nat,
             minMinutes : Nat, roundingRule : RoundingRules]

Larger(a, b) == IF a < b THEN b ELSE a
Smaller(a, b) == IF a < b THEN a ELSE b

(* Math.ceil and Math.round of n/d.                                        *)
CeilDiv(n, d) == (n + d - 1) \div d
RoundDiv(n, d) == (2 * n + d) \div (2 * d)

RoundingPastWhole(minor, rule) ==
  CASE rule = "NONE"    -> minor
    [] rule = "UP"      -> (minor \div MinorPerUnit + 1) * MinorPerUnit
    [] rule = "NEAREST" -> RoundDiv(minor, MinorPerUnit) * MinorPerUnit
RoundMinor(minor, rule) ==
  CASE rule = "NONE"    -> minor
    [] rule = "UP"      -> CeilDiv(minor, MinorPerUnit) * MinorPerUnit
    [] rule = "NEAREST" -> RoundDiv(minor, MinorPerUnit) * MinorPerUnit

(* The exact cost of a stretch of use, as a fraction over CostScale.       *)
CostScale == 60 * RatioScale
ExactCost(seconds, p) == seconds * p.pricePerMinuteMinor * p.billingRatio

SegmentCharge(seconds, p) == RoundDiv(ExactCost(seconds, p), CostScale)

ComputeSessionCharge(seconds, p) ==
  Larger(RoundMinor(SegmentCharge(Larger(seconds, p.minMinutes * 60), p), p.roundingRule),
         p.minChargeMinor)

(* Package time that a session consumes at ratio r: Math.round(seconds*r). *)
RatioIgnored(seconds, ratio) == seconds
TimeUnits(seconds, ratio) == RoundDiv(seconds * ratio, RatioScale)

-------------------------------------------------------------------------------
(* Sales.                                                                  *)

Coupons == [discountType : {"PERCENT", "FIXED", "BONUS_TIME", "BONUS_PRINT"},
            discountValue : Nat, minPurchaseMinor : Nat]

CouponDiscount(coupon, subtotal) ==
  IF subtotal < coupon.minPurchaseMinor THEN 0
  ELSE CASE coupon.discountType = "FIXED"   -> Smaller(coupon.discountValue, subtotal)
         [] coupon.discountType = "PERCENT" ->
              Smaller(RoundDiv(subtotal * coupon.discountValue, 100), subtotal)
         [] OTHER -> 0

(* The VAT contained in a tax-inclusive total, for a percentage vat.       *)
VatPortion(total, vat) == RoundDiv(total * vat, 100 + vat)

(* One point per ten shekels.                                              *)
LoyaltyPoints(total) == total \div 1000
===============================================================================
