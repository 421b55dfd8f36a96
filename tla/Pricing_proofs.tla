---------------------------- MODULE Pricing_proofs ----------------------------
(***************************************************************************)
(* What the money arithmetic guarantees for every price, ratio, minimum    *)
(* and rounding rule, and what sums over rows do when rows come; the other *)
(* proofs cite both.                                                       *)
(***************************************************************************)
EXTENDS Pricing, Sums, SequenceTheorems, FiniteSetTheorems, WellFoundedInduction, TLAPS

(* The quotients that the code rounds to: never off by more than a half.   *)
LEMMA RoundCost ==
  ASSUME NEW n \in Nat
  PROVE  /\ RoundDiv(n, CostScale) \in Nat
         /\ 2 * n - CostScale < 2 * CostScale * RoundDiv(n, CostScale)
         /\ 2 * CostScale * RoundDiv(n, CostScale) <= 2 * n + CostScale
BY DEF RoundDiv, CostScale, RatioScale

LEMMA RoundUnit ==
  ASSUME NEW n \in Nat
  PROVE  /\ RoundDiv(n, MinorPerUnit) \in Nat
         /\ 2 * n - MinorPerUnit < 2 * MinorPerUnit * RoundDiv(n, MinorPerUnit)
         /\ 2 * MinorPerUnit * RoundDiv(n, MinorPerUnit) <= 2 * n + MinorPerUnit
BY DEF RoundDiv, MinorPerUnit

LEMMA CeilUnit ==
  ASSUME NEW n \in Nat
  PROVE  /\ CeilDiv(n, MinorPerUnit) \in Nat
         /\ n <= MinorPerUnit * CeilDiv(n, MinorPerUnit)
         /\ MinorPerUnit * CeilDiv(n, MinorPerUnit) < n + MinorPerUnit
BY DEF CeilDiv, MinorPerUnit

LEMMA ProductMonotone ==
  ASSUME NEW a \in Nat, NEW b \in Nat, NEW c \in Nat, a <= b
  PROVE  a * c \in Nat /\ a * c <= b * c
BY SMT

LEMMA ProductSum ==
  ASSUME NEW a \in Nat, NEW b \in Nat, NEW c \in Nat
  PROVE  (a + b) * c = a * c + b * c
BY SMT

-------------------------------------------------------------------------------
(* The exact cost is a natural number, grows with the time and adds up.    *)
LEMMA CostMonotone ==
  ASSUME NEW s \in Nat, NEW t \in Nat, NEW p \in Pricings, s <= t
  PROVE  ExactCost(s, p) \in Nat /\ ExactCost(s, p) <= ExactCost(t, p)
<1> DEFINE price == p.pricePerMinuteMinor
           ratio == p.billingRatio
<1>1. price \in Nat /\ ratio \in Nat
  BY DEF Pricings
<1> HIDE DEF price, ratio
<1>2. s * price \in Nat /\ t * price \in Nat /\ s * price <= t * price
  BY <1>1, ProductMonotone
<1>3. (s * price) * ratio \in Nat /\ (s * price) * ratio <= (t * price) * ratio
  BY <1>1, <1>2, ProductMonotone
<1> QED
  BY <1>3 DEF ExactCost, price, ratio

LEMMA CostAdds ==
  ASSUME NEW s \in Nat, NEW t \in Nat, NEW p \in Pricings
  PROVE  ExactCost(s + t, p) = ExactCost(s, p) + ExactCost(t, p)
<1> DEFINE price == p.pricePerMinuteMinor
           ratio == p.billingRatio
<1>1. price \in Nat /\ ratio \in Nat
  BY DEF Pricings
<1> HIDE DEF price, ratio
<1>2. (s + t) * price = s * price + t * price /\ s * price \in Nat /\ t * price \in Nat
  BY <1>1, ProductSum, ProductMonotone
<1>3. ((s + t) * price) * ratio = (s * price) * ratio + (t * price) * ratio
  BY <1>1, <1>2, ProductSum
<1> QED
  BY <1>3 DEF ExactCost, price, ratio

(* The charge of one segment: half an agora from the exact cost at most,   *)
(* and monotone.                                                           *)
LEMMA SegmentBounds ==
  ASSUME NEW s \in Nat, NEW p \in Pricings
  PROVE  /\ SegmentCharge(s, p) \in Nat
         /\ 2 * ExactCost(s, p) - CostScale < 2 * CostScale * SegmentCharge(s, p)
         /\ 2 * CostScale * SegmentCharge(s, p) <= 2 * ExactCost(s, p) + CostScale
BY RoundCost, CostMonotone DEF SegmentCharge

LEMMA RoundCostMonotone ==
  ASSUME NEW m \in Nat, NEW n \in Nat, m <= n
  PROVE  RoundDiv(m, CostScale) <= RoundDiv(n, CostScale)
BY DEF RoundDiv, CostScale, RatioScale

LEMMA SegmentMonotone ==
  ASSUME NEW s \in Nat, NEW t \in Nat, NEW p \in Pricings, s <= t
  PROVE  SegmentCharge(s, p) <= SegmentCharge(t, p)
BY CostMonotone, RoundCostMonotone DEF SegmentCharge

(* roundMinor: never below under UP, never further than half a unit under  *)
(* NEAREST, and monotone under every rule.                                 *)
LEMMA RoundMinorBounds ==
  ASSUME NEW n \in Nat, NEW rule \in RoundingRules
  PROVE  /\ RoundMinor(n, rule) \in Nat
         /\ rule = "NONE" => RoundMinor(n, rule) = n
         /\ rule = "UP" => n <= RoundMinor(n, rule) /\ RoundMinor(n, rule) < n + MinorPerUnit
         /\ rule = "NEAREST" =>
              /\ 2 * n - MinorPerUnit < 2 * RoundMinor(n, rule)
              /\ 2 * RoundMinor(n, rule) <= 2 * n + MinorPerUnit
<1>1. CASE rule = "NONE"
  BY <1>1 DEF RoundMinor
<1>2. CASE rule = "UP"
  BY <1>2, CeilUnit DEF RoundMinor, MinorPerUnit
<1>3. CASE rule = "NEAREST"
  BY <1>3, RoundUnit DEF RoundMinor, MinorPerUnit
<1> QED
  BY <1>1, <1>2, <1>3 DEF RoundingRules

LEMMA RoundMinorMonotone ==
  ASSUME NEW m \in Nat, NEW n \in Nat, NEW rule \in RoundingRules, m <= n
  PROVE  RoundMinor(m, rule) <= RoundMinor(n, rule)
<1>1. CASE rule = "NONE"
  BY <1>1 DEF RoundMinor
<1>2. CASE rule = "UP"
  BY <1>2 DEF RoundMinor, CeilDiv, MinorPerUnit
<1>3. CASE rule = "NEAREST"
  BY <1>3 DEF RoundMinor, RoundDiv, MinorPerUnit
<1> QED
  BY <1>1, <1>2, <1>3 DEF RoundingRules

-------------------------------------------------------------------------------
(* computeSessionCharge never charges less for more time, whatever the     *)
(* minimum time, the minimum charge and the rounding rule are.             *)
THEOREM ChargeMonotone ==
  ASSUME NEW s \in Nat, NEW t \in Nat, NEW p \in Pricings, s <= t
  PROVE  /\ ComputeSessionCharge(s, p) \in Nat
         /\ ComputeSessionCharge(s, p) <= ComputeSessionCharge(t, p)
<1> DEFINE billable(x) == Larger(x, p.minMinutes * 60)
           rounded(x) == RoundMinor(SegmentCharge(billable(x), p), p.roundingRule)
<1>1. p.minMinutes \in Nat /\ p.minChargeMinor \in Nat /\ p.roundingRule \in RoundingRules
  BY DEF Pricings
<1>2. billable(s) \in Nat /\ billable(t) \in Nat /\ billable(s) <= billable(t)
  BY <1>1 DEF Larger
<1> HIDE DEF billable
<1>3. /\ SegmentCharge(billable(s), p) \in Nat
      /\ SegmentCharge(billable(t), p) \in Nat
      /\ SegmentCharge(billable(s), p) <= SegmentCharge(billable(t), p)
  BY <1>2, SegmentBounds, SegmentMonotone
<1>4. rounded(s) \in Nat /\ rounded(t) \in Nat /\ rounded(s) <= rounded(t)
  BY <1>1, <1>3, RoundMinorBounds, RoundMinorMonotone
<1> HIDE DEF rounded
<1>5. \A x : ComputeSessionCharge(x, p) = Larger(rounded(x), p.minChargeMinor)
  BY DEF ComputeSessionCharge, rounded, billable
<1> QED
  BY <1>1, <1>4, <1>5 DEF Larger

(* Billing a stretch of use in two segments, as pause and transfer do,     *)
(* costs at most one agora more or less than billing it at once.           *)
THEOREM SplitIsNeutral ==
  ASSUME NEW s \in Nat, NEW t \in Nat, NEW p \in Pricings
  PROVE  SegmentCharge(s, p) + SegmentCharge(t, p) - SegmentCharge(s + t, p) \in -1 .. 1
<1> DEFINE a == SegmentCharge(s, p)
           b == SegmentCharge(t, p)
           c == SegmentCharge(s + t, p)
           x == ExactCost(s, p)
           y == ExactCost(t, p)
<1>1. x \in Nat /\ y \in Nat /\ ExactCost(s + t, p) = x + y
  <2>1. s <= s /\ t <= t
    OBVIOUS
  <2> QED
    BY <2>1, CostMonotone, CostAdds
<1>2. /\ a \in Nat /\ 2 * x - CostScale < 2 * CostScale * a
      /\ 2 * CostScale * a <= 2 * x + CostScale
  BY SegmentBounds
<1>3. /\ b \in Nat /\ 2 * y - CostScale < 2 * CostScale * b
      /\ 2 * CostScale * b <= 2 * y + CostScale
  BY SegmentBounds
<1>4. /\ c \in Nat /\ 2 * (x + y) - CostScale < 2 * CostScale * c
      /\ 2 * CostScale * c <= 2 * (x + y) + CostScale
  BY <1>1, SegmentBounds
<1> HIDE DEF a, b, c, x, y
<1>5. a + b - c \in -1 .. 1
  BY <1>1, <1>2, <1>3, <1>4 DEF CostScale, RatioScale
<1> QED
  BY <1>5 DEF a, b, c

(* A coupon never gives more than the goods cost, so no total is negative. *)
THEOREM DiscountWithinSubtotal ==
  ASSUME NEW coupon \in Coupons, NEW subtotal \in Nat
  PROVE  CouponDiscount(coupon, subtotal) \in 0 .. subtotal
<1>1. coupon.discountValue \in Nat /\ coupon.minPurchaseMinor \in Nat
  BY DEF Coupons
<1> DEFINE product == subtotal * coupon.discountValue
<1>2. product \in Nat
  BY <1>1, ProductMonotone
<1> HIDE DEF product
<1>3. RoundDiv(product, 100) \in Nat
  BY <1>2, RoundUnit DEF MinorPerUnit
<1>4. CASE subtotal < coupon.minPurchaseMinor
  BY <1>4 DEF CouponDiscount
<1>5. CASE ~ (subtotal < coupon.minPurchaseMinor) /\ coupon.discountType = "FIXED"
  BY <1>1, <1>5 DEF CouponDiscount, Smaller
<1>6. CASE ~ (subtotal < coupon.minPurchaseMinor) /\ coupon.discountType = "PERCENT"
  BY <1>3, <1>6 DEF CouponDiscount, Smaller, product
<1>7. CASE ~ (subtotal < coupon.minPurchaseMinor)
           /\ coupon.discountType \in {"BONUS_TIME", "BONUS_PRINT"}
  BY <1>7 DEF CouponDiscount
<1> QED
  BY <1>4, <1>5, <1>6, <1>7 DEF Coupons

-------------------------------------------------------------------------------
(* What a sum over a sequence does when a number is appended to it.  The   *)
(* sum is a recursive function, whose steps are counted by an induction    *)
(* over a set of numbers that can be named.                                *)

(* Induction over the numbers up to L, for a set S that can be named: what  *)
(* the sums over sequences of the model are reasoned about with.           *)
LEMMA UpTo ==
  ASSUME NEW L \in Nat, NEW S, 0 \in S,
         \A n \in 1 .. L : n - 1 \in S => n \in S
  PROVE  \A n \in 0 .. L : n \in S
<1> DEFINE T == {n \in 0 .. L : n \notin S}
           R == OpToRel(<, Nat)
<1>1. SUFFICES ASSUME T # {} PROVE FALSE
  BY Zenon
<1>2. \A x \in T : x \in Nat
  OBVIOUS
<1>3. T \subseteq Nat
  BY <1>2, Zenon
<1>4. \A x, y \in Nat : x < y => <<x, y>> \in R
  BY DEF OpToRel
<1>5. IsWellFoundedOn(R, Nat)
  BY NatLessThanWellFounded
<1> HIDE DEF R
<1>6. PICK m \in T : \A y \in T : <<y, m>> \notin R
  BY <1>1, <1>3, <1>5, WFMin
<1>7. m \in 1 .. L /\ m \notin S
  OBVIOUS
<1>8. m - 1 \in T
  BY <1>7
<1>9. <<m - 1, m>> \in R
  BY <1>4, <1>7
<1> QED
  BY <1>6, <1>8, <1>9

(* A function that is defined step by step up to L exists: the recursive   *)
(* functions of the model are the choice of such a function.               *)
DefinedStepwise(L, D) ==
  \A base \in D, step \in [1 .. L -> [D -> D]] :
    \E f \in [0 .. L -> D] : f[0] = base /\ \A n \in 1 .. L : f[n] = step[n][f[n - 1]]

LEMMA Stepwise ==
  ASSUME NEW L \in Nat, NEW D
  PROVE  DefinedStepwise(L, D)
<1> SUFFICES ASSUME NEW base \in D, NEW step \in [1 .. L -> [D -> D]]
             PROVE  \E f \in [0 .. L -> D] :
                      f[0] = base /\ \A n \in 1 .. L : f[n] = step[n][f[n - 1]]
  BY DEF DefinedStepwise
<1> DEFINE Good(m) == \E f \in [0 .. m -> D] :
                        f = [n \in 0 .. m |-> IF n = 0 THEN base ELSE step[n][f[n - 1]]]
           S == {m \in 0 .. L : Good(m)}
<1>1. Good(0)
  <2> DEFINE f == [n \in 0 .. 0 |-> base]
  <2>1. f \in [0 .. 0 -> D]
    OBVIOUS
  <2>2. f = [n \in 0 .. 0 |-> IF n = 0 THEN base ELSE step[n][f[n - 1]]]
    OBVIOUS
  <2> QED
    BY <2>1, <2>2
<1>2. ASSUME NEW m \in 1 .. L, Good(m - 1)
      PROVE  Good(m)
  <2> PICK g \in [0 .. m - 1 -> D] :
             g = [n \in 0 .. m - 1 |-> IF n = 0 THEN base ELSE step[n][g[n - 1]]]
    BY <1>2
  <2> DEFINE f == [n \in 0 .. m |-> IF n = m THEN step[m][g[m - 1]] ELSE g[n]]
  <2>0. m \in Nat /\ m - 1 \in 0 .. m - 1 /\ step[m] \in [D -> D] /\ g[m - 1] \in D
    OBVIOUS
  <2>1. f \in [0 .. m -> D]
    BY <2>0
  <2>2. ASSUME NEW n \in 0 .. m
        PROVE  f[n] = IF n = 0 THEN base ELSE step[n][f[n - 1]]
    <3>1. CASE n = m
      BY <2>0, <3>1
    <3>2. CASE n # m
      <4>1. n \in 0 .. m - 1 /\ (n # 0 => n - 1 \in 0 .. m - 1)
        BY <3>2
      <4>2. g[n] = IF n = 0 THEN base ELSE step[n][g[n - 1]]
        BY <4>1
      <4>3. f[n] = g[n] /\ (n # 0 => f[n - 1] = g[n - 1])
        BY <3>2, <4>1
      <4> QED
        BY <4>2, <4>3
    <3> QED
      BY <3>1, <3>2
  <2>3. f = [n \in 0 .. m |-> IF n = 0 THEN base ELSE step[n][f[n - 1]]]
    <3> DEFINE e == [n \in 0 .. m |-> IF n = 0 THEN base ELSE step[n][f[n - 1]]]
    <3>1. \A n \in 0 .. m : f[n] = e[n]
      BY <2>2
    <3> QED
      BY <3>1
  <2> QED
    BY <2>1, <2>3
<1> HIDE DEF Good
<1>3. 0 \in S /\ \A n \in 1 .. L : n - 1 \in S => n \in S
  BY <1>1, <1>2
<1>4. \A n \in 0 .. L : n \in S
  <2> HIDE DEF S
  <2> QED
    BY <1>3, UpTo, Zenon
<1>5. L \in S
  BY <1>4
<1>6. PICK f \in [0 .. L -> D] :
             f = [n \in 0 .. L |-> IF n = 0 THEN base ELSE step[n][f[n - 1]]]
  BY <1>5 DEF Good
<1>7. f[0] = base /\ \A n \in 1 .. L : f[n] = step[n][f[n - 1]]
  <2>1. 0 \in 0 .. L /\ \A n \in 1 .. L : n \in 0 .. L /\ n # 0
    OBVIOUS
  <2> QED
    BY <1>6, <2>1
<1> QED
  BY <1>7

-------------------------------------------------------------------------------
(* SumOf adds up a sequence number by number.                              *)
LEMMA PartialSums ==
  ASSUME NEW s \in Seq(Int)
  PROVE  \E sum \in [0 .. Len(s) -> Int] :
           /\ sum[0] = 0
           /\ \A n \in 1 .. Len(s) : sum[n] = sum[n - 1] + s[n]
           /\ SumOf(s) = sum[Len(s)]
<1> DEFINE L == Len(s)
           step == [n \in 1 .. L |-> [x \in Int |-> x + s[n]]]
           Sums(f) == f = [n \in 0 .. L |-> IF n = 0 THEN 0 ELSE f[n - 1] + s[n]]
           chosen == CHOOSE f : Sums(f)
<1>1. L \in Nat /\ \A n \in 1 .. L : s[n] \in Int
  OBVIOUS
<1>7. SumOf(s) = chosen[L]
  BY Zenon DEF SumOf
<1> HIDE DEF L
<1>2. step \in [1 .. L -> [Int -> Int]]
  BY <1>1
<1>3. PICK f \in [0 .. L -> Int] : f[0] = 0 /\ \A n \in 1 .. L : f[n] = step[n][f[n - 1]]
  <2>1. 0 \in Int
    OBVIOUS
  <2>2. DefinedStepwise(L, Int)
    BY <1>1, Stepwise
  <2> HIDE DEF step
  <2> QED
    BY <1>2, <2>1, <2>2, Zenon DEF DefinedStepwise
<1>4. \A n \in 1 .. L : f[n - 1] \in Int /\ f[n] = f[n - 1] + s[n]
  <2> TAKE n \in 1 .. L
  <2>1. f[n - 1] \in Int
    BY <1>1
  <2>2. step[n][f[n - 1]] = f[n - 1] + s[n]
    BY <1>1, <2>1
  <2> QED
    BY <1>3, <2>1, <2>2
<1> HIDE DEF step
<1>5. Sums(f)
  <2> DEFINE e == [n \in 0 .. L |-> IF n = 0 THEN 0 ELSE f[n - 1] + s[n]]
  <2>1. ASSUME NEW n \in 0 .. L PROVE f[n] = e[n]
    <3>1. n = 0 \/ n \in 1 .. L
      BY <1>1
    <3> QED
      BY <1>3, <1>4, <3>1
  <2> QED
    BY <2>1
<1>6. Sums(chosen)
  BY <1>5, Zenon
<1> HIDE DEF chosen
<1>8. chosen \in [0 .. L -> Int]
  <2>1. chosen = [n \in 0 .. L |-> IF n = 0 THEN 0 ELSE chosen[n - 1] + s[n]]
    BY <1>6
  <2> DEFINE S == {n \in 0 .. L : chosen[n] \in Int}
  <2>2. 0 \in S
    BY <1>1, <2>1
  <2>3. \A n \in 1 .. L : n - 1 \in S => n \in S
    BY <1>1, <2>1, SMTT(30)
  <2>4. \A n \in 0 .. L : n \in S
    <3> HIDE DEF S
    <3> QED
      BY <1>1, <2>2, <2>3, UpTo, Zenon
  <2> QED
    BY <2>1, <2>4
<1>9. chosen[0] = 0 /\ \A n \in 1 .. L : chosen[n] = chosen[n - 1] + s[n]
  BY <1>1, <1>6
<1> QED
  BY <1>7, <1>8, <1>9 DEF L

(* Two sequences of partial sums agree as far as their numbers do, so a    *)
(* number appended is a number added.                                      *)
LEMMA SumAppend ==
  ASSUME NEW s \in Seq(Int), NEW x \in Int
  PROVE  SumOf(s) \in Int /\ SumOf(Append(s, x)) = SumOf(s) + x
<1> DEFINE t == Append(s, x)
           L == Len(s)
<1>1. /\ L \in Nat /\ t \in Seq(Int) /\ Len(t) = L + 1 /\ t[L + 1] = x
      /\ \A n \in 1 .. L : t[n] = s[n] /\ s[n] \in Int
  BY AppendProperties
<1> HIDE DEF t
<1>2. PICK f \in [0 .. Len(s) -> Int] :
             /\ f[0] = 0
             /\ \A n \in 1 .. Len(s) : f[n] = f[n - 1] + s[n]
             /\ SumOf(s) = f[Len(s)]
  BY PartialSums, Zenon
<1>3. PICK g \in [0 .. Len(t) -> Int] :
             /\ g[0] = 0
             /\ \A n \in 1 .. Len(t) : g[n] = g[n - 1] + t[n]
             /\ SumOf(t) = g[Len(t)]
  BY <1>1, PartialSums, Zenon
<1> HIDE DEF L
<1> DEFINE S == {n \in 0 .. L : f[n] = g[n]}
<1>4. 0 \in S /\ \A n \in 1 .. L : n - 1 \in S => n \in S
  BY <1>1, <1>2, <1>3 DEF L
<1>5. \A n \in 0 .. L : n \in S
  <2> HIDE DEF S
  <2> QED
    BY <1>1, <1>4, UpTo, Zenon
<1>6. f[L] = g[L] /\ f[L] \in Int
  BY <1>1, <1>5 DEF L
<1>7. g[L + 1] = g[L] + x
  <2>1. L + 1 \in 1 .. Len(t) /\ L + 1 - 1 = L
    BY <1>1
  <2> QED
    BY <1>1, <1>3, <2>1
<1> QED
  BY <1>1, <1>2, <1>3, <1>6, <1>7 DEF L, t

(* A sum of naturals is one, and a sum of zeros is zero.                   *)
LEMMA SumNatural ==
  ASSUME NEW s \in Seq(Nat)
  PROVE  SumOf(s) \in Nat
<1> DEFINE L == Len(s)
<1>1. L \in Nat /\ s \in Seq(Int) /\ \A n \in 1 .. L : s[n] \in Nat
  OBVIOUS
<1>2. PICK f \in [0 .. Len(s) -> Int] :
             /\ f[0] = 0
             /\ \A n \in 1 .. Len(s) : f[n] = f[n - 1] + s[n]
             /\ SumOf(s) = f[Len(s)]
  BY <1>1, PartialSums, Zenon
<1> DEFINE S == {n \in 0 .. L : f[n] \in Nat}
<1> HIDE DEF L
<1>3. 0 \in S /\ \A n \in 1 .. L : n - 1 \in S => n \in S
  <2>1. f[0] = 0 /\ \A n \in 1 .. L : f[n] = f[n - 1] + s[n]
    BY <1>2 DEF L
  <2> QED
    BY <1>1, <2>1
<1>4. \A n \in 0 .. L : n \in S
  <2> HIDE DEF S
  <2> QED
    BY <1>1, <1>3, UpTo, Zenon
<1> QED
  BY <1>1, <1>2, <1>4 DEF L

LEMMA SumZero ==
  ASSUME NEW s \in Seq(Int), \A n \in 1 .. Len(s) : s[n] = 0
  PROVE  SumOf(s) = 0
<1> DEFINE L == Len(s)
<1>1. L \in Nat
  OBVIOUS
<1>2. PICK f \in [0 .. Len(s) -> Int] :
             /\ f[0] = 0
             /\ \A n \in 1 .. Len(s) : f[n] = f[n - 1] + s[n]
             /\ SumOf(s) = f[Len(s)]
  BY PartialSums, Zenon
<1> DEFINE S == {n \in 0 .. L : f[n] = 0}
<1> HIDE DEF L
<1>3. 0 \in S /\ \A n \in 1 .. L : n - 1 \in S => n \in S
  BY <1>1, <1>2 DEF L
<1>4. \A n \in 0 .. L : n \in S
  <2> HIDE DEF S
  <2> QED
    BY <1>1, <1>3, UpTo, Zenon
<1> QED
  BY <1>1, <1>2, <1>4 DEF L

-------------------------------------------------------------------------------
(* What the elements of a sequence come to, each for what f makes of it.   *)
Mapped(f, q) == [n \in 1 .. Len(q) |-> f[q[n]]]

(* The sum of what f makes of the elements grows by what f makes of a new  *)
(* one, and is zero when f makes nothing of any.                           *)
LEMMA SumMapped ==
  ASSUME NEW T, NEW f \in [T -> Int], NEW q \in Seq(T), NEW x \in T
  PROVE  /\ SumOf(Mapped(f, q)) \in Int
         /\ SumOf(Mapped(f, Append(q, x))) = SumOf(Mapped(f, q)) + f[x]
<1> DEFINE longer == Append(q, x)
<1>1. /\ longer \in Seq(T) /\ Len(longer) = Len(q) + 1 /\ longer[Len(q) + 1] = x
      /\ \A n \in 1 .. Len(q) : longer[n] = q[n]
  BY AppendProperties
<1>2. Len(q) \in Nat /\ \A n \in 1 .. Len(q) : q[n] \in T
  OBVIOUS
<1> HIDE DEF longer
<1>3. Mapped(f, q) \in Seq(Int) /\ Len(Mapped(f, q)) = Len(q)
      /\ \A n \in 1 .. Len(q) : Mapped(f, q)[n] = f[q[n]]
  BY <1>2 DEF Mapped
<1>4. \A n \in 1 .. Len(q) + 1 : longer[n] \in T
  BY <1>1
<1>5. Mapped(f, longer) \in Seq(Int) /\ Len(Mapped(f, longer)) = Len(q) + 1
      /\ \A n \in 1 .. Len(q) + 1 : Mapped(f, longer)[n] = f[longer[n]]
  BY <1>1, <1>2, <1>4 DEF Mapped
<1> DEFINE old == Mapped(f, q)
           y == f[x]
<1>6. y \in Int /\ f[longer[Len(q) + 1]] = y
  BY <1>1
<1>7. Mapped(f, longer) = Append(old, y)
  <2> HIDE DEF old, y
  <2>1. /\ Append(old, y) \in Seq(Int) /\ Len(Append(old, y)) = Len(q) + 1
        /\ Append(old, y)[Len(q) + 1] = y
        /\ \A n \in 1 .. Len(q) : Append(old, y)[n] = old[n]
    BY <1>3, <1>6, AppendProperties DEF old
  <2>2. ASSUME NEW n \in 1 .. Len(q) + 1 PROVE Mapped(f, longer)[n] = Append(old, y)[n]
    <3>1. CASE n \in 1 .. Len(q)
      <4>1. Mapped(f, longer)[n] = f[longer[n]] /\ longer[n] = q[n]
        BY <1>1, <1>5, <3>1
      <4>2. old[n] = f[q[n]] /\ Append(old, y)[n] = old[n]
        BY <1>3, <2>1, <3>1 DEF old
      <4> QED
        BY <4>1, <4>2
    <3>2. CASE n = Len(q) + 1
      <4>1. Mapped(f, longer)[n] = f[longer[n]]
        BY <1>5
      <4> QED
        BY <1>6, <2>1, <3>2, <4>1
    <3>3. n \in 1 .. Len(q) \/ n = Len(q) + 1
      BY <1>2
    <3> QED
      BY <3>1, <3>2, <3>3
  <2> QED
    BY <1>5, <2>1, <2>2, SeqEqual
<1> HIDE DEF old, y
<1>8. SumOf(old) \in Int /\ SumOf(Append(old, y)) = SumOf(old) + y
  BY <1>3, <1>6, SumAppend DEF old
<1> QED
  BY <1>7, <1>8, Zenon DEF old, y, longer

LEMMA NothingMapped ==
  ASSUME NEW T, NEW f \in [T -> Int], NEW q \in Seq(T), \A n \in 1 .. Len(q) : f[q[n]] = 0
  PROVE  SumOf(Mapped(f, q)) = 0
<1>1. Mapped(f, q) \in Seq(Int) /\ \A n \in 1 .. Len(Mapped(f, q)) : Mapped(f, q)[n] = 0
  <2>1. Len(q) \in Nat /\ \A n \in 1 .. Len(q) : q[n] \in T
    OBVIOUS
  <2> QED
    BY <2>1 DEF Mapped
<1> QED
  BY <1>1, SumZero

-------------------------------------------------------------------------------
(* Sums over a finite set, one element after the other, as FoldSet makes   *)
(* them: iter has the sum of every subset.                                 *)
AnyOf(s) == CHOOSE x \in s : TRUE
OneFewer(iter, w, s) == IF s = {} THEN 0 ELSE iter[s \ {AnyOf(s)}] + w[AnyOf(s)]
AddsUp(iter, w, S) == iter = [s \in SUBSET S |-> OneFewer(iter, w, s)]

LEMMA AnyOfIsIn ==
  ASSUME NEW s, s # {} PROVE AnyOf(s) \in s
BY DEF AnyOf

(* The sizes of the subsets of a finite set.                               *)
LEMMA Sizes ==
  ASSUME NEW S, IsFiniteSet(S)
  PROVE  /\ Cardinality(S) \in Nat
         /\ \A s \in SUBSET S : Cardinality(s) \in 0 .. Cardinality(S)
         /\ \A s \in SUBSET S : Cardinality(s) = 0 <=> s = {}
         /\ \A s \in SUBSET S : \A x \in s : Cardinality(s \ {x}) = Cardinality(s) - 1
<1> DEFINE L == Cardinality(S)
<1>1. L \in Nat
  BY FS_CardinalityType
<1>2. ASSUME NEW s \in SUBSET S
      PROVE  IsFiniteSet(s) /\ Cardinality(s) \in Nat /\ Cardinality(s) <= L
  BY FS_Subset, FS_CardinalityType
<1> HIDE DEF L
<1>3. \A s \in SUBSET S : Cardinality(s) = 0 <=> s = {}
  BY <1>2, FS_EmptySet
<1>4. \A s \in SUBSET S : \A x \in s : Cardinality(s \ {x}) = Cardinality(s) - 1
  BY <1>2, FS_RemoveElement
<1> QED
  BY <1>1, <1>2, <1>3, <1>4 DEF L

(* What holds of a set when it holds of its subsets with one element fewer *)
(* holds of all finite sets.                                               *)
LEMMA BySize ==
  ASSUME NEW S, IsFiniteSet(S), NEW Good,
         \A s \in SUBSET S : (\A x \in s : s \ {x} \in Good) => s \in Good
  PROVE  \A s \in SUBSET S : s \in Good
<1> DEFINE L == Cardinality(S)
           G == {n \in 0 .. L : \A s \in SUBSET S : Cardinality(s) = n => s \in Good}
<1>1. /\ L \in Nat /\ \A s \in SUBSET S : Cardinality(s) \in 0 .. L
      /\ \A s \in SUBSET S : Cardinality(s) = 0 <=> s = {}
      /\ \A s \in SUBSET S : \A x \in s : Cardinality(s \ {x}) = Cardinality(s) - 1
  BY Sizes
<1> HIDE DEF L
<1>2. 0 \in G
  BY <1>1
<1>3. ASSUME NEW n \in 1 .. L, n - 1 \in G PROVE n \in G
  <2> SUFFICES ASSUME NEW s \in SUBSET S, Cardinality(s) = n PROVE s \in Good
    BY <1>1
  <2>1. ASSUME NEW x \in s PROVE s \ {x} \in Good
    <3>1. s \ {x} \in SUBSET S /\ Cardinality(s \ {x}) = n - 1
      BY <1>1
    <3> QED
      BY <1>3, <3>1
  <2> QED
    BY <2>1
<1>4. \A n \in 0 .. L : n \in G
  <2> HIDE DEF G
  <2> QED
    BY <1>1, <1>2, <1>3, UpTo, Zenon
<1> QED
  BY <1>1, <1>4

(* Such a function exists: each round makes it right for sets that have    *)
(* one element more.                                                       *)
LEMMA SumsExist ==
  ASSUME NEW S, IsFiniteSet(S), NEW w \in [S -> Int]
  PROVE  \E iter \in [SUBSET S -> Int] : AddsUp(iter, w, S)
<1> DEFINE L == Cardinality(S)
           Right(f, n) == \A s \in SUBSET S : Cardinality(s) <= n => f[s] = OneFewer(f, w, s)
           G == {n \in 0 .. L : \E f \in [SUBSET S -> Int] : Right(f, n)}
<1>1. /\ L \in Nat /\ \A s \in SUBSET S : Cardinality(s) \in 0 .. L
      /\ \A s \in SUBSET S : Cardinality(s) = 0 <=> s = {}
      /\ \A s \in SUBSET S : \A x \in s : Cardinality(s \ {x}) = Cardinality(s) - 1
  BY Sizes
<1> HIDE DEF L
<1>2. 0 \in G
  <2> DEFINE f == [s \in SUBSET S |-> 0]
  <2>1. f \in [SUBSET S -> Int]
    OBVIOUS
  <2>2. \A s \in SUBSET S : Cardinality(s) <= 0 => s = {}
    BY <1>1
  <2>3. Right(f, 0)
    BY <2>2 DEF OneFewer
  <2> HIDE DEF f
  <2> QED
    BY <1>1, <2>1, <2>3
<1>3. ASSUME NEW n \in 1 .. L, n - 1 \in G PROVE n \in G
  <2> PICK f \in [SUBSET S -> Int] : Right(f, n - 1)
    BY <1>3
  <2> DEFINE g == [s \in SUBSET S |-> OneFewer(f, w, s)]
  <2>1. ASSUME NEW s \in SUBSET S, s # {}
        PROVE  /\ AnyOf(s) \in S /\ s \ {AnyOf(s)} \in SUBSET S
               /\ Cardinality(s \ {AnyOf(s)}) = Cardinality(s) - 1
    BY <1>1, <2>1, AnyOfIsIn
  <2>2. g \in [SUBSET S -> Int]
    <3>1. ASSUME NEW s \in SUBSET S PROVE OneFewer(f, w, s) \in Int
      <4>1. CASE s = {}
        BY <4>1 DEF OneFewer
      <4>2. CASE s # {}
        <5>1. f[s \ {AnyOf(s)}] \in Int /\ w[AnyOf(s)] \in Int
          BY <2>1, <4>2
        <5> QED
          BY <4>2, <5>1 DEF OneFewer
      <4> QED
        BY <4>1, <4>2
    <3> QED
      BY <3>1
  <2>3. ASSUME NEW s \in SUBSET S, Cardinality(s) <= n PROVE g[s] = OneFewer(g, w, s)
    <3>1. CASE s = {}
      BY <3>1 DEF OneFewer
    <3>2. CASE s # {}
      <4> DEFINE t == s \ {AnyOf(s)}
      <4>1. t \in SUBSET S /\ Cardinality(t) <= n - 1
        BY <1>1, <2>1, <2>3, <3>2
      <4>2. f[t] = OneFewer(f, w, t)
        BY <4>1
      <4>3. g[t] = f[t]
        BY <4>1, <4>2
      <4>4. g[s] = f[t] + w[AnyOf(s)] /\ OneFewer(g, w, s) = g[t] + w[AnyOf(s)]
        BY <3>2 DEF OneFewer
      <4> QED
        BY <4>3, <4>4
    <3> QED
      BY <3>1, <3>2
  <2> HIDE DEF g
  <2> QED
    BY <2>2, <2>3
<1>4. \A n \in 0 .. L : n \in G
  <2> HIDE DEF G
  <2> QED
    BY <1>1, <1>2, <1>3, UpTo, Zenon
<1>5. PICK f \in [SUBSET S -> Int] : Right(f, L)
  <2>1. L \in G
    <3>1. L \in 0 .. L
      BY <1>1
    <3> HIDE DEF G
    <3> QED
      BY <1>4, <3>1
  <2> HIDE DEF Right
  <2> QED
    BY <2>1
<1>6. \A s \in SUBSET S : f[s] = OneFewer(f, w, s)
  BY <1>1, <1>5
<1> QED
  BY <1>6 DEF AddsUp

(* The order does not matter: any element can be the last.                 *)
OneByOne(iter, w, S) ==
  iter[{}] = 0 /\ \A s \in SUBSET S : \A x \in s : iter[s] = iter[s \ {x}] + w[x]

LEMMA AnyOrder ==
  ASSUME NEW S, IsFiniteSet(S), NEW w \in [S -> Int], NEW iter, AddsUp(iter, w, S)
  PROVE  iter \in [SUBSET S -> Int] /\ OneByOne(iter, w, S)
<1>1. \A s \in SUBSET S : iter[s] = OneFewer(iter, w, s)
  BY DEF AddsUp
<1>2. \A s \in SUBSET S : s # {} => AnyOf(s) \in s /\ iter[s] = iter[s \ {AnyOf(s)}] + w[AnyOf(s)]
  BY <1>1, AnyOfIsIn DEF OneFewer
<1>3. iter[{}] = 0
  BY <1>1 DEF OneFewer
<1> DEFINE Numbers == {s \in SUBSET S : iter[s] \in Int}
<1>4. ASSUME NEW s \in SUBSET S, \A x \in s : s \ {x} \in Numbers
      PROVE  s \in Numbers
  <2>1. CASE s = {}
    BY <1>3, <2>1
  <2>2. CASE s # {}
    <3> DEFINE c == AnyOf(s)
    <3>1. c \in s /\ iter[s] = iter[s \ {c}] + w[c]
      BY <1>2, <2>2
    <3> HIDE DEF c
    <3>2. iter[s \ {c}] \in Int /\ w[c] \in Int
      BY <1>4, <3>1
    <3> QED
      BY <3>1, <3>2
  <2> QED
    BY <2>1, <2>2
<1>5. \A s \in SUBSET S : iter[s] \in Int
  <2>1. \A s \in SUBSET S : s \in Numbers
    <3> HIDE DEF Numbers
    <3> QED
      BY <1>4, BySize, Zenon
  <2> QED
    BY <2>1
<1> DEFINE Good == {s \in SUBSET S : \A x \in s : iter[s] = iter[s \ {x}] + w[x]}
<1>6. ASSUME NEW s \in SUBSET S, \A x \in s : s \ {x} \in Good
      PROVE  s \in Good
  <2> SUFFICES ASSUME NEW x \in s PROVE iter[s] = iter[s \ {x}] + w[x]
    OBVIOUS
  <2> DEFINE c == AnyOf(s)
  <2>1. c \in s /\ iter[s] = iter[s \ {c}] + w[c]
    BY <1>2
  <2> HIDE DEF c
  <2>2. CASE x = c
    BY <2>1, <2>2
  <2>3. CASE x # c
    <3> DEFINE both == s \ {c, x}
    <3>1. (s \ {c}) \ {x} = both /\ (s \ {x}) \ {c} = both /\ x \in s \ {c} /\ c \in s \ {x}
      BY <2>1, <2>3
    <3>2. iter[s \ {c}] = iter[both] + w[x] /\ iter[s \ {x}] = iter[both] + w[c]
      BY <1>6, <2>1, <3>1
    <3>3. iter[both] \in Int /\ w[x] \in Int /\ w[c] \in Int
      BY <1>5, <2>1
    <3> HIDE DEF both
    <3> QED
      BY <2>1, <3>2, <3>3
  <2> QED
    BY <2>2, <2>3
<1>7. \A s \in SUBSET S : \A x \in s : iter[s] = iter[s \ {x}] + w[x]
  <2>1. \A s \in SUBSET S : s \in Good
    <3> HIDE DEF Good
    <3> QED
      BY <1>6, BySize, Zenon
  <2> QED
    BY <2>1
<1>8. iter \in [SUBSET S -> Int]
  BY <1>5 DEF AddsUp
<1> QED
  BY <1>3, <1>7, <1>8 DEF OneByOne

(* Two such sums agree on a set where their weights do.                    *)
LEMMA SumsAgree ==
  ASSUME NEW S, IsFiniteSet(S), NEW iter, NEW w, OneByOne(iter, w, S),
         NEW T, S \subseteq T, NEW other, NEW v, OneByOne(other, v, T),
         \A x \in S : v[x] = w[x]
  PROVE  iter[S] = other[S]
<1> DEFINE Good == {s \in SUBSET S : iter[s] = other[s]}
<1>1. ASSUME NEW s \in SUBSET S, \A x \in s : s \ {x} \in Good
      PROVE  s \in Good
  <2>1. CASE s = {}
    BY <2>1 DEF OneByOne
  <2>2. CASE s # {}
    <3> PICK x \in s : TRUE
      BY <2>2
    <3>1. /\ iter[s] = iter[s \ {x}] + w[x] /\ other[s] = other[s \ {x}] + v[x]
          /\ iter[s \ {x}] = other[s \ {x}] /\ v[x] = w[x]
      BY <1>1 DEF OneByOne
    <3> QED
      BY <3>1
  <2> QED
    BY <2>1, <2>2
<1>2. \A s \in SUBSET S : s \in Good
  <2> HIDE DEF Good
  <2> QED
    BY <1>1, BySize, Zenon
<1> QED
  BY <1>2
===============================================================================
