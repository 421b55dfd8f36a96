------------------------------ MODULE MCSessions ------------------------------
(* Instances of Sessions for TLC.                                           *)
EXTENDS Sessions, TLC

CONSTANTS c1, c2, g1, g2, k1, k2, s1, s2, s3, w1, w2

Rate(price, ratio, minCharge, minMinutes, rule) ==
  [pricePerMinuteMinor |-> price, billingRatio |-> ratio, minChargeMinor |-> minCharge,
   minMinutes |-> minMinutes, roundingRule |-> rule]

Standard == Rate(30, 100, 50, 2, "NONE")
Dear == Rate(30, 150, 50, 2, "NONE")
Raised == Rate(300, 100, 50, 0, "NONE")
ByTheAgora == Rate(7, 150, 0, 0, "NONE")

(* Where the computers are.                                                *)
OnePerGroup == [c \in Computers |-> IF c = c1 THEN g1 ELSE g2]
SecondUngrouped == [c \in Computers |-> IF c = c1 THEN g1 ELSE NoGroup]
AllInFirst == [c \in Computers |-> g1]

(* What they cost.                                                         *)
DearAgora == [g \in Groups |-> IF g = g1 THEN Dear ELSE ByTheAgora]
AllStandard == [g \in Groups |-> Standard]

PricesFixed == [g \in Groups |-> {}]
PricesRise == [g \in Groups |-> {Raised}]

Rich == [u \in Units |-> 100000]
Poor == [u \in Units |-> IF u = "MONEY" THEN 100 ELSE 150]

(* Rows and workers are interchangeable.                                   *)
RowSymmetry == Permutations(SessionIds)
WorkerSymmetry == Permutations(SessionIds) \cup Permutations(Workers)
===============================================================================
