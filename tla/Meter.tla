------------------------------ MODULE Meter ---------------------------------
(***************************************************************************)
(* A taximeter: it picks the rates of a computer group, lets the time run  *)
(* and shows at every step what close would charge for a session that      *)
(* stayed on one computer and was never paused.                            *)
(***************************************************************************)
EXTENDS Pricing

CONSTANTS
  Prices, Ratios, MinCharges, MinMinutes,  \* what a manager may set for a group
  Step,                                    \* seconds between two readings
  MaxSeconds                               \* bound: the length of the session

ASSUME RatesAssumption == Prices \cup Ratios \cup MinCharges \cup MinMinutes \subseteq Nat
ASSUME StepAssumption == Step \in Nat /\ MaxSeconds \in Nat

VARIABLES pricing, seconds, quote

meterVars == <<pricing, seconds, quote>>

Tariffs == [pricePerMinuteMinor : Prices, billingRatio : Ratios,
            minChargeMinor : MinCharges, minMinutes : MinMinutes,
            roundingRule : RoundingRules]

MeterInit ==
  /\ pricing \in Tariffs
  /\ seconds = 0
  /\ quote = ComputeSessionCharge(0, pricing)

TimeRuns ==
  /\ seconds + Step <= MaxSeconds
  /\ seconds' = seconds + Step
  /\ quote' = ComputeSessionCharge(seconds', pricing)
  /\ UNCHANGED pricing

MeterSpec == MeterInit /\ [][TimeRuns]_meterVars

-------------------------------------------------------------------------------
(* The bill of computeSessionCharge is never off by more than the rounding *)
(* rule allows: it covers the time used, or the minimum time, up to half   *)
(* an agora, and unless the minimum charge applies it exceeds that cost by *)
(* less than one whole unit.                                               *)
Billable == Larger(seconds, pricing.minMinutes * 60)
Slack(rule) == CASE rule = "UP" -> 0 [] rule = "NONE" -> 0 [] rule = "NEAREST" -> 50 * CostScale
BillIsExact ==
  LET cost == ExactCost(Billable, pricing)
      bill == quote * CostScale
  IN  /\ 2 * bill + CostScale + 2 * Slack(pricing.roundingRule) >= 2 * cost
      /\ quote > pricing.minChargeMinor =>
           CASE pricing.roundingRule = "NONE"    -> 2 * bill <= 2 * cost + CostScale
             [] pricing.roundingRule = "UP"      -> bill < cost + MinorPerUnit * CostScale
             [] pricing.roundingRule = "NEAREST" -> 2 * bill <= 2 * cost + 101 * CostScale

(* More use never costs less: the minimum time, the minimum charge and the *)
(* rounding of computeSessionCharge leave no point where waiting a little  *)
(* makes the bill smaller.                                                 *)
MoreUseNeverCostsLess == [][quote' >= quote]_meterVars

(* Billing a stretch in two segments, as pause and transfer do, costs at   *)
(* most one agora more or less than billing it at once.                    *)
SplittingIsNeutral ==
  \A first \in 0 .. seconds :
    SegmentCharge(first, pricing) + SegmentCharge(seconds - first, pricing)
      - SegmentCharge(seconds, pricing) \in -1 .. 1
===============================================================================
