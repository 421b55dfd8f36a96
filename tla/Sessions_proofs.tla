---------------------------- MODULE Sessions_proofs ----------------------------
(***************************************************************************)
(* Proofs about Sessions, for every set of computers, groups, customers,   *)
(* sessions and requests and for all prices: type correctness, that no     *)
(* charge overdraws a balance however requests overlap, and that what an   *)
(* ended session states was charged.                                       *)
(***************************************************************************)
EXTENDS Sessions, Pricing_proofs

(* The values that Init and every arriving request start from.             *)
LEMMA ConstantTypes ==
  /\ SomeComputer \in Computers
  /\ DefaultPricing \in Pricings
  /\ NoSession \in Session
  /\ Idle \in Request
  /\ NoHistory \in History
<1>1. SomeComputer \in Computers
  BY SetsAssumption DEF SomeComputer
<1>2. DefaultPricing \in Pricings
  BY DEF DefaultPricing, Pricings, RatioScale, RoundingRules
<1>3. NoSession \in Session
  BY <1>1, <1>2 DEF NoSession, Session, BillingSources
<1>4. Idle \in Request
  BY <1>1, <1>2, <1>3 DEF Idle, Request, BillingSources
<1>5. NoHistory \in History
  BY DEF NoHistory, History
<1> QED
  BY <1>1, <1>2, <1>3, <1>4, <1>5

LEMMA PostedType ==
  ASSUME NEW acct \in Accounts(Refs), NEW read \in Int, NEW amount \in Int, NEW ref \in Refs
  PROVE  Posted(acct, read, amount, ref) \in Accounts(Refs)
<1>1. SetCached(acct, read + amount) \in Accounts(Refs)
  BY DEF SetCached, Accounts
<1>2. ASSUME NEW a \in Accounts(Refs)
      PROVE  AppendRow(a, read, amount, ref) \in Accounts(Refs)
  <2> DEFINE row == [amount |-> amount, balanceAfter |-> read + amount, ref |-> ref]
  <2>1. row \in Rows(Refs)
    BY DEF Rows
  <2> HIDE DEF row
  <2>2. Append(a.rows, row) \in Seq(Rows(Refs))
    BY <2>1 DEF Accounts
  <2>3. [a EXCEPT !.rows = Append(a.rows, row)] \in Accounts(Refs)
    BY <2>2 DEF Accounts
  <2> QED
    BY <2>3 DEF AppendRow, row
<1> QED
  BY <1>1, <1>2 DEF Posted

LEMMA FundedType == Funded \in [Units -> Accounts(Refs)]
<1>1. EmptyAccount \in Accounts(Refs)
  BY DEF EmptyAccount, Accounts
<1>2. ASSUME NEW u \in Units
      PROVE  Posted(EmptyAccount, 0, Deposit[u], "load") \in Accounts(Refs)
  <2>1. Deposit[u] \in Int /\ "load" \in Refs /\ 0 \in Int
    BY BoundsAssumption DEF Refs
  <2> QED
    BY <1>1, <2>1, PostedType
<1> QED
  BY <1>2 DEF Funded

LEMMA PricingType ==
  ASSUME TypeOK, NEW c \in Computers
  PROVE  PricingOf(c) \in Pricings
BY ConstantTypes, RatesAssumption DEF TypeOK, PricingOf

LEMMA RequestType ==
  ASSUME TypeOK, NEW w \in Workers
  PROVE  req[w] \in Request
BY DEF TypeOK

-------------------------------------------------------------------------------
(* What close computes is a natural number, whatever row it has loaded.    *)
LEMMA ChargeTypes ==
  ASSUME TypeOK, NEW w \in Workers
  PROVE  /\ SinceCheckpoint(w) \in Nat /\ LastSegment(w) \in Nat
         /\ SegmentCost(w) \in Nat
         /\ TotalSeconds(w) \in Nat /\ FinalTotal(w) \in Nat
         /\ Charge(w) \in Nat
<1> DEFINE row == req[w].row
           price == req[w].price
<1>1. /\ row \in Session /\ price \in Pricings /\ req[w].at \in Nat
      /\ row.billedThroughAt \in Nat /\ row.secondsBilled \in Nat /\ row.amountMinor \in Nat
      /\ price.billingRatio \in Nat /\ price.minChargeMinor \in Nat
      /\ price.roundingRule \in RoundingRules
  BY RequestType DEF Request, Session, Pricings
<1> HIDE DEF row, price
<1>2. SinceCheckpoint(w) \in Nat
  <2>1. UnitsSince(w) \in Nat
    BY <1>1 DEF UnitsSince, Larger, row
  <2>2. PerSecond \in Nat /\ PerSecond > 0
    BY BoundsAssumption
  <2> QED
    BY <2>1, <2>2 DEF SinceCheckpoint
<1>3. LastSegment(w) \in Nat
  BY <1>2 DEF LastSegment
<1>4. SegmentCost(w) \in Nat /\ SegmentCharge(LastSegment(w), price) \in Nat
  BY <1>1, <1>2, <1>3, SegmentBounds DEF SegmentCost, price
<1>5. TotalSeconds(w) \in Nat
  BY <1>1, <1>3 DEF TotalSeconds, row
<1>6. ComputeSessionCharge(TotalSeconds(w), price) \in Nat
  <2>1. TotalSeconds(w) <= TotalSeconds(w)
    BY <1>5
  <2> QED
    BY <1>1, <1>5, <2>1, ChargeMonotone
<1>7. FinalTotal(w) \in Nat
  <2> DEFINE sum == row.amountMinor + SegmentCharge(LastSegment(w), price)
  <2>1. sum \in Nat
    BY <1>1, <1>4
  <2> HIDE DEF sum
  <2>2. RoundMinor(sum, price.roundingRule) \in Nat
    BY <1>1, <2>1, RoundMinorBounds
  <2>3. Larger(RoundMinor(sum, price.roundingRule), price.minChargeMinor) \in Nat
    BY <1>1, <2>2 DEF Larger
  <2>4. CASE row.source = "FREE"
    BY <2>4 DEF FinalTotal, row
  <2>5. CASE row.source # "FREE" /\ row.amountMinor > 0
    <3>1. ~ (row.amountMinor <= 0)
      BY <1>1, <2>5
    <3>2. FinalTotal(w) = Larger(RoundMinor(sum, price.roundingRule), price.minChargeMinor)
      BY <2>5, <3>1, Zenon DEF FinalTotal, sum, row, price
    <3> QED
      BY <2>3, <3>2
  <2>6. CASE row.source # "FREE" /\ ~ (row.amountMinor > 0)
    <3>1. row.amountMinor <= 0
      BY <1>1, <2>6
    <3> QED
      BY <1>6, <2>6, <3>1 DEF FinalTotal, row, price
  <2> QED
    BY <2>4, <2>5, <2>6
<1>8. TimeUnits(TotalSeconds(w), price.billingRatio) \in Nat
  <2> DEFINE product == TotalSeconds(w) * price.billingRatio
  <2>1. product \in Nat
    BY <1>1, <1>5, ProductMonotone
  <2> HIDE DEF product
  <2>2. RoundDiv(product, RatioScale) \in Nat
    BY <2>1, RoundUnit DEF MinorPerUnit, RatioScale
  <2> QED
    BY <2>2 DEF TimeUnits, product
<1> QED
  BY <1>2, <1>3, <1>4, <1>5, <1>7, <1>8 DEF Charge, price

(* Every row that an operation writes is a row of usage_sessions.          *)
LEMMA RowTypes ==
  ASSUME TypeOK, NEW w \in Workers, req[w].id \in SessionIds
  PROVE  /\ Extended(w) \in Session /\ Paused(w) \in Session /\ Resumed(w) \in Session
         /\ Moved(w) \in Session /\ Ended(w) \in Session
<1>1. req[w] \in Request /\ req[w].row \in Session
  BY RequestType DEF Request
<1>2. Row(w) \in Session
  BY DEF Row, TypeOK
<1>3. /\ req[w].row.secondsBilled + SinceCheckpoint(w) \in Nat
      /\ req[w].row.amountMinor + SegmentCost(w) \in Nat
      /\ req[w].row.pausedSeconds + SinceCheckpoint(w) \in Nat
      /\ req[w].row.plannedSeconds + req[w].extra \in Nat
      /\ req[w].at \in Nat
  BY <1>1, ChargeTypes DEF Request, Session
<1>4. Billed(w) \in Session
  BY <1>2, <1>3 DEF Billed, Session
<1>5. Extended(w) \in Session
  BY <1>2, <1>3 DEF Extended, Session
<1>6. Paused(w) \in Session
  BY <1>4 DEF Paused, Session
<1>7. Resumed(w) \in Session
  BY <1>2, <1>3 DEF Resumed, Session
<1>8. Moved(w) \in Session
  <2>1. req[w].computer \in Computers /\ req[w].toPrice \in Pricings
    BY <1>1 DEF Request
  <2> QED
    BY <1>4, <2>1 DEF Moved, Session
<1>9. Ended(w) \in Session
  BY <1>2, <1>3, ChargeTypes DEF Ended, Session
<1> QED
  BY <1>5, <1>6, <1>7, <1>8, <1>9

-------------------------------------------------------------------------------
(* Type correctness.  A request beyond loadActive knows its session.       *)
Loaded == {"addTime", "pause", "resume", "transfer", "move", "close", "pay"}
LoadedOK == \A w \in Workers : req[w].pc \in Loaded => req[w].id \in SessionIds
TypeInv == TypeOK /\ LoadedOK

(* A step that changes only the record of one request, or ends it.         *)
RequestsOK ==
  req \in [Workers -> Request] /\ \A w \in Workers : req[w].pc \in Loaded => req[w].id \in SessionIds

LEMMA OneRequest ==
  ASSUME TypeInv, NEW w \in Workers, NEW r \in Request, req' = [req EXCEPT ![w] = r],
         r.pc \in Loaded => r.id \in SessionIds
  PROVE  RequestsOK'
BY DEF TypeInv, TypeOK, LoadedOK, RequestsOK

LEMMA FinishOK ==
  ASSUME TypeInv, NEW w \in Workers, Finish(w)
  PROVE  RequestsOK'
<1>1. Idle \in Request /\ ~ (Idle.pc \in Loaded)
  BY ConstantTypes DEF Idle, Loaded
<1>2. req' = [req EXCEPT ![w] = Idle]
  BY DEF Finish
<1> QED
  BY <1>1, <1>2, OneRequest

LEMMA TypesTogether ==
  ASSUME RequestsOK', clock' \in Nat,
         status' \in [Computers -> {"AVAILABLE", "IN_USE", "MAINTENANCE", "DISCONNECTED"}],
         rates' \in [Groups -> Pricings], sessions' \in [SessionIds -> Session],
         accounts' \in [Customers -> [Units -> Accounts(Refs)]],
         meter' \in [SessionIds -> History], requests' \in Nat, accidents' \in Nat
  PROVE  TypeInv'
BY DEF TypeInv, TypeOK, LoadedOK, RequestsOK

(* The arrival of a request.                                               *)
LEMMA ArrivalTypes ==
  ASSUME TypeInv, NEW w \in Workers, NEW op, NEW r \in Request, Arrives(w, op, r),
         r.pc \in Loaded => r.id \in SessionIds,
         UNCHANGED <<clock, status, rates, sessions, accounts, meter, accidents>>
  PROVE  TypeInv'
<1>1. RequestsOK'
  BY OneRequest DEF Arrives
<1>2. requests' \in Nat
  BY DEF Arrives, TypeInv, TypeOK
<1> QED
  BY <1>1, <1>2, TypesTogether DEF TypeInv, TypeOK

LEMMA OpenTypes ==
  ASSUME TypeInv, NEW w \in Workers, NEW c \in Computers,
         NEW k \in Customers \cup {Nobody}, NEW source \in Sources, Open(w, c, k, source)
  PROVE  TypeInv'
<1> DEFINE r == [Idle EXCEPT !.pc = "openComputer", !.computer = c,
                             !.customer = k, !.source = source, !.price = PricingOf(c)]
<1>1. PricingOf(c) \in Pricings /\ source \in BillingSources
  BY PricingType, SetsAssumption DEF TypeInv
<1>2. r \in Request /\ ~ (r.pc \in Loaded)
  BY <1>1, ConstantTypes DEF Request, Loaded, Idle
<1> HIDE DEF r
<1>3. Arrives(w, "open", r)
  BY DEF Open, r
<1> QED
  BY <1>2, <1>3, ArrivalTypes DEF Open

LEMMA LoadTypes ==
  ASSUME TypeInv, NEW w \in Workers, NEW op \in Loaded, NEW id \in SessionIds,
         NEW target \in Computers, NEW extra \in Nat, Load(w, op, id, target, extra)
  PROVE  TypeInv'
<1> DEFINE r == [Idle EXCEPT !.pc = op, !.id = id, !.row = sessions[id],
                             !.computer = target, !.extra = extra, !.at = clock,
                             !.price = PricingOf(sessions[id].computer)]
<1>1. sessions[id] \in Session /\ sessions[id].computer \in Computers /\ clock \in Nat
  BY DEF TypeInv, TypeOK, Session
<1>2. PricingOf(sessions[id].computer) \in Pricings
  BY <1>1, PricingType DEF TypeInv
<1>3. r \in Request /\ r.id = id
  BY <1>1, <1>2, ConstantTypes DEF Request, Loaded, Idle
<1> HIDE DEF r
<1>4. Arrives(w, op, r)
  BY DEF Load, r
<1> QED
  BY <1>3, <1>4, ArrivalTypes DEF Load

(* A payer is a customer, and what it pays comes from one of its accounts. *)
LEMMA PayerTypes ==
  ASSUME TypeOK, NEW w \in Workers, MustPay(w)
  PROVE  /\ req[w].row.customer \in Customers
         /\ PrepaidUnit(req[w].row.source) \in Units
         /\ BalanceOf(w) \in Int
<1>1. req[w].row.customer \in Customers
  BY RequestType DEF MustPay, Prepaid, Request, Session
<1>2. PrepaidUnit(req[w].row.source) \in Units
  BY DEF PrepaidUnit, Units
<1>3. accounts[req[w].row.customer][PrepaidUnit(req[w].row.source)] \in Accounts(Refs)
  BY <1>1, <1>2 DEF TypeOK
<1> QED
  BY <1>1, <1>2, <1>3 DEF BalanceOf, Accounts

(* A step that only moves a request on, or ends it without a write.        *)
LEMMA ProgressTypes ==
  ASSUME TypeInv, NEW w \in Workers,
         \/ OpenComputerFree(w) \/ OpenCustomerFree(w) \/ OpenRefused(w)
         \/ TargetFree(w) \/ TargetBusy(w) \/ ReadBalance(w) \/ CloseRefused(w) \/ Crash(w)
  PROVE  TypeInv'
<1>1. ASSUME RequestsOK', UNCHANGED <<clock, status, rates, sessions, accounts, meter, requests>>,
             accidents' \in Nat
      PROVE  TypeInv'
  BY <1>1, TypesTogether DEF TypeInv, TypeOK
<1>2. req[w] \in Request /\ clock \in Nat
  BY RequestType DEF TypeInv, TypeOK
<1>3. CASE OpenComputerFree(w)
  <2> DEFINE r == [req[w] EXCEPT !.pc = IF req[w].customer = Nobody THEN "create" ELSE "openCustomer",
                                 !.at = clock]
  <2>1. r \in Request /\ ~ (r.pc \in Loaded)
    BY <1>2 DEF Request, Loaded
  <2>2. req' = [req EXCEPT ![w] = r]
    BY <1>3 DEF OpenComputerFree, TypeInv, TypeOK, Request
  <2>3. RequestsOK'
    BY <2>1, <2>2, OneRequest
  <2> QED
    BY <1>1, <1>3, <2>3 DEF OpenComputerFree, TypeInv, TypeOK
<1>4. CASE OpenCustomerFree(w)
  <2> DEFINE r == [req[w] EXCEPT !.pc = "create", !.at = clock]
  <2>1. r \in Request /\ ~ (r.pc \in Loaded)
    BY <1>2 DEF Request, Loaded
  <2>2. req' = [req EXCEPT ![w] = r]
    BY <1>4 DEF OpenCustomerFree, TypeInv, TypeOK, Request
  <2>3. RequestsOK'
    BY <2>1, <2>2, OneRequest
  <2> QED
    BY <1>1, <1>4, <2>3 DEF OpenCustomerFree, TypeInv, TypeOK
<1>5. CASE TargetFree(w)
  <2> DEFINE r == [req[w] EXCEPT !.pc = "move", !.toPrice = PricingOf(req[w].computer),
                                 !.at = clock]
  <2>1. PricingOf(req[w].computer) \in Pricings /\ req[w].pc = "transfer"
    BY <1>2, <1>5, PricingType DEF Request, TypeInv, TargetFree
  <2>2. r \in Request /\ r.id = req[w].id
    BY <1>2, <2>1 DEF Request
  <2>3. r.id \in SessionIds
    BY <2>1, <2>2 DEF TypeInv, LoadedOK, Loaded
  <2>4. req' = [req EXCEPT ![w] = r]
    BY <1>5 DEF TargetFree, TypeInv, TypeOK, Request
  <2>5. RequestsOK'
    BY <2>2, <2>3, <2>4, OneRequest
  <2> QED
    BY <1>1, <1>5, <2>5 DEF TargetFree, TypeInv, TypeOK
<1>6. CASE OpenRefused(w) \/ TargetBusy(w) \/ CloseRefused(w) \/ Crash(w)
  <2>1. Finish(w)
    BY <1>6 DEF OpenRefused, TargetBusy, CloseRefused, Crash
  <2>2. UNCHANGED <<clock, status, rates, sessions, accounts, meter, requests>>
    BY <1>6 DEF OpenRefused, TargetBusy, CloseRefused, Crash
  <2>3. accidents' \in Nat
    BY <1>6 DEF OpenRefused, TargetBusy, CloseRefused, Crash, TypeInv, TypeOK
  <2> QED
    BY <1>1, <2>1, <2>2, <2>3, FinishOK
<1>7. CASE ReadBalance(w)
  <2> DEFINE r == [req[w] EXCEPT !.pc = "pay", !.balance = BalanceOf(w)]
  <2>1. BalanceOf(w) \in Int /\ req[w].pc = "close"
    BY <1>7, PayerTypes DEF ReadBalance, TypeInv
  <2>2. r \in Request /\ r.id = req[w].id
    BY <1>2, <2>1 DEF Request
  <2>3. r.id \in SessionIds
    BY <2>1, <2>2 DEF TypeInv, LoadedOK, Loaded
  <2>4. req' = [req EXCEPT ![w] = r]
    BY <1>7 DEF ReadBalance, TypeInv, TypeOK, Request
  <2>5. RequestsOK'
    BY <2>2, <2>3, <2>4, OneRequest
  <2> QED
    BY <1>1, <1>7, <2>5 DEF ReadBalance, TypeInv, TypeOK
<1> QED
  BY <1>3, <1>4, <1>5, <1>6, <1>7

(* The steps of open that write.                                           *)
LEMMA CreateTypes ==
  ASSUME TypeInv, NEW w \in Workers, NEW id \in SessionIds, CreateSession(w, id)
  PROVE  TypeInv'
<1> DEFINE row == [NoSession EXCEPT !.status = "ACTIVE", !.computer = req[w].computer,
                         !.customer = req[w].customer, !.source = req[w].source,
                         !.pricingSnapshot = req[w].price,
                         !.startedAt = req[w].at, !.billedThroughAt = req[w].at]
           r == [req[w] EXCEPT !.pc = "occupy"]
<1>1. req[w] \in Request
  BY RequestType DEF TypeInv
<1>2. row \in Session
  BY <1>1, ConstantTypes DEF Request, Session
<1>3. r \in Request /\ ~ (r.pc \in Loaded)
  BY <1>1 DEF Request, Loaded
<1>4. req' = [req EXCEPT ![w] = r]
  BY DEF CreateSession, TypeInv, TypeOK, Request
<1>5. RequestsOK'
  BY <1>3, <1>4, OneRequest
<1>6. sessions' = [sessions EXCEPT ![id] = row]
  BY DEF CreateSession
<1> HIDE DEF row, r
<1>7. sessions' \in [SessionIds -> Session]
  BY <1>2, <1>6 DEF TypeInv, TypeOK
<1>8. UNCHANGED <<clock, status, rates, accounts, meter, requests, accidents>>
  BY DEF CreateSession
<1> QED
  BY <1>5, <1>7, <1>8, TypesTogether DEF TypeInv, TypeOK

LEMMA OccupyTypes ==
  ASSUME TypeInv, NEW w \in Workers, OccupyComputer(w)
  PROVE  TypeInv'
<1>1. RequestsOK'
  BY FinishOK DEF OccupyComputer
<1>2. status' \in [Computers -> {"AVAILABLE", "IN_USE", "MAINTENANCE", "DISCONNECTED"}]
  BY DEF OccupyComputer, TypeInv, TypeOK
<1>3. UNCHANGED <<clock, rates, sessions, accounts, meter, requests, accidents>>
  BY DEF OccupyComputer
<1> QED
  BY <1>1, <1>2, <1>3, TypesTogether DEF TypeInv, TypeOK

(* The steps that write the row of a loaded session.                       *)
LEMMA WriteTypes ==
  ASSUME TypeInv, NEW w \in Workers, NEW op \in Loaded, NEW row \in Session, Write(w, op, row)
  PROVE  /\ req[w].pc = op /\ req[w].id \in SessionIds
         /\ RequestsOK'
         /\ sessions' \in [SessionIds -> Session]
         /\ UNCHANGED <<clock, rates, requests, accidents>>
<1>1. req[w].pc = op /\ Finish(w) /\ sessions' = [sessions EXCEPT ![req[w].id] = row]
      /\ UNCHANGED <<clock, rates, requests, accidents>>
  BY DEF Write
<1>2. req[w].id \in SessionIds
  BY <1>1 DEF TypeInv, LoadedOK
<1>3. RequestsOK'
  BY <1>1, FinishOK
<1>4. sessions' \in [SessionIds -> Session]
  BY <1>1 DEF TypeInv, TypeOK
<1> QED
  BY <1>1, <1>2, <1>3, <1>4

LEMMA SegmentTypes ==
  ASSUME TypeInv, NEW w \in Workers, req[w].id \in SessionIds, OneMoreSegment(w)
  PROVE  meter' \in [SessionIds -> History]
<1> DEFINE id == req[w].id
           old == meter[id]
           fraction == ExactCost(PerSecond - 1, Row(w).pricingSnapshot)
           moved == old.movedPaused \/ (req[w].pc = "move" /\ req[w].row.status = "PAUSED")
           new == [old EXCEPT !.segments = old.segments + 1,
                              !.fractions = old.fractions + fraction, !.movedPaused = moved]
<1>1. old \in History
  BY DEF TypeInv, TypeOK
<1>2. fraction \in Nat
  <2>1. Row(w).pricingSnapshot \in Pricings
    BY DEF Row, TypeInv, TypeOK, Session
  <2>2. PerSecond - 1 \in Nat /\ PerSecond - 1 <= PerSecond - 1
    BY BoundsAssumption
  <2> QED
    BY <2>1, <2>2, CostMonotone
<1>3. moved \in BOOLEAN
  BY <1>1 DEF History
<1>4. meter' = [meter EXCEPT ![id] = new]
  BY <1>1 DEF OneMoreSegment, TypeInv, TypeOK, History
<1> DEFINE segments == old.segments + 1
           fractions == old.fractions + fraction
<1>5. segments \in Nat /\ fractions \in Nat
  BY <1>1, <1>2 DEF History
<1>6. new = [old EXCEPT !.segments = segments, !.fractions = fractions, !.movedPaused = moved]
  OBVIOUS
<1> HIDE DEF fraction, moved, segments, fractions, old, new
<1>7. new \in History
  BY <1>1, <1>3, <1>5, <1>6 DEF History
<1> HIDE DEF id
<1> QED
  BY <1>4, <1>7 DEF TypeInv, TypeOK

(* Whose id a writing request has.                                         *)
LEMMA WriterKnowsSession ==
  ASSUME TypeInv, NEW w \in Workers, req[w].pc \in Loaded
  PROVE  /\ req[w].id \in SessionIds
         /\ Extended(w) \in Session /\ Paused(w) \in Session /\ Resumed(w) \in Session
         /\ Moved(w) \in Session /\ Ended(w) \in Session
BY RowTypes DEF TypeInv, LoadedOK

LEMMA PlanTypes ==
  ASSUME TypeInv, NEW w \in Workers, WritePlan(w)
  PROVE  TypeInv'
<1> DEFINE id == req[w].id
<1>1. req[w].pc \in Loaded /\ "addTime" \in Loaded
  BY DEF WritePlan, Write, Loaded
<1>2. Extended(w) \in Session /\ id \in SessionIds
  BY <1>1, WriterKnowsSession
<1>3. RequestsOK' /\ sessions' \in [SessionIds -> Session]
      /\ UNCHANGED <<clock, rates, requests, accidents>>
  BY <1>1, <1>2, WriteTypes DEF WritePlan
<1>4. UNCHANGED <<status, accounts, meter>>
  BY DEF WritePlan
<1> QED
  BY <1>3, <1>4, TypesTogether DEF TypeInv, TypeOK

LEMMA PauseTypes ==
  ASSUME TypeInv, NEW w \in Workers, WritePause(w)
  PROVE  TypeInv'
<1>1. req[w].pc \in Loaded /\ "pause" \in Loaded
  BY DEF WritePause, Write, Loaded
<1>2. Paused(w) \in Session /\ req[w].id \in SessionIds
  BY <1>1, WriterKnowsSession
<1>3. RequestsOK' /\ sessions' \in [SessionIds -> Session]
      /\ UNCHANGED <<clock, rates, requests, accidents>>
  BY <1>1, <1>2, WriteTypes DEF WritePause
<1>4. meter' \in [SessionIds -> History] /\ UNCHANGED <<status, accounts>>
  BY <1>2, SegmentTypes DEF WritePause
<1> QED
  BY <1>3, <1>4, TypesTogether DEF TypeInv, TypeOK

LEMMA ResumeTypes ==
  ASSUME TypeInv, NEW w \in Workers, WriteResume(w)
  PROVE  TypeInv'
<1>1. req[w].pc \in Loaded /\ "resume" \in Loaded
  BY DEF WriteResume, Write, Loaded
<1>2. Resumed(w) \in Session /\ req[w].id \in SessionIds
  BY <1>1, WriterKnowsSession
<1>3. RequestsOK' /\ sessions' \in [SessionIds -> Session]
      /\ UNCHANGED <<clock, rates, requests, accidents>>
  BY <1>1, <1>2, WriteTypes DEF WriteResume
<1>4. UNCHANGED <<status, accounts>>
  BY DEF WriteResume
<1>5. meter' \in [SessionIds -> History]
  <2> DEFINE id == req[w].id
             new == [meter[id] EXCEPT !.resumes = meter[id].resumes + 1]
  <2>1. meter[id] \in History
    BY <1>2 DEF TypeInv, TypeOK
  <2>2. new \in History
    BY <2>1 DEF History
  <2>3. meter' = [meter EXCEPT ![id] = new]
    BY <2>1 DEF WriteResume, TypeInv, TypeOK, History
  <2> HIDE DEF id, new
  <2> QED
    BY <2>2, <2>3 DEF TypeInv, TypeOK
<1> QED
  BY <1>3, <1>4, <1>5, TypesTogether DEF TypeInv, TypeOK

LEMMA MoveTypes ==
  ASSUME TypeInv, NEW w \in Workers, WriteMove(w)
  PROVE  TypeInv'
<1>1. req[w].pc \in Loaded /\ "move" \in Loaded
  BY DEF WriteMove, Write, Loaded
<1>2. Moved(w) \in Session /\ req[w].id \in SessionIds
  BY <1>1, WriterKnowsSession
<1>3. RequestsOK' /\ sessions' \in [SessionIds -> Session]
      /\ UNCHANGED <<clock, rates, requests, accidents>>
  BY <1>1, <1>2, WriteTypes DEF WriteMove
<1>4. meter' \in [SessionIds -> History] /\ UNCHANGED accounts
  BY <1>2, SegmentTypes DEF WriteMove
<1>5. status' \in [Computers -> {"AVAILABLE", "IN_USE", "MAINTENANCE", "DISCONNECTED"}]
  BY DEF WriteMove, StatusAfterMove, TypeInv, TypeOK
<1> QED
  BY <1>3, <1>4, <1>5, TypesTogether DEF TypeInv, TypeOK

LEMMA CloseTypes ==
  ASSUME TypeInv, NEW w \in Workers, WriteClose(w)
  PROVE  TypeInv'
<1> DEFINE op == IF MustPay(w) THEN "pay" ELSE "close"
<1>1. req[w].pc \in Loaded /\ op \in Loaded
  BY DEF WriteClose, Write, Loaded
<1>2. Ended(w) \in Session /\ req[w].id \in SessionIds
  BY <1>1, WriterKnowsSession
<1>3. RequestsOK' /\ sessions' \in [SessionIds -> Session]
      /\ UNCHANGED <<clock, rates, requests, accidents>>
  BY <1>1, <1>2, WriteTypes DEF WriteClose
<1>4. meter' \in [SessionIds -> History]
  BY <1>2, SegmentTypes DEF WriteClose
<1>5. status' \in [Computers -> {"AVAILABLE", "IN_USE", "MAINTENANCE", "DISCONNECTED"}]
  BY DEF WriteClose, TypeInv, TypeOK
<1>6. accounts' \in [Customers -> [Units -> Accounts(Refs)]]
  <2>1. CASE MustPay(w)
    <3> DEFINE k == req[w].row.customer
               u == PrepaidUnit(req[w].row.source)
               new == Posted(accounts[k][u], req[w].balance, - Charge(w), req[w].id)
    <3>1. k \in Customers /\ u \in Units /\ req[w].balance \in Int
      BY <2>1, PayerTypes, RequestType DEF TypeInv, Request
    <3>2. accounts[k] \in [Units -> Accounts(Refs)]
      BY <3>1 DEF TypeInv, TypeOK
    <3>3. - Charge(w) \in Int /\ req[w].id \in Refs
      BY <1>2, ChargeTypes DEF TypeInv, Refs
    <3>4. new \in Accounts(Refs)
      BY <3>1, <3>2, <3>3, PostedType
    <3> HIDE DEF new
    <3>5. [accounts[k] EXCEPT ![u] = new] \in [Units -> Accounts(Refs)]
      BY <3>2, <3>4
    <3>6. accounts' = [accounts EXCEPT ![k] = [accounts[k] EXCEPT ![u] = new]]
      BY <2>1 DEF WriteClose, AccountsAfterClose, new
    <3> QED
      BY <3>5, <3>6 DEF TypeInv, TypeOK
  <2>2. CASE ~ MustPay(w)
    BY <2>2 DEF WriteClose, AccountsAfterClose, TypeInv, TypeOK
  <2> QED
    BY <2>1, <2>2
<1> QED
  BY <1>3, <1>4, <1>5, <1>6, TypesTogether DEF TypeInv, TypeOK

(* The rest of the world.                                                  *)
LEMMA WorldTypes ==
  ASSUME TypeInv,
         (\E g \in Groups : ChangePrice(g)) \/ (\E c \in Computers : AgentRegister(c)) \/ Tick
  PROVE  TypeInv'
<1>1. ASSUME NEW g \in Groups, ChangePrice(g) PROVE TypeInv'
  <2>1. PICK p \in PriceList[g] : rates' = [rates EXCEPT ![g] = p]
    BY <1>1 DEF ChangePrice
  <2>2. p \in Pricings
    BY <2>1, RatesAssumption
  <2>3. rates' \in [Groups -> Pricings]
    BY <2>1, <2>2 DEF TypeInv, TypeOK
  <2>4. UNCHANGED <<clock, status, sessions, accounts, req, meter, requests, accidents>>
    BY <1>1 DEF ChangePrice
  <2> QED
    BY <2>3, <2>4 DEF TypeInv, TypeOK, LoadedOK
<1>2. ASSUME NEW c \in Computers, AgentRegister(c) PROVE TypeInv'
  <2>1. UNCHANGED <<clock, rates, sessions, accounts, req, meter, requests>>
    BY <1>2 DEF AgentRegister
  <2>2. status' \in [Computers -> {"AVAILABLE", "IN_USE", "MAINTENANCE", "DISCONNECTED"}]
        /\ accidents' \in Nat
    BY <1>2 DEF AgentRegister, TypeInv, TypeOK
  <2> QED
    BY <2>1, <2>2 DEF TypeInv, TypeOK, LoadedOK
<1>3. ASSUME Tick PROVE TypeInv'
  <2>1. clock' \in Nat
    <3>1. clock' = clock + TickLength
      BY <1>3 DEF Tick
    <3>2. clock \in Nat /\ TickLength \in Nat
      BY BoundsAssumption DEF TypeInv, TypeOK
    <3> QED
      BY <3>1, <3>2
  <2>2. UNCHANGED <<status, rates, sessions, accounts, req, requests, accidents>>
    BY <1>3 DEF Tick
  <2>3. ASSUME NEW id \in SessionIds PROVE meter'[id] \in History
    <3> DEFINE p == sessions[id].pricingSnapshot
               used == meter[id].used + TickLength
               money == meter[id].moneyDue + ExactCost(TickLength, p)
    <3>1. meter[id] \in History /\ p \in Pricings
      BY DEF TypeInv, TypeOK, Session
    <3>2. TickLength \in Nat /\ TickLength <= TickLength
      BY BoundsAssumption
    <3>3. ExactCost(TickLength, p) \in Nat
      BY <3>1, <3>2, CostMonotone
    <3>4. meter'[id] = IF sessions[id].status # "ACTIVE" THEN meter[id]
                       ELSE [meter[id] EXCEPT !.used = used, !.moneyDue = money]
      BY <1>3 DEF Tick
    <3>5. used \in Nat
      BY <3>1, <3>2 DEF History
    <3>6. money \in Nat
      <4>1. meter[id].moneyDue \in Nat
        BY <3>1 DEF History
      <4> QED
        BY <3>3, <4>1
    <3> HIDE DEF p, used, money
    <3> QED
      BY <3>1, <3>4, <3>5, <3>6 DEF History
  <2>4. meter' = [id \in SessionIds |-> meter'[id]]
    BY <1>3 DEF Tick
  <2>5. meter' \in [SessionIds -> History]
    BY <2>3, <2>4
  <2> QED
    BY <2>1, <2>2, <2>5 DEF TypeInv, TypeOK, LoadedOK
<1> QED
  BY <1>1, <1>2, <1>3

LEMMA TypeStep == TypeInv /\ [Next]_vars => TypeInv'
<1> SUFFICES ASSUME TypeInv, [Next]_vars PROVE TypeInv'
  OBVIOUS
<1>1. ASSUME NEW w \in Workers, Arrival(w) PROVE TypeInv'
  <2>1. SomeComputer \in Computers /\ Extras \subseteq Nat /\ 0 \in Nat
    BY ConstantTypes, SetsAssumption
  <2>2. {"addTime", "transfer", "pause", "resume", "close"} \subseteq Loaded
    BY DEF Loaded
  <2>3. ASSUME NEW id \in SessionIds, NEW extra \in Extras, AddTime(w, id, extra) PROVE TypeInv'
    BY <2>1, <2>2, <2>3, LoadTypes DEF AddTime
  <2>4. ASSUME NEW id \in SessionIds, NEW c \in Computers, Transfer(w, id, c) PROVE TypeInv'
    BY <2>1, <2>2, <2>4, LoadTypes DEF Transfer
  <2>5. ASSUME NEW id \in SessionIds, Pause(w, id) \/ Resume(w, id) \/ Close(w, id) PROVE TypeInv'
    BY <2>1, <2>2, <2>5, LoadTypes DEF Pause, Resume, Close
  <2> QED
    BY <1>1, <2>3, <2>4, <2>5, OpenTypes DEF Arrival
<1>2. ASSUME NEW w \in Workers, Progress(w) \/ Crash(w) PROVE TypeInv'
  BY <1>2, ProgressTypes DEF Progress
<1>3. ASSUME NEW w \in Workers, Writing(w) PROVE TypeInv'
  BY <1>3, CreateTypes, OccupyTypes, PlanTypes, PauseTypes, ResumeTypes, MoveTypes, CloseTypes
     DEF Writing
<1>4. CASE UNCHANGED vars
  BY <1>4 DEF vars, TypeInv, TypeOK, LoadedOK
<1> QED
  BY <1>1, <1>2, <1>3, <1>4, WorldTypes DEF Next

LEMMA TypeInit == Init => TypeInv
<1> SUFFICES ASSUME Init PROVE TypeInv
  OBVIOUS
<1>1. rates \in [Groups -> Pricings]
  BY RatesAssumption DEF Init
<1>2. accounts \in [Customers -> [Units -> Accounts(Refs)]]
  BY FundedType DEF Init
<1>3. /\ sessions \in [SessionIds -> Session] /\ req \in [Workers -> Request]
      /\ meter \in [SessionIds -> History]
  BY ConstantTypes DEF Init
<1>4. LoadedOK
  BY DEF Init, Idle, LoadedOK, Loaded
<1> QED
  BY <1>1, <1>2, <1>3, <1>4 DEF Init, TypeInv, TypeOK

LEMMA TypeInvariant == Spec => []TypeInv
BY TypeInit, TypeStep, PTL DEF Spec

(* Type correctness for any number of computers, groups, customers,        *)
(* sessions and overlapping requests; no amount, plan, checkpoint or time  *)
(* becomes negative.                                                       *)
THEOREM TypeCorrect == Spec => []TypeOK
<1>1. TypeInv => TypeOK
  BY DEF TypeInv
<1> QED
  BY <1>1, TypeInvariant, PTL

-------------------------------------------------------------------------------
(* What a loaded request has read is its own reading or was read just now. *)
LEMMA LoadedStep ==
  ASSUME TypeInv, [Next]_vars, NEW w \in Workers, req'[w].pc \in Loaded
  PROVE  \/ /\ req[w].pc \in Loaded /\ req'[w].id = req[w].id /\ req'[w].row = req[w].row
            /\ \/ req'[w] = req[w] \/ ReadBalance(w)
               \/ req'[w].pc = "move" /\ req[w].pc = "transfer"
         \/ \E id \in SessionIds :
              /\ Live(id) /\ req'[w].id = id /\ req'[w].row = sessions[id] /\ sessions' = sessions
              /\ req'[w].pc \notin {"move", "pay"} /\ (req'[w].pc = "transfer" => "transfer" \in Operations)
<1>1. req \in [Workers -> Request] /\ ~ (Idle.pc \in Loaded)
  BY DEF TypeInv, TypeOK, Idle, Loaded
<1> DEFINE Kept == /\ req[w].pc \in Loaded /\ req'[w].id = req[w].id /\ req'[w].row = req[w].row
                   /\ \/ req'[w] = req[w] \/ ReadBalance(w)
                      \/ req'[w].pc = "move" /\ req[w].pc = "transfer"
           Read == \E id \in SessionIds :
              /\ Live(id) /\ req'[w].id = id /\ req'[w].row = sessions[id] /\ sessions' = sessions
              /\ req'[w].pc \notin {"move", "pay"} /\ (req'[w].pc = "transfer" => "transfer" \in Operations)
<1> SUFFICES Kept \/ Read
  OBVIOUS
<1>2. ASSUME NEW v \in Workers, Finish(v) PROVE Kept
  BY <1>1, <1>2 DEF Finish
<1>3. ASSUME NEW v \in Workers, NEW op \in Loaded \ {"move", "pay"}, NEW id \in SessionIds, NEW target, NEW extra,
             Load(v, op, id, target, extra)
      PROVE  Kept \/ Read
  <2>1. CASE v = w
    <3>1. /\ req'[w].pc = op /\ req'[w].id = id /\ req'[w].row = sessions[id]
      BY <1>1, <1>3, <2>1 DEF Load, Arrives, Idle
    <3>2. Live(id) /\ sessions' = sessions /\ op \in Operations
      BY <1>3 DEF Load, Loadable, Arrives
    <3> QED
      BY <1>3, <3>1, <3>2
  <2>2. CASE v # w
    BY <1>1, <1>3, <2>2 DEF Load, Arrives
  <2> QED
    BY <2>1, <2>2
<1>4. {"addTime", "transfer", "pause", "resume", "close"} \subseteq Loaded \ {"move", "pay"}
  BY DEF Loaded
<1>5. ASSUME NEW v \in Workers, Arrival(v) PROVE Kept \/ Read
  <2>1. ASSUME NEW c \in Computers, NEW k \in Customers \cup {Nobody}, NEW source \in Sources,
               Open(v, c, k, source)
        PROVE  Kept
    <3>1. req' = [req EXCEPT ![v] = req'[v]] /\ req'[v].pc = "openComputer"
      BY <1>1, <2>1 DEF Open, Arrives, Idle
    <3> QED
      BY <1>1, <3>1 DEF Loaded
  <2>2. ASSUME NEW id \in SessionIds, NEW extra \in Extras, AddTime(v, id, extra)
        PROVE  Kept \/ Read
    BY <1>3, <1>4, <2>2 DEF AddTime
  <2>3. ASSUME NEW id \in SessionIds, NEW c \in Computers, Transfer(v, id, c) PROVE Kept \/ Read
    BY <1>3, <1>4, <2>3 DEF Transfer
  <2>4. ASSUME NEW id \in SessionIds, Pause(v, id) \/ Resume(v, id) \/ Close(v, id)
        PROVE  Kept \/ Read
    BY <1>3, <1>4, <2>4 DEF Pause, Resume, Close
  <2> QED
    BY <1>5, <2>1, <2>2, <2>3, <2>4 DEF Arrival
<1>6. ASSUME NEW v \in Workers, Progress(v) \/ Crash(v) PROVE Kept
  <2>1. CASE OpenComputerFree(v)
    <3>1. req'[v].pc \in {"create", "openCustomer"} /\ (v # w => req'[w] = req[w])
      BY <1>1, <2>1 DEF OpenComputerFree, Request
    <3> QED
      BY <3>1 DEF Loaded
  <2>2. CASE OpenCustomerFree(v)
    <3>1. req'[v].pc = "create" /\ (v # w => req'[w] = req[w])
      BY <1>1, <2>2 DEF OpenCustomerFree, Request
    <3> QED
      BY <3>1 DEF Loaded
  <2>3. CASE TargetFree(v)
    <3>1. /\ req[v].pc = "transfer" /\ req'[v].pc = "move" /\ req'[v].id = req[v].id
          /\ req'[v].row = req[v].row /\ (v # w => req'[w] = req[w])
      BY <1>1, <2>3 DEF TargetFree, Request
    <3> QED
      BY <3>1 DEF Loaded
  <2>4. CASE ReadBalance(v)
    <3>1. /\ req[v].pc = "close" /\ req'[v].pc = "pay" /\ req'[v].id = req[v].id
          /\ req'[v].row = req[v].row /\ (v # w => req'[w] = req[w])
      BY <1>1, <2>4 DEF ReadBalance, Request
    <3> QED
      BY <2>4, <3>1 DEF Loaded
  <2>5. CASE OpenRefused(v) \/ TargetBusy(v) \/ CloseRefused(v) \/ Crash(v)
    BY <1>2, <2>5 DEF OpenRefused, TargetBusy, CloseRefused, Crash
  <2> QED
    BY <1>6, <2>1, <2>2, <2>3, <2>4, <2>5 DEF Progress
<1>7. ASSUME NEW v \in Workers, Writing(v) PROVE Kept
  <2>1. ASSUME NEW id \in SessionIds, CreateSession(v, id) PROVE Kept
    <3>1. req'[v].pc = "occupy" /\ (v # w => req'[w] = req[w])
      BY <1>1, <2>1 DEF CreateSession, Request
    <3> QED
      BY <3>1 DEF Loaded
  <2>2. CASE OccupyComputer(v) \/ WritePlan(v) \/ WritePause(v) \/ WriteResume(v) \/ WriteMove(v)
             \/ WriteClose(v)
    BY <1>2, <2>2 DEF OccupyComputer, WritePlan, WritePause, WriteResume, WriteMove, WriteClose, Write
  <2> QED
    BY <1>7, <2>1, <2>2 DEF Writing
<1>8. CASE (\E g \in Groups : ChangePrice(g)) \/ (\E c \in Computers : AgentRegister(c)) \/ Tick
  BY <1>8 DEF ChangePrice, AgentRegister, Tick
<1>9. CASE UNCHANGED vars
  BY <1>9 DEF vars
<1> QED
  BY <1>5, <1>6, <1>7, <1>8, <1>9 DEF Next

-------------------------------------------------------------------------------
(* The test of applyWithin and the write that follows it use one reading   *)
(* of the balance, so overlapping requests cannot overdraw it, although    *)
(* the balance may have changed between the two.                           *)
LEMMA PostedNonNegative ==
  ASSUME NEW acct \in Accounts(Refs), NonNegative(acct), NEW read \in Int, NEW amount \in Int,
         NEW ref \in Refs, ~ Insufficient(read, amount)
  PROVE  NonNegative(Posted(acct, read, amount, ref))
<1> DEFINE value == read + amount
           row == [amount |-> amount, balanceAfter |-> value, ref |-> ref]
           new == Posted(acct, read, amount, ref)
<1>1. value \in Int /\ value >= 0
  BY DEF Insufficient
<1>2. row \in Rows(Refs) /\ row.balanceAfter = value
  BY <1>1 DEF Rows
<1>3. acct.rows \in Seq(Rows(Refs))
  BY DEF Accounts
<1>4. new.cached = value /\ new.rows = Append(acct.rows, row)
  BY DEF Posted, AppendRow, SetCached, Accounts
<1> HIDE DEF value, row, new
<1>5. ASSUME NEW i \in 1 .. Len(new.rows) PROVE new.rows[i].balanceAfter >= 0
  <2>1. Len(new.rows) = Len(acct.rows) + 1
    BY <1>2, <1>3, <1>4
  <2>2. CASE i = Len(acct.rows) + 1
    BY <1>1, <1>2, <1>3, <1>4, <2>2
  <2>3. CASE i \in 1 .. Len(acct.rows)
    <3>1. new.rows[i] = acct.rows[i]
      BY <1>2, <1>3, <1>4, <2>3
    <3> QED
      BY <2>3, <3>1 DEF NonNegative
  <2>4. i = Len(acct.rows) + 1 \/ i \in 1 .. Len(acct.rows)
    BY <1>3, <2>1
  <2> QED
    BY <2>2, <2>3, <2>4
<1> QED
  BY <1>1, <1>4, <1>5 DEF NonNegative, new

(* What a request pays depends on nothing but what it has read.            *)
LEMMA SameCharge ==
  ASSUME NEW w, req'[w].row = req[w].row, req'[w].price = req[w].price, req'[w].at = req[w].at
  PROVE  MustPay(w)' = MustPay(w) /\ Charge(w)' = Charge(w)
<1>1. UnitsSince(w)' = UnitsSince(w)
  BY DEF UnitsSince
<1>2. LastSegment(w)' = LastSegment(w)
  BY <1>1 DEF LastSegment, SinceCheckpoint
<1>3. TotalSeconds(w)' = TotalSeconds(w)
  BY <1>2 DEF TotalSeconds
<1>4. FinalTotal(w)' = FinalTotal(w)
  BY <1>2, <1>3 DEF FinalTotal
<1> QED
  BY <1>3, <1>4 DEF MustPay, Charge

(* A close that is about to pay has found enough.                          *)
Covered(w) ==
  req[w].pc = "pay" => MustPay(w) /\ ~ Insufficient(req[w].balance, - Charge(w))

LEMMA CoveredStep ==
  ASSUME TypeInv, [Next]_vars, NEW w \in Workers, Covered(w)
  PROVE  Covered(w)'
<1> SUFFICES ASSUME req'[w].pc = "pay"
             PROVE  MustPay(w)' /\ ~ Insufficient(req'[w].balance, - Charge(w)')
  BY DEF Covered, Insufficient
<1>1. req'[w] = req[w] \/ ReadBalance(w)
  BY LoadedStep DEF Loaded
<1>2. CASE req'[w] = req[w]
  BY <1>2, SameCharge DEF Covered
<1>3. CASE ReadBalance(w)
  <2>1. /\ req'[w].row = req[w].row /\ req'[w].price = req[w].price /\ req'[w].at = req[w].at
        /\ req'[w].balance = BalanceOf(w)
    BY <1>3 DEF ReadBalance, TypeInv, TypeOK, Request
  <2> QED
    BY <1>3, <2>1, SameCharge DEF ReadBalance, CannotPay
<1> QED
  BY <1>1, <1>2, <1>3

(* No charge takes a balance below zero, for any number of overlapping     *)
(* requests, prices and accidents, although a transaction that reads the   *)
(* balance without a lock may overwrite the charge of another.             *)
THEOREM NoOverdraft == Spec => []NeverOverdrawn
<1> DEFINE AllCovered == \A w \in Workers : Covered(w)
<1>1. Init => NeverOverdrawn
  <2> SUFFICES ASSUME Init, NEW k \in Customers, NEW u \in Units
               PROVE  NonNegative(accounts[k][u])
    BY DEF NeverOverdrawn
  <2>1. accounts[k][u] = Posted(EmptyAccount, EmptyAccount.cached, Deposit[u], "load")
    BY DEF Init, Funded, EmptyAccount
  <2>2. EmptyAccount \in Accounts(Refs) /\ NonNegative(EmptyAccount)
    BY DEF EmptyAccount, Accounts, NonNegative
  <2>3. Deposit[u] \in Int /\ "load" \in Refs /\ ~ Insufficient(EmptyAccount.cached, Deposit[u])
    BY BoundsAssumption DEF Refs, Insufficient, EmptyAccount
  <2> QED
    BY <2>1, <2>2, <2>3, PostedNonNegative DEF EmptyAccount
<1>2. TypeInv /\ AllCovered /\ NeverOverdrawn /\ [Next]_vars => NeverOverdrawn'
  <2> SUFFICES ASSUME TypeInv, AllCovered, NeverOverdrawn, [Next]_vars PROVE NeverOverdrawn'
    OBVIOUS
  <2>1. accounts' = accounts \/ \E w \in Workers : WriteClose(w)
    <3>1. ASSUME NEW w \in Workers, Arrival(w) PROVE accounts' = accounts
      BY <3>1 DEF Arrival, Open, AddTime, Transfer, Pause, Resume, Close, Load
    <3>2. ASSUME NEW w \in Workers, Progress(w) \/ Crash(w) PROVE accounts' = accounts
      BY <3>2 DEF Progress, OpenComputerFree, OpenCustomerFree, OpenRefused, TargetFree,
                  TargetBusy, ReadBalance, CloseRefused, Crash
    <3>3. ASSUME NEW w \in Workers, Writing(w) PROVE accounts' = accounts \/ WriteClose(w)
      BY <3>3 DEF Writing, CreateSession, OccupyComputer, WritePlan, WritePause, WriteResume,
                  WriteMove
    <3>4. CASE (\E g \in Groups : ChangePrice(g)) \/ (\E c \in Computers : AgentRegister(c)) \/ Tick
      BY <3>4 DEF ChangePrice, AgentRegister, Tick
    <3>5. CASE UNCHANGED vars
      BY <3>5 DEF vars
    <3> QED
      BY <3>1, <3>2, <3>3, <3>4, <3>5 DEF Next
  <2>2. CASE accounts' = accounts
    BY <2>2 DEF NeverOverdrawn
  <2>3. ASSUME NEW w \in Workers, WriteClose(w), MustPay(w) PROVE NeverOverdrawn'
    <3> DEFINE k == req[w].row.customer
               u == PrepaidUnit(req[w].row.source)
               new == Posted(accounts[k][u], req[w].balance, - Charge(w), req[w].id)
    <3>1. k \in Customers /\ u \in Units
      BY <2>3, PayerTypes DEF TypeInv
    <3>2. accounts[k] \in [Units -> Accounts(Refs)] /\ accounts \in [Customers -> [Units -> Accounts(Refs)]]
      BY <3>1 DEF TypeInv, TypeOK
    <3>3. accounts[k][u] \in Accounts(Refs) /\ NonNegative(accounts[k][u])
      BY <3>1, <3>2 DEF NeverOverdrawn
    <3>4. - Charge(w) \in Int /\ req[w].id \in Refs
      <4>1. req[w].pc \in Loaded
        BY <2>3 DEF WriteClose, Write, Loaded
      <4> QED
        BY <4>1, ChargeTypes DEF TypeInv, LoadedOK, Refs
    <3>5. req[w].balance \in Int /\ ~ Insufficient(req[w].balance, - Charge(w))
      BY <2>3, RequestType DEF WriteClose, Write, Covered, TypeInv, Request
    <3>6. NonNegative(new)
      BY <3>3, <3>4, <3>5, PostedNonNegative
    <3>7. accounts' = [accounts EXCEPT ![k] = [accounts[k] EXCEPT ![u] = new]]
      BY <2>3 DEF WriteClose, AccountsAfterClose
    <3> HIDE DEF k, u, new
    <3>8. ASSUME NEW x \in Customers, NEW v \in Units PROVE NonNegative(accounts'[x][v])
      <4>1. accounts'[x][v] = new \/ accounts'[x][v] = accounts[x][v]
        BY <3>1, <3>2, <3>7
      <4> QED
        BY <3>6, <4>1 DEF NeverOverdrawn
    <3> QED
      BY <3>8 DEF NeverOverdrawn
  <2>4. ASSUME NEW w \in Workers, WriteClose(w), ~ MustPay(w) PROVE accounts' = accounts
    BY <2>4 DEF WriteClose, AccountsAfterClose
  <2> QED
    BY <2>1, <2>2, <2>3, <2>4
<1>3. Init => AllCovered
  BY DEF Init, Idle, Covered
<1>4. TypeInv /\ AllCovered /\ [Next]_vars => AllCovered'
  BY CoveredStep
<1> HIDE DEF AllCovered
<1> QED
  BY <1>1, <1>2, <1>3, <1>4, TypeInvariant, PTL DEF Spec

-------------------------------------------------------------------------------
(* The ledger.  Only a close posts, and it posts one row.                  *)
RowsIn(k, u) == accounts[k][u].rows
Pays(w, k, u) == MustPay(w) /\ k = req[w].row.customer /\ u = PrepaidUnit(req[w].row.source)

(* The sessions and the ledger by what their properties need: a row that   *)
(* the ledger has stays what and where it is.                              *)
RowsSame(k, u) == RowsIn(k, u)' = RowsIn(k, u)
OneRowMore(w, k, u) ==
  LET n == Len(RowsIn(k, u)) + 1 IN
  /\ n \in Nat /\ Len(RowsIn(k, u)') = n
  /\ \A i \in 1 .. Len(RowsIn(k, u)) : RowsIn(k, u)'[i] = RowsIn(k, u)[i]
  /\ RowsIn(k, u)'[n].ref = req[w].id /\ RowsIn(k, u)'[n].amount = - Charge(w)

LEMMA PostedRows ==
  ASSUME NEW acct \in Accounts(Refs), NEW read \in Int, NEW amount \in Int, NEW ref \in Refs
  PROVE  /\ Len(acct.rows) + 1 \in Nat
         /\ Len(Posted(acct, read, amount, ref).rows) = Len(acct.rows) + 1
         /\ \A i \in 1 .. Len(acct.rows) :
              Posted(acct, read, amount, ref).rows[i] = acct.rows[i]
         /\ Posted(acct, read, amount, ref).rows[Len(acct.rows) + 1].ref = ref
         /\ Posted(acct, read, amount, ref).rows[Len(acct.rows) + 1].amount = amount
<1> DEFINE row == [amount |-> amount, balanceAfter |-> read + amount, ref |-> ref]
           new == Posted(acct, read, amount, ref)
<1>1. acct.rows \in Seq(Rows(Refs))
  BY DEF Accounts
<1>2. row \in Rows(Refs) /\ row.ref = ref /\ row.amount = amount
  BY <1>1 DEF Rows
<1>3. new.rows = Append(acct.rows, row)
  BY DEF Posted, AppendRow, SetCached, Accounts
<1> HIDE DEF row, new
<1>4. /\ Len(new.rows) = Len(acct.rows) + 1 /\ Len(acct.rows) + 1 \in Nat
      /\ new.rows[Len(acct.rows) + 1] = row
      /\ \A i \in 1 .. Len(acct.rows) : new.rows[i] = acct.rows[i]
  BY <1>1, <1>2, <1>3, AppendProperties
<1> QED
  BY <1>2, <1>4 DEF new

LEMMA CloseRows ==
  ASSUME TypeInv, NEW w \in Workers, WriteClose(w), NEW k \in Customers, NEW u \in Units
  PROVE  IF Pays(w, k, u) THEN OneRowMore(w, k, u) ELSE RowsSame(k, u)
<1> DEFINE b == req[w].row.customer
           v == PrepaidUnit(req[w].row.source)
           new == Posted(accounts[b][v], req[w].balance, - Charge(w), req[w].id)
<1>1. accounts \in [Customers -> [Units -> Accounts(Refs)]]
  BY DEF TypeInv, TypeOK
<1>2. CASE ~ MustPay(w)
  BY <1>2 DEF WriteClose, AccountsAfterClose, Pays, RowsSame, RowsIn
<1>3. CASE MustPay(w)
  <2>1. b \in Customers /\ v \in Units
    BY <1>3, PayerTypes DEF TypeInv
  <2>2. accounts[b] \in [Units -> Accounts(Refs)] /\ accounts[b][v] \in Accounts(Refs)
    BY <1>1, <2>1
  <2>3. - Charge(w) \in Int /\ req[w].id \in Refs
    <3>1. req[w].pc \in Loaded
      BY DEF WriteClose, Write, Loaded
    <3> QED
      BY <3>1, ChargeTypes DEF TypeInv, LoadedOK, Refs
  <2>4. req[w].balance \in Int
    BY RequestType DEF TypeInv, Request
  <2>5. accounts' = [accounts EXCEPT ![b] = [accounts[b] EXCEPT ![v] = new]]
    BY <1>3 DEF WriteClose, AccountsAfterClose
  <2> DEFINE amount == - Charge(w)
             id == req[w].id
             read == req[w].balance
  <2>6. /\ Len(new.rows) = Len(accounts[b][v].rows) + 1 /\ Len(accounts[b][v].rows) + 1 \in Nat
        /\ new.rows[Len(accounts[b][v].rows) + 1].ref = id
        /\ new.rows[Len(accounts[b][v].rows) + 1].amount = amount
        /\ \A i \in 1 .. Len(accounts[b][v].rows) : new.rows[i] = accounts[b][v].rows[i]
    <3> DEFINE acct == accounts[b][v]
    <3>1. acct \in Accounts(Refs) /\ amount \in Int /\ id \in Refs /\ read \in Int
          /\ new = Posted(acct, read, amount, id)
      BY <2>2, <2>3, <2>4
    <3> HIDE DEF acct, amount, id, read, new
    <3>2. /\ Len(new.rows) = Len(acct.rows) + 1 /\ Len(acct.rows) + 1 \in Nat
          /\ new.rows[Len(acct.rows) + 1].ref = id /\ new.rows[Len(acct.rows) + 1].amount = amount
          /\ \A i \in 1 .. Len(acct.rows) : new.rows[i] = acct.rows[i]
      <4>1. acct \in Accounts(Refs) /\ amount \in Int /\ id \in Refs /\ read \in Int
        BY <3>1
      <4> DEFINE posted == Posted(acct, read, amount, id)
      <4>2. /\ Len(posted.rows) = Len(acct.rows) + 1 /\ Len(acct.rows) + 1 \in Nat
            /\ posted.rows[Len(acct.rows) + 1].ref = id
            /\ posted.rows[Len(acct.rows) + 1].amount = amount
            /\ \A i \in 1 .. Len(acct.rows) : posted.rows[i] = acct.rows[i]
        BY <4>1, PostedRows
      <4>3. new = posted
        BY <3>1
      <4> HIDE DEF posted
      <4> QED
        BY <4>2, <4>3
    <3> QED
      BY <3>2 DEF acct
  <2> HIDE DEF new, b, v
  <2>7. k = b /\ u = v => accounts'[k][u] = new
    BY <1>1, <2>1, <2>2, <2>5
  <2>8. ~ (k = b /\ u = v) => accounts'[k][u] = accounts[k][u]
    BY <1>1, <2>1, <2>2, <2>5
  <2>9. Pays(w, k, u) <=> k = b /\ u = v
    BY <1>3 DEF Pays, b, v
  <2>10. CASE Pays(w, k, u)
    BY <2>6, <2>7, <2>9, <2>10 DEF OneRowMore, RowsIn
  <2>11. CASE ~ Pays(w, k, u)
    BY <2>8, <2>9, <2>11 DEF RowsSame, RowsIn
  <2> QED
    BY <2>10, <2>11
<1> QED
  BY <1>2, <1>3

LEMMA OnlyClosesPost ==
  ASSUME [Next]_vars
  PROVE  accounts' = accounts \/ \E w \in Workers : WriteClose(w)
<1>1. ASSUME NEW w \in Workers, Arrival(w) PROVE accounts' = accounts
  BY <1>1 DEF Arrival, Open, AddTime, Transfer, Pause, Resume, Close, Load
<1>2. ASSUME NEW w \in Workers, Progress(w) \/ Crash(w) PROVE accounts' = accounts
  BY <1>2 DEF Progress, OpenComputerFree, OpenCustomerFree, OpenRefused, TargetFree,
              TargetBusy, ReadBalance, CloseRefused, Crash
<1>3. ASSUME NEW w \in Workers, Writing(w) PROVE accounts' = accounts \/ WriteClose(w)
  BY <1>3 DEF Writing, CreateSession, OccupyComputer, WritePlan, WritePause, WriteResume,
              WriteMove
<1>4. CASE (\E g \in Groups : ChangePrice(g)) \/ (\E c \in Computers : AgentRegister(c)) \/ Tick
  BY <1>4 DEF ChangePrice, AgentRegister, Tick
<1>5. CASE UNCHANGED vars
  BY <1>5 DEF vars
<1> QED
  BY <1>1, <1>2, <1>3, <1>4, <1>5 DEF Next

(* The rows of a session, before and after.                                *)
LEMMA RowsOfSame ==
  ASSUME NEW id, NEW k, NEW u, RowsSame(k, u)
  PROVE  RowsOf(id, k, u)' = RowsOf(id, k, u)
BY DEF RowsSame, RowsIn, RowsOf

LEMMA RowsOfMore ==
  ASSUME NEW w, NEW id, NEW k, NEW u, OneRowMore(w, k, u), Len(RowsIn(k, u)) \in Nat
  PROVE  RowsOf(id, k, u)' = IF id = req[w].id THEN RowsOf(id, k, u) \cup {Len(RowsIn(k, u)) + 1}
                             ELSE RowsOf(id, k, u)
<1> DEFINE n == Len(RowsIn(k, u)) + 1
           old == RowsIn(k, u)
           new == RowsIn(k, u)'
<1>1. /\ Len(old) \in Nat /\ n = Len(old) + 1 /\ Len(new) = n
      /\ \A i \in 1 .. Len(old) : new[i] = old[i]
      /\ new[n].ref = req[w].id
  BY DEF OneRowMore
<1>2. /\ RowsOf(id, k, u)' = {i \in 1 .. Len(new) : new[i].ref = id}
      /\ RowsOf(id, k, u) = {i \in 1 .. Len(old) : old[i].ref = id}
  BY DEF RowsOf, RowsIn
<1> HIDE DEF old, new, n
<1>3. \A i : i \in 1 .. Len(new) <=> i \in 1 .. Len(old) \/ i = n
  BY <1>1
<1>4. n \notin 1 .. Len(old)
  BY <1>1
<1> QED
  BY <1>1, <1>2, <1>3, <1>4 DEF n, old

-------------------------------------------------------------------------------
(* What the steps do to the rows of the sessions.                          *)
SameSession(id) ==
  /\ sessions'[id].status = sessions[id].status /\ sessions'[id].source = sessions[id].source
  /\ sessions'[id].customer = sessions[id].customer
  /\ sessions'[id].amountMinor = sessions[id].amountMinor

(* The operations that write a loaded session.                             *)
Writes(w) ==
  \/ Write(w, "addTime", Extended(w)) \/ Write(w, "pause", Paused(w))
  \/ Write(w, "resume", Resumed(w)) \/ Write(w, "move", Moved(w))
  \/ Write(w, "close", Ended(w)) \/ Write(w, "pay", Ended(w))

LEMMA SessionSteps ==
  ASSUME TypeInv, [Next]_vars, NEW id \in SessionIds
  PROVE  \/ sessions'[id] = sessions[id]
         \/ sessions[id].status = "NONE" /\ sessions'[id].status = "ACTIVE" /\ accounts' = accounts
         \/ \E w \in Workers : req[w].id = id /\ Writes(w) /\ (req[w].pc \in {"close", "pay"} => WriteClose(w))
<1>1. sessions \in [SessionIds -> Session]
  BY DEF TypeInv, TypeOK
<1>2. ASSUME NEW w \in Workers, Arrival(w) PROVE sessions' = sessions
  BY <1>2 DEF Arrival, Open, AddTime, Transfer, Pause, Resume, Close, Load
<1>3. ASSUME NEW w \in Workers, Progress(w) \/ Crash(w) PROVE sessions' = sessions
  BY <1>3 DEF Progress, OpenComputerFree, OpenCustomerFree, OpenRefused, TargetFree,
              TargetBusy, ReadBalance, CloseRefused, Crash
<1>4. ASSUME NEW w \in Workers, NEW new \in SessionIds, CreateSession(w, new)
      PROVE  \/ sessions'[id] = sessions[id]
             \/ sessions[id].status = "NONE" /\ sessions'[id].status = "ACTIVE" /\ accounts' = accounts
  BY <1>1, <1>4 DEF CreateSession, NoSession
<1>5. ASSUME NEW w \in Workers, OccupyComputer(w) PROVE sessions' = sessions
  BY <1>5 DEF OccupyComputer
<1>6. ASSUME NEW w \in Workers,
             WritePlan(w) \/ WritePause(w) \/ WriteResume(w) \/ WriteMove(w) \/ WriteClose(w)
      PROVE  sessions'[id] = sessions[id]
             \/ (req[w].id = id /\ Writes(w) /\ (req[w].pc \in {"close", "pay"} => WriteClose(w)))
  <2>1. Writes(w) /\ (req[w].pc \in {"close", "pay"} => WriteClose(w))
    BY <1>6 DEF Writes, WritePlan, WritePause, WriteResume, WriteMove, WriteClose, Write
  <2>2. req[w].id # id => sessions'[id] = sessions[id]
    BY <1>1, <2>1 DEF Writes, Write
  <2> QED
    BY <2>1, <2>2
<1>7. CASE (\E g \in Groups : ChangePrice(g)) \/ (\E c \in Computers : AgentRegister(c)) \/ Tick
  BY <1>7 DEF ChangePrice, AgentRegister, Tick
<1>8. CASE UNCHANGED vars
  BY <1>8 DEF vars
<1> QED
  BY <1>2, <1>3, <1>4, <1>5, <1>6, <1>7, <1>8 DEF Next, Writing

LEMMA WrittenSession ==
  ASSUME TypeInv, NEW w \in Workers, Writes(w), NEW id, id = req[w].id
  PROVE  /\ req[w].pc \in Loaded /\ id \in SessionIds
         /\ sessions'[id].customer = sessions[id].customer
         /\ sessions'[id].source = sessions[id].source
         /\ req[w].pc = "addTime" => SameSession(id)
         /\ req[w].pc = "pause" => sessions'[id].status = "PAUSED"
         /\ req[w].pc = "resume" => sessions'[id].status = "ACTIVE"
         /\ req[w].pc = "move" => sessions'[id].status = sessions[id].status
         /\ req[w].pc \in {"close", "pay"} => /\ sessions'[id].status = "ENDED"
                                              /\ sessions'[id].amountMinor = FinalTotal(w)
         /\ \A s \in SessionIds : s # id => sessions'[s] = sessions[s]
<1>1. req[w].pc \in Loaded
  BY DEF Writes, Write, Loaded
<1>2. id \in SessionIds /\ sessions \in [SessionIds -> Session] /\ Row(w) = sessions[id]
      /\ Row(w) \in Session
  BY <1>1 DEF TypeInv, TypeOK, LoadedOK, Row
<1>3. \A s \in SessionIds : s # id => sessions'[s] = sessions[s]
  BY <1>2 DEF Writes, Write
<1>4. CASE Write(w, "addTime", Extended(w))
  <2>1. sessions'[id] = Extended(w) /\ req[w].pc = "addTime"
    BY <1>2, <1>4 DEF Write
  <2>2. /\ Extended(w).status = Row(w).status /\ Extended(w).source = Row(w).source
        /\ Extended(w).customer = Row(w).customer /\ Extended(w).amountMinor = Row(w).amountMinor
    BY <1>2 DEF Extended, Session
  <2> QED
    BY <1>1, <1>2, <1>3, <2>1, <2>2 DEF SameSession
<1>5. CASE Write(w, "pause", Paused(w))
  <2>1. sessions'[id] = Paused(w) /\ req[w].pc = "pause"
    BY <1>2, <1>5 DEF Write
  <2>2. /\ Paused(w).status = "PAUSED" /\ Paused(w).source = Row(w).source
        /\ Paused(w).customer = Row(w).customer
    BY <1>2 DEF Paused, Billed, Session
  <2> QED
    BY <1>1, <1>2, <1>3, <2>1, <2>2
<1>6. CASE Write(w, "resume", Resumed(w))
  <2>1. sessions'[id] = Resumed(w) /\ req[w].pc = "resume"
    BY <1>2, <1>6 DEF Write
  <2>2. /\ Resumed(w).status = "ACTIVE" /\ Resumed(w).source = Row(w).source
        /\ Resumed(w).customer = Row(w).customer
    BY <1>2 DEF Resumed, Session
  <2> QED
    BY <1>1, <1>2, <1>3, <2>1, <2>2
<1>7. CASE Write(w, "move", Moved(w))
  <2>1. sessions'[id] = Moved(w) /\ req[w].pc = "move"
    BY <1>2, <1>7 DEF Write
  <2>2. /\ Moved(w).status = Row(w).status /\ Moved(w).source = Row(w).source
        /\ Moved(w).customer = Row(w).customer
    BY <1>2 DEF Moved, Billed, Session
  <2> QED
    BY <1>1, <1>2, <1>3, <2>1, <2>2
<1>8. CASE Write(w, "close", Ended(w)) \/ Write(w, "pay", Ended(w))
  <2>1. sessions'[id] = Ended(w) /\ req[w].pc \in {"close", "pay"}
    BY <1>2, <1>8 DEF Write
  <2>2. /\ Ended(w).status = "ENDED" /\ Ended(w).source = Row(w).source
        /\ Ended(w).customer = Row(w).customer /\ Ended(w).amountMinor = FinalTotal(w)
    BY <1>2 DEF Ended, Session
  <2> QED
    BY <1>1, <1>2, <1>3, <2>1, <2>2
<1> QED
  BY <1>4, <1>5, <1>6, <1>7, <1>8 DEF Writes

(* Whoever opened a session and how it is paid never changes.              *)
LEMMA OwnersStay ==
  ASSUME TypeInv, [Next]_vars, NEW id \in SessionIds, sessions[id].status # "NONE"
  PROVE  /\ sessions'[id].status # "NONE"
         /\ sessions'[id].customer = sessions[id].customer
         /\ sessions'[id].source = sessions[id].source
<1>1. ASSUME NEW w \in Workers, req[w].id = id, Writes(w)
      PROVE  /\ sessions'[id].status # "NONE"
             /\ sessions'[id].customer = sessions[id].customer
             /\ sessions'[id].source = sessions[id].source
  <2>1. req[w].pc \in {"addTime", "pause", "resume", "move", "close", "pay"}
    BY <1>1 DEF Writes, Write
  <2> QED
    BY <1>1, <2>1, WrittenSession DEF SameSession
<1> QED
  BY <1>1, SessionSteps

(* A close charges whom the row that it has loaded names.                  *)
Owned(w) ==
  req[w].pc \in Loaded =>
    /\ sessions[req[w].id].status # "NONE"
    /\ req[w].row.customer = sessions[req[w].id].customer
    /\ req[w].row.source = sessions[req[w].id].source
OwnedInv == TypeInv /\ \A w \in Workers : Owned(w)

LEMMA OwnedInit == Init => OwnedInv
BY TypeInit DEF Init, Idle, Loaded, OwnedInv, Owned

LEMMA OwnedStep == OwnedInv /\ [Next]_vars => OwnedInv'
<1> SUFFICES ASSUME OwnedInv, [Next]_vars, NEW w \in Workers, req'[w].pc \in Loaded
             PROVE  /\ sessions'[req'[w].id].status # "NONE"
                    /\ req'[w].row.customer = sessions'[req'[w].id].customer
                    /\ req'[w].row.source = sessions'[req'[w].id].source
  BY TypeStep DEF OwnedInv, Owned
<1>1. TypeInv /\ Owned(w)
  BY DEF OwnedInv
<1>2. CASE req[w].pc \in Loaded /\ req'[w].id = req[w].id /\ req'[w].row = req[w].row
  <2>1. req[w].id \in SessionIds
    BY <1>1, <1>2 DEF TypeInv, LoadedOK
  <2> QED
    BY <1>1, <1>2, <2>1, OwnersStay DEF Owned
<1>3. ASSUME NEW id \in SessionIds, Live(id), req'[w].id = id, req'[w].row = sessions[id],
             sessions' = sessions
      PROVE  /\ sessions'[req'[w].id].status # "NONE"
             /\ req'[w].row.customer = sessions'[req'[w].id].customer
             /\ req'[w].row.source = sessions'[req'[w].id].source
  BY <1>3 DEF Live
<1> QED
  BY <1>1, <1>2, <1>3, LoadedStep

-------------------------------------------------------------------------------
(* Overlapping requests without moves: a move that overlaps a close writes *)
(* an amount into the ended row.                                           *)
NoMoves == \A w \in Workers : req[w].pc \notin {"transfer", "move"}

(* The latest row of a session in an account.                              *)
LatestIs(id, k, amount) ==
  \E i \in RowsOf(id, k, "MONEY") :
    (\A j \in RowsOf(id, k, "MONEY") : j <= i) /\ RowsIn(k, "MONEY")[i].amount = amount

LEMMA LatestKept ==
  ASSUME NEW w, NEW id, NEW k, NEW amount, LatestIs(id, k, amount),
         Len(RowsIn(k, "MONEY")) \in Nat,
         RowsSame(k, "MONEY") \/ (OneRowMore(w, k, "MONEY") /\ id # req[w].id)
  PROVE  LatestIs(id, k, amount)'
<1>1. RowsOf(id, k, "MONEY")' = RowsOf(id, k, "MONEY")
  BY RowsOfSame, RowsOfMore
<1>2. \A i \in RowsOf(id, k, "MONEY") : i \in 1 .. Len(RowsIn(k, "MONEY"))
  BY DEF RowsOf, RowsIn
<1>3. \A i \in RowsOf(id, k, "MONEY") : RowsIn(k, "MONEY")'[i] = RowsIn(k, "MONEY")[i]
  BY <1>2 DEF RowsSame, OneRowMore
<1> QED
  BY <1>1, <1>3 DEF LatestIs

LEMMA LatestPosted ==
  ASSUME NEW w, NEW id, NEW k, OneRowMore(w, k, "MONEY"), id = req[w].id,
         Len(RowsIn(k, "MONEY")) \in Nat, NEW amount, amount = - Charge(w)
  PROVE  LatestIs(id, k, amount)'
<1> DEFINE n == Len(RowsIn(k, "MONEY")) + 1
<1>1. RowsOf(id, k, "MONEY")' = RowsOf(id, k, "MONEY") \cup {n}
  BY RowsOfMore
<1>2. \A i \in RowsOf(id, k, "MONEY") : i <= n
  BY DEF RowsOf, RowsIn
<1>3. RowsIn(k, "MONEY")'[n].amount = amount /\ n \in Nat
  BY DEF OneRowMore
<1>4. n \in RowsOf(id, k, "MONEY")' /\ \A j \in RowsOf(id, k, "MONEY")' : j <= n
  BY <1>1, <1>2, <1>3
<1> HIDE DEF n
<1> QED
  BY <1>3, <1>4 DEF LatestIs

LEMMA RowsType ==
  ASSUME TypeInv, NEW k \in Customers, NEW u \in Units
  PROVE  Len(RowsIn(k, u)) \in Nat
<1>1. accounts[k][u].rows \in Seq(Rows(Refs))
  BY DEF TypeInv, TypeOK, Accounts
<1> QED
  BY <1>1 DEF RowsIn

(* A session that owes its charge, and that it was charged.                *)
Owes(id) ==
  /\ sessions[id].status = "ENDED" /\ sessions[id].customer # Nobody
  /\ sessions[id].source = "MONEY_BALANCE" /\ sessions[id].amountMinor > 0
LastChargeIsAmount(id) ==
  LatestIs(id, sessions[id].customer, - sessions[id].amountMinor)

LEMMA EndedMeansCharged == EndedAmountWasCharged <=> \A id \in SessionIds : Owes(id) => LastChargeIsAmount(id)
BY DEF EndedAmountWasCharged, Owes, LastChargeIsAmount, LatestIs, RowsIn

LEMMA ChargedStep ==
  ASSUME OwnedInv, NoMoves, [Next]_vars,
         \A id \in SessionIds : Owes(id) => LastChargeIsAmount(id),
         NEW id \in SessionIds, Owes(id)'
  PROVE  LastChargeIsAmount(id)'
<1> PICK k : k = sessions'[id].customer
  OBVIOUS
<1> PICK a : a = - sessions'[id].amountMinor
  OBVIOUS
<1>1. TypeInv /\ TypeInv' /\ k \in Customers /\ "MONEY" \in Units
  <2>1. TypeInv /\ TypeInv'
    BY TypeStep DEF OwnedInv
  <2> QED
    BY <2>1 DEF TypeInv, TypeOK, Session, Owes, Units
<1>2. Len(RowsIn(k, "MONEY")) \in Nat
  BY <1>1, RowsType
<1>3. SUFFICES LatestIs(id, k, a)'
  BY DEF LastChargeIsAmount, LatestIs
<1>4. ASSUME SameSession(id) PROVE LatestIs(id, k, a)
  <2>1. Owes(id)
    BY <1>4 DEF SameSession, Owes
  <2> QED
    BY <1>4, <2>1 DEF SameSession, LastChargeIsAmount
<1>5. CASE accounts' = accounts /\ SameSession(id)
  <2>1. RowsSame(k, "MONEY")
    BY <1>5 DEF RowsSame, RowsIn
  <2> QED
    BY <1>2, <1>4, <1>5, <2>1, LatestKept
<1>6. ASSUME NEW w \in Workers, WriteClose(w), req[w].id # id PROVE LatestIs(id, k, a)'
  <2>1. Writes(w)
    BY <1>6 DEF Writes, WriteClose
  <2>2. SameSession(id)
    BY <1>1, <1>6, <2>1, WrittenSession DEF SameSession
  <2>3. RowsSame(k, "MONEY") \/ OneRowMore(w, k, "MONEY")
    BY <1>1, <1>6, CloseRows
  <2> QED
    BY <1>2, <1>4, <1>6, <2>2, <2>3, LatestKept
<1>7. ASSUME NEW w \in Workers, WriteClose(w), req[w].id = id PROVE LatestIs(id, k, a)'
  <2>1. Writes(w) /\ req[w].pc \in {"close", "pay"}
    BY <1>7 DEF Writes, WriteClose, Write
  <2>2. /\ sessions'[id].amountMinor = FinalTotal(w) /\ req[w].pc \in Loaded
        /\ sessions'[id].customer = sessions[id].customer
        /\ sessions'[id].source = sessions[id].source
    BY <1>1, <1>7, <2>1, WrittenSession
  <2>3. req[w].row.customer = k /\ req[w].row.source = "MONEY_BALANCE" /\ FinalTotal(w) > 0
        /\ k # Nobody
    BY <1>7, <2>2 DEF OwnedInv, Owned, Owes
  <2>4. Pays(w, k, "MONEY") /\ a = - Charge(w)
    BY <2>2, <2>3 DEF Pays, MustPay, Prepaid, PrepaidUnit, Charge
  <2>5. OneRowMore(w, k, "MONEY")
    BY <1>1, <1>7, <2>4, CloseRows
  <2> QED
    BY <1>2, <1>7, <2>4, <2>5, LatestPosted
<1>8. SameSession(id) \/ \E w \in Workers : WriteClose(w) /\ req[w].id = id
  <2>1. CASE sessions'[id] = sessions[id]
    BY <2>1 DEF SameSession
  <2>2. ASSUME NEW w \in Workers, req[w].id = id, Writes(w), req[w].pc \in {"close", "pay"} => WriteClose(w)
        PROVE  SameSession(id) \/ WriteClose(w)
    <3>1. req[w].pc \in {"addTime", "pause", "resume", "move", "close", "pay"} /\ req[w].pc # "move"
      BY <2>2 DEF Writes, Write, NoMoves
    <3> QED
      BY <1>1, <2>2, <3>1, WrittenSession DEF Owes
  <2> QED
    BY <1>1, <2>1, <2>2, SessionSteps DEF Owes
<1> QED
  BY <1>5, <1>6, <1>7, <1>8, OnlyClosesPost

(* However requests overlap and die, as long as sessions are not moved: a  *)
(* session that is ended and has an amount was charged that amount last.   *)
THEOREM EndedWasCharged ==
  ASSUME "transfer" \notin Operations
  PROVE  Spec => []EndedAmountWasCharged
<1> DEFINE Charged == \A id \in SessionIds : Owes(id) => LastChargeIsAmount(id)
<1>1. Init => OwnedInv /\ NoMoves /\ Charged
  <2>1. Init => NoMoves
    BY DEF Init, NoMoves, Idle
  <2>2. Init => Charged
    BY DEF Init, NoSession, Owes
  <2> QED
    BY <2>1, <2>2, OwnedInit
<1>2. OwnedInv /\ NoMoves /\ [Next]_vars => NoMoves'
  <2> SUFFICES ASSUME OwnedInv, NoMoves, [Next]_vars, NEW w \in Workers,
                      req'[w].pc \in {"transfer", "move"}
               PROVE  FALSE
    BY DEF NoMoves
  <2>1. req'[w].pc \in Loaded /\ TypeInv
    BY DEF Loaded, OwnedInv
  <2>2. ReadBalance(w) => req'[w].pc = "pay"
    BY <2>1 DEF ReadBalance, TypeInv, TypeOK, Request
  <2> QED
    BY <2>1, <2>2, LoadedStep DEF NoMoves
<1>3. OwnedInv /\ NoMoves /\ Charged /\ [Next]_vars => Charged'
  BY ChargedStep
<1>4. Charged <=> EndedAmountWasCharged
  BY EndedMeansCharged
<1> HIDE DEF Charged
<1> QED
  BY <1>1, <1>2, <1>3, <1>4, OwnedStep, PTL DEF Spec
===============================================================================
