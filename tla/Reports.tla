-------------------------------- MODULE Reports --------------------------------
(***************************************************************************)
(* ReportsService and DashboardService: the sums that managers are shown   *)
(* of a range of time.  A report is three queries that are not of one      *)
(* moment, while sales are paid, refunded and sessions end.  A sale has    *)
(* one payment; the rows are those that Sales and Sessions write.          *)
(***************************************************************************)
EXTENDS Integers, Sequences, FiniteSetsExt

CONSTANTS
  Branches,
  Takings,   \* amounts paid, refunded and billed
  MaxRows,   \* bound: rows
  MaxMoment  \* bound of the clock

ASSUME ReportsAssumption == Takings \subseteq Nat /\ {MaxRows, MaxMoment} \subseteq Nat

VARIABLES
  moment,    \* the clock; a day is midnight and the time after it
  payments,  \* Payment rows by age: made at, amount, whether COMPLETED
  refunds,   \* Refund rows by age
  endings,   \* UsageSession rows that are ENDED, by age
  report     \* the report or dashboard that is being computed

reportVars == <<moment, payments, refunds, endings, report>>

PerDay == 2

Figures == {"usage", "sales", "refunds"}
NoFigures == [f \in Figures |-> 0]
NoReport == [preset |-> "none", asked |-> 0, branches |-> {}, left |-> {},
             figures |-> NoFigures]

ReportsInit ==
  /\ moment = 0
  /\ payments = << >> /\ refunds = << >> /\ endings = << >>
  /\ report = NoReport

-------------------------------------------------------------------------------
(* The rows.                                                               *)

RowMayCome == Len(payments) + Len(refunds) + Len(endings) < MaxRows

PayNow(amount) ==
  /\ RowMayCome
  /\ payments' = Append(payments, [at |-> moment, amount |-> amount, completed |-> TRUE])
  /\ UNCHANGED <<moment, refunds, endings, report>>

PrepareCard(amount) ==
  /\ RowMayCome
  /\ payments' = Append(payments, [at |-> moment, amount |-> amount, completed |-> FALSE])
  /\ UNCHANGED <<moment, refunds, endings, report>>

SettleCard(p) ==
  /\ ~ payments[p].completed
  /\ payments' = [payments EXCEPT ![p].completed = TRUE]
  /\ UNCHANGED <<moment, refunds, endings, report>>

RefundSale(p, amount) ==
  /\ RowMayCome
  /\ payments[p].completed /\ amount <= payments[p].amount
  /\ refunds' = Append(refunds, [at |-> moment, amount |-> amount])
  /\ UNCHANGED <<moment, payments, endings, report>>

EndSession(b, amount) ==
  /\ RowMayCome
  /\ endings' = Append(endings, [at |-> moment, branch |-> b, amount |-> amount])
  /\ UNCHANGED <<moment, payments, refunds, report>>

TimePasses ==
  /\ moment < MaxMoment
  /\ moment' = moment + 1
  /\ UNCHANGED <<payments, refunds, endings, report>>

-------------------------------------------------------------------------------
(* resolveRange, with both ends included.  The days of the model are in    *)
(* one week, so that every longer preset begins before them.               *)
Presets == {"today", "yesterday", "month"}

StartOfDay(m) == (m \div PerDay) * PerDay
RangeFrom(preset, now) ==
  CASE preset = "yesterday" -> StartOfDay(now) - PerDay
    [] preset \in {"today", "dashboard"} -> StartOfDay(now)
    [] OTHER -> 0
RangeTo(preset, now) ==
  CASE preset = "yesterday" -> StartOfDay(now)
    [] preset = "dashboard" -> MaxMoment
    [] OTHER -> now

InRange(row) == row.at \in RangeFrom(report.preset, report.asked) .. RangeTo(report.preset, report.asked)

(* No branches: all of them.  Payments and refunds are of every branch.    *)
InScope(row) == report.branches = {} \/ row.branch \in report.branches

AmountOf(rows, Counts(_)) ==
  MapThenSumSet(LAMBDA i : rows[i].amount, {i \in DOMAIN rows : Counts(rows[i])})

AskFor(preset, queries) == \E branches \in {{}} \cup {{b} : b \in Branches} :
  /\ report.left = {}
  /\ report' = [NoReport EXCEPT !.preset = preset, !.asked = moment, !.branches = branches,
                                !.left = queries]
  /\ UNCHANGED <<moment, payments, refunds, endings>>

AskRevenue(preset) == AskFor(preset, Figures)
AskMetrics == AskFor("dashboard", {"usage"})

Read(f, sum) ==
  /\ f \in report.left
  /\ report' = [report EXCEPT !.left = @ \ {f}, !.figures[f] = sum]
  /\ UNCHANGED <<moment, payments, refunds, endings>>

ReadUsage == Read("usage", AmountOf(endings, LAMBDA s : InRange(s) /\ InScope(s)))
ReadSales == Read("sales", AmountOf(payments, LAMBDA p : p.completed /\ InRange(p)))
ReadRefunds == Read("refunds", AmountOf(refunds, InRange))

ReportsNext ==
  \/ \E amount \in Takings :
       \/ PayNow(amount) \/ PrepareCard(amount)
       \/ \E p \in DOMAIN payments : RefundSale(p, amount)
       \/ \E b \in Branches : EndSession(b, amount)
  \/ \E p \in DOMAIN payments : SettleCard(p)
  \/ \E preset \in Presets : AskRevenue(preset)
  \/ AskMetrics
  \/ ReadUsage \/ ReadSales \/ ReadRefunds
  \/ TimePasses

-------------------------------------------------------------------------------
ReportsTypeOK ==
  /\ moment \in 0 .. MaxMoment
  /\ report.left \subseteq Figures /\ report.branches \subseteq Branches
===============================================================================
