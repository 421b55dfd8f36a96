------------------------------- MODULE Charges -------------------------------
(***************************************************************************)
(* SubscriptionsService with the hourly sweep of JobsService, and          *)
(* PrintService: both take money or pages from a customer's balance while  *)
(* other requests load it or cancel what they are charging for.  A sweep   *)
(* is a loop over rows it has read before.  Every transaction reads the    *)
(* balance in one step, without a lock, and writes what it computed from   *)
(* it when it commits (see BalanceTx for the statements in between), so    *)
(* two that overlap may lose a change of the cached balance.               *)
(***************************************************************************)
EXTENDS Accounts, FiniteSets

CONSTANTS
  Payers,         \* customers
  Subs, PayerOf, PriceOf,      \* subscriptions, whose they are, what a period costs
  Jobs, OwnerOf, PagesOf, CostOf, \* print jobs, whose, pages times copies, their price
  WalkIn,         \* the owner of a job without a customer
  Sweepers,       \* sweeps at the same time: the hourly job, "process-due" requests
  Approvers,      \* approvals at the same time
  MaxDay,         \* bound of the clock, in periods
  MaxLoads, LoadAmount,        \* bound: loads of a balance, and what is loaded
  MaxJobs,        \* bound: print jobs sent
  MaxFaults       \* bound: crashes, and transactions that fail

ASSUME ChargesAssumption ==
  /\ PayerOf \in [Subs -> Payers] /\ PriceOf \in [Subs -> Nat \ {0}]
  /\ WalkIn \notin Payers
  /\ Subs \cap Jobs = {} /\ {"load", "nothing"} \cap (Subs \cup Jobs) = {}
  /\ OwnerOf \in [Jobs -> Payers \cup {WalkIn}]
  /\ PagesOf \in [Jobs -> Nat \ {0}] /\ CostOf \in [Jobs -> Nat]
  /\ {MaxDay, MaxLoads, MaxJobs, MaxFaults} \subseteq Nat
  /\ LoadAmount \in [{"MONEY", "PRINT_BW"} -> Nat \ {0}]

VARIABLES
  subs,      \* subscription -> its row
  jobs,      \* print job -> its status
  books,     \* customer -> unit -> account
  sweeps,    \* sweeper -> the rows it has still to charge, the one it is charging with the
             \* balance read for it, and one that failed
  approving, \* approver -> the job it has read as pending, and what it takes for it
  loading,   \* loads that have read the balance
  day,
  loads, faults \* loads and faults so far (bounds)

chargeVars == <<subs, jobs, books, sweeps, approving, loading, day, loads, faults>>

Nothing == "nothing"
NoSub == [status |-> "NONE", autoRenew |-> FALSE, externalRef |-> FALSE, cancelledAt |-> 0,
          firstEnd |-> 0, currentPeriodEnd |-> 0]
Idle == [running |-> FALSE, due |-> {}, reading |-> {}, failed |-> {}]
Undecided == [pc |-> "idle", job |-> Nothing, unit |-> "MONEY", balance |-> 0]

ChargesInit ==
  /\ subs = [s \in Subs |-> NoSub]
  /\ jobs = [j \in Jobs |-> "NONE"]
  /\ books = [k \in Payers |-> [u \in Units |-> EmptyAccount]]
  /\ sweeps = [w \in Sweepers |-> Idle]
  /\ approving = [c \in Approvers |-> Undecided]
  /\ loading = {}
  /\ day = 0 /\ loads = 0 /\ faults = 0

(* applyWithin: what it reads, its test, and what it commits.              *)
Balance(k, u) == books[k][u].cached
Covers(balance, amount) == ~ Insufficient(balance, - amount)
Post(k, u, balance, amount, ref) ==
  books' = [books EXCEPT ![k][u] = Posted(@, balance, amount, ref)]

(* loadBalance and package credits.                                        *)
StartLoad(k, u) ==
  /\ loads < MaxLoads
  /\ loads' = loads + 1
  /\ loading' = loading \cup
       {[payer |-> k, unit |-> u, balance |-> Balance(k, u), number |-> loads]}
  /\ UNCHANGED <<subs, jobs, books, sweeps, approving, day, faults>>

Load(l) ==
  /\ Post(l.payer, l.unit, l.balance, LoadAmount[l.unit], "load")
  /\ loading' = loading \ {l}
  /\ UNCHANGED <<subs, jobs, sweeps, approving, day, loads, faults>>

-------------------------------------------------------------------------------
(* Subscriptions.  firstEnd (history) is the end of the period that        *)
(* creating a subscription gives without a charge.                         *)

NewSub(external) ==
  [status |-> "ACTIVE", autoRenew |-> ~ external, externalRef |-> external, cancelledAt |-> 0,
   firstEnd |-> day + 1, currentPeriodEnd |-> day + 1]

Create(s) ==
  /\ subs[s].status = "NONE"
  /\ subs' = [subs EXCEPT ![s] = NewSub(FALSE)]
  /\ UNCHANGED <<jobs, books, sweeps, approving, loading, day, loads, faults>>

(* A standing order at Nedarim Plus.                                       *)
CreateExternal(s) ==
  /\ subs[s].status = "NONE"
  /\ subs' = [subs EXCEPT ![s] = NewSub(TRUE)]
  /\ UNCHANGED <<jobs, books, sweeps, approving, loading, day, loads, faults>>

Cancelled(row) ==
  [row EXCEPT !.status = "CANCELLED", !.cancelledAt = day, !.autoRenew = FALSE]

Cancel(s) ==
  /\ subs[s].status # "NONE"
  /\ subs' = [subs EXCEPT ![s] = Cancelled(@)]
  /\ UNCHANGED <<jobs, books, sweeps, approving, loading, day, loads, faults>>

AlsoExternal(s) == subs[s].status = "ACTIVE" /\ subs[s].currentPeriodEnd <= day
DueTomorrow(s) ==
  subs[s].status = "ACTIVE" /\ subs[s].autoRenew /\ subs[s].currentPeriodEnd <= day + 1
LongDue(s) ==
  subs[s].status = "ACTIVE" /\ subs[s].autoRenew /\ subs[s].currentPeriodEnd < day
Due(s) ==
  subs[s].status = "ACTIVE" /\ subs[s].autoRenew /\ subs[s].currentPeriodEnd <= day

(* processDue reads the rows that are due ...                              *)
StartSweep(w) ==
  /\ ~ sweeps[w].running
  /\ \E s \in Subs : Due(s)
  /\ sweeps' = [sweeps EXCEPT ![w] =
       [running |-> TRUE, reading |-> {}, failed |-> {},
        due |-> {[id |-> s, end |-> subs[s].currentPeriodEnd] : s \in {t \in Subs : Due(t)}}]]
  /\ UNCHANGED <<subs, jobs, books, approving, loading, day, loads, faults>>

Rest(w, row) ==
  LET rest == sweeps[w].due \ {row} IN
  IF rest = {} THEN Idle ELSE [sweeps[w] EXCEPT !.due = rest, !.reading = {}, !.failed = {}]

(* ... and charges them one by one: the transaction reads the balance ...  *)
StartCharge(w, row) ==
  /\ sweeps[w].reading = {} /\ sweeps[w].failed = {}
  /\ sweeps' = [sweeps EXCEPT ![w].reading =
                  {[row |-> row, balance |-> Balance(PayerOf[row.id], "MONEY")]}]
  /\ UNCHANGED <<subs, jobs, books, approving, loading, day, loads, faults>>

(* ... takes the price, and the next period counts from what was read.     *)
Advanced(row) == row.end + 1

Charge(w, t) ==
  LET s == t.row.id IN
  /\ Covers(t.balance, PriceOf[s])
  /\ Post(PayerOf[s], "MONEY", t.balance, - PriceOf[s], s)
  /\ subs' = [subs EXCEPT ![s].currentPeriodEnd = Advanced(t.row)]
  /\ sweeps' = [sweeps EXCEPT ![w] = Rest(w, t.row)]
  /\ UNCHANGED <<jobs, approving, loading, day, loads, faults>>

(* The transaction is rolled back, for want of money or another reason.    *)
ChargeFails(w, t) ==
  /\ \/ ~ Covers(t.balance, PriceOf[t.row.id]) /\ faults' = faults
     \/ faults < MaxFaults /\ faults' = faults + 1
  /\ sweeps' = [sweeps EXCEPT ![w].reading = {}, ![w].failed = {t.row}]
  /\ UNCHANGED <<subs, jobs, books, approving, loading, day, loads>>

MarkPastDue(w, row) ==
  /\ subs' = [subs EXCEPT ![row.id].status = "PAST_DUE"]
  /\ sweeps' = [sweeps EXCEPT ![w] = Rest(w, row)]
  /\ UNCHANGED <<jobs, books, approving, loading, day, loads, faults>>

SweepDies(w) ==
  /\ sweeps[w].running
  /\ faults < MaxFaults
  /\ faults' = faults + 1
  /\ sweeps' = [sweeps EXCEPT ![w] = Idle]
  /\ UNCHANGED <<subs, jobs, books, approving, loading, day, loads>>

-------------------------------------------------------------------------------
(* Print jobs.                                                             *)

CreateJob(j) ==
  /\ jobs[j] = "NONE"
  /\ Cardinality({i \in Jobs : jobs[i] # "NONE"}) < MaxJobs
  /\ jobs' = [jobs EXCEPT ![j] = "PENDING_APPROVAL"]
  /\ UNCHANGED <<subs, books, sweeps, approving, loading, day, loads, faults>>

(* approve reads the job before its transaction ...                        *)
NotYetCompleted(j) == jobs[j] \in {"PENDING_APPROVAL", "CANCELLED"}
Approvable(j) == jobs[j] = "PENDING_APPROVAL"

Approve(c, j) ==
  /\ approving[c].pc = "idle"
  /\ Approvable(j)
  /\ approving' = [approving EXCEPT ![c] =
                     [pc |-> "found", job |-> j, unit |-> "MONEY", balance |-> 0]]
  /\ UNCHANGED <<subs, jobs, books, sweeps, loading, day, loads, faults>>

(* ... which takes pages if they suffice, else money: it reads the quota,  *)
(* and applyWithin reads the balance of the unit that was chosen.          *)
EnoughPages(j) == Balance(OwnerOf[j], "PRINT_BW") >= PagesOf[j]
Amount(j, unit) == IF unit = "PRINT_BW" THEN PagesOf[j] ELSE CostOf[j]

ChooseUnit(c) ==
  LET j == approving[c].job IN
  /\ approving[c].pc = "found" /\ OwnerOf[j] # WalkIn
  /\ approving' = [approving EXCEPT ![c].pc = "chosen",
                     ![c].unit = IF EnoughPages(j) THEN "PRINT_BW" ELSE "MONEY"]
  /\ UNCHANGED <<subs, jobs, books, sweeps, loading, day, loads, faults>>

ReadBalance(c) ==
  /\ approving[c].pc = "chosen"
  /\ approving' = [approving EXCEPT ![c].pc = "taking",
                     ![c].balance = Balance(OwnerOf[approving[c].job], approving[c].unit)]
  /\ UNCHANGED <<subs, jobs, books, sweeps, loading, day, loads, faults>>

Affords(c) == Covers(approving[c].balance, Amount(approving[c].job, approving[c].unit))

CommitApproval(c) ==
  LET j == approving[c].job  u == approving[c].unit IN
  /\ \/ approving[c].pc = "found" /\ OwnerOf[j] = WalkIn /\ UNCHANGED books
     \/ /\ approving[c].pc = "taking" /\ Affords(c)
        /\ Post(OwnerOf[j], u, approving[c].balance, - Amount(j, u), j)
  /\ jobs' = [jobs EXCEPT ![j] = "COMPLETED"]
  /\ approving' = [approving EXCEPT ![c] = Undecided]
  /\ UNCHANGED <<subs, sweeps, loading, day, loads, faults>>

CannotApprove(c) ==
  /\ approving[c].pc = "taking" /\ ~ Affords(c)
  /\ approving' = [approving EXCEPT ![c] = Undecided]
  /\ UNCHANGED <<subs, jobs, books, sweeps, loading, day, loads, faults>>

CancelJob(j) ==
  /\ jobs[j] # "NONE"
  /\ jobs' = [jobs EXCEPT ![j] = "CANCELLED"]
  /\ UNCHANGED <<subs, books, sweeps, approving, loading, day, loads, faults>>

NextDay ==
  /\ day < MaxDay
  /\ day' = day + 1
  /\ UNCHANGED <<subs, jobs, books, sweeps, approving, loading, loads, faults>>

Sweep(w) ==
  \/ StartSweep(w)
  \/ \E row \in sweeps[w].due : StartCharge(w, row)
  \/ \E t \in sweeps[w].reading : Charge(w, t) \/ ChargeFails(w, t)
  \/ \E row \in sweeps[w].failed : MarkPastDue(w, row)

Approval(c) ==
  \/ \E j \in Jobs : Approve(c, j)
  \/ ChooseUnit(c) \/ ReadBalance(c) \/ CommitApproval(c) \/ CannotApprove(c)

ChargesNext ==
  \/ \E w \in Sweepers : Sweep(w) \/ SweepDies(w)
  \/ \E s \in Subs : Create(s) \/ CreateExternal(s) \/ Cancel(s)
  \/ \E c \in Approvers : Approval(c)
  \/ \E j \in Jobs : CreateJob(j) \/ CancelJob(j)
  \/ \E k \in Payers, u \in {"MONEY", "PRINT_BW"} : StartLoad(k, u)
  \/ \E l \in loading : Load(l)
  \/ NextDay

ChargesSpec == ChargesInit /\ [][ChargesNext]_chargeVars

(* The job runs every hour, and a sweep that runs goes on.                 *)
ChargesFairSpec == ChargesSpec /\ \A w \in Sweepers : WF_chargeVars(Sweep(w))

-------------------------------------------------------------------------------
Sub == [status : {"NONE", "ACTIVE", "PAST_DUE", "CANCELLED"}, autoRenew : BOOLEAN, externalRef : BOOLEAN,
        cancelledAt : Nat, firstEnd : Nat, currentPeriodEnd : Nat]
DueRow == [id : Subs, end : Nat]
Sweeping == [running : BOOLEAN, due : SUBSET DueRow,
             reading : SUBSET [row : DueRow, balance : Int], failed : SUBSET DueRow]
Approving == [pc : {"idle", "found", "chosen", "taking"}, job : Jobs \cup {Nothing},
              unit : {"MONEY", "PRINT_BW"}, balance : Int]
Loading == [payer : Payers, unit : {"MONEY", "PRINT_BW"}, balance : Int, number : Nat]
JobStatus == {"NONE", "PENDING_APPROVAL", "COMPLETED", "CANCELLED"}

ChargesTypeOK ==
  /\ subs \in [Subs -> Sub]
  /\ jobs \in [Jobs -> JobStatus]
  /\ books \in [Payers -> [Units -> Accounts(Subs \cup Jobs \cup {"load"})]]
  /\ sweeps \in [Sweepers -> Sweeping]
  /\ approving \in [Approvers -> Approving] /\ loading \subseteq Loading
  /\ \A c \in Approvers :
       /\ approving[c].pc # "idle" => approving[c].job \in Jobs
       /\ approving[c].pc \in {"chosen", "taking"} => OwnerOf[approving[c].job] # WalkIn
  /\ \A w \in Sweepers : /\ \A t \in sweeps[w].reading : t.row \in sweeps[w].due
                         /\ sweeps[w].failed \subseteq sweeps[w].due
  /\ day \in Nat /\ loads \in Nat /\ faults \in Nat

(* Whatever overlaps and whichever changes are lost by it: no account ever *)
(* shows a balance below zero, in its rows or its cached column, and the   *)
(* column is what the newest row says.                                     *)
BooksSound == \A k \in Payers, u \in Units :
                NonNegative(books[k][u]) /\ CachedIsLastSnapshot(books[k][u])

(* The rows that were posted for something, in one unit of its owner.      *)
RowsFor(k, u, ref) ==
  {i \in 1 .. Len(books[k][u].rows) : books[k][u].rows[i].ref = ref}
TimesCharged(s) == Cardinality(RowsFor(PayerOf[s], "MONEY", s))

(* "idempotent - only charges past-due periods": what a subscription has   *)
(* been charged is what it has been extended by, and never for a period    *)
(* that has not begun, whatever sweeps failed, died or were raced by a     *)
(* cancellation.                                                           *)
EachPeriodChargedOnce ==
  \A s \in Subs :
    /\ TimesCharged(s) = subs[s].currentPeriodEnd - subs[s].firstEnd
    /\ TimesCharged(s) > 0 => subs[s].currentPeriodEnd <= day + 1

(* "autoRenew is false so the internal worker never charges": what the     *)
(* provider bills is not charged here as well.  A cancelled subscription   *)
(* is charged for no period that begins after the day it was cancelled,    *)
(* although a sweep that has read it before may still charge it, or mark   *)
(* it as past due.                                                         *)
ChargedOnlyWhileRenewing ==
  \A s \in Subs :
    /\ subs[s].externalRef => TimesCharged(s) = 0
    /\ ~ subs[s].autoRenew /\ TimesCharged(s) > 0
         => subs[s].currentPeriodEnd <= subs[s].cancelledAt + 1

(* "draw from the print quota first, else the money balance": no charge    *)
(* for a job is less than its whole price in one of the two units, none    *)
(* comes before the approval, and none is missing after it, also when two  *)
(* requests approve the job at a time; cancelling does not give it back.   *)
JobRows(j) == UNION {{u} \X RowsFor(OwnerOf[j], u, j) : u \in Units}
PaidJobs == {j \in Jobs : OwnerOf[j] # WalkIn}
JobChargedInFull ==
  \A j \in PaidJobs :
    /\ jobs[j] = "COMPLETED" => JobRows(j) # {}
    /\ jobs[j] = "PENDING_APPROVAL" => JobRows(j) = {}
    /\ \A r \in JobRows(j) : books[OwnerOf[j]][r[1]].rows[r[2]].amount = - Amount(j, r[1])

(* While one request approves a job at a time, it is also charged once.    *)
JobChargedOnce ==
  JobChargedInFull /\ \A j \in PaidJobs : Cardinality(JobRows(j)) <= 1

(* A subscription does not stay due: a sweep charges it or finds it past   *)
(* due.                                                                    *)
Outstanding(s) ==
  subs[s].status = "ACTIVE" /\ subs[s].autoRenew /\ subs[s].currentPeriodEnd <= day
DueIsSettled == \A s \in Subs : Outstanding(s) ~> ~ Outstanding(s)
===============================================================================
