------------------------------ MODULE Sessions ------------------------------
(***************************************************************************)
(* SessionsService: opening, extending, moving, pausing, resuming and      *)
(* closing the usage sessions of a branch.  A request is served in steps,  *)
(* one per database call whose answer the next one depends on: what a      *)
(* request has read stays in its local record while other requests write.  *)
(* The transaction of close reads the balance in one step and commits in   *)
(* another; BalanceTx looks at every statement of such a transaction.      *)
(* Time runs in fractions of a second, of which a bill counts whole ones.  *)
(***************************************************************************)
EXTENDS Accounts, Pricing, FiniteSets

CONSTANTS
  Computers, Groups, Customers,
  SessionIds,      \* uuids of UsageSession rows
  Workers,         \* requests that the API serves at the same time
  Nobody,          \* a walk-in: no customerId
  NoGroup,         \* a computer outside every group
  Sources,         \* the billing sources that the front desk uses
  Operations,      \* the operations that the front desk uses
  Extras,          \* lengths in seconds that addTime is asked for
  GroupOf,         \* computer -> its group
  PriceList,       \* group -> the pricings that a manager may give it
  FirstPrice,      \* group -> its pricing at the start
  Restarts,        \* groups with restartOnEnd
  Deposit,         \* what every customer has in each unit at the start
  PerSecond,       \* units of the clock in one second
  TickLength,      \* units of one tick of the clock
  MaxClock,        \* bound: the clock
  MaxPlanned,      \* bound: seconds planned for one session
  MaxAccidents,    \* bound: requests that die half-way, computers that restart
  MaxRequests,     \* bound: requests in one behaviour
  ClockWaits       \* the clock stands still while a request is served

AllOperations == {"open", "addTime", "transfer", "pause", "resume", "close"}
BillingSources == {"TIME_PACKAGE", "MONEY_BALANCE", "PAY_PER_USE", "FREE", "SUBSCRIPTION"}

ASSUME SetsAssumption ==
  /\ Computers # {}
  /\ Nobody \notin Customers \cup SessionIds
  /\ "load" \notin SessionIds
  /\ NoGroup \notin Groups
  /\ Sources \subseteq BillingSources
  /\ Operations \subseteq AllOperations
  /\ Restarts \subseteq Groups
  /\ Extras \subseteq Nat \ {0}
ASSUME RatesAssumption ==
  /\ GroupOf \in [Computers -> Groups \cup {NoGroup}]
  /\ FirstPrice \in [Groups -> Pricings]
  /\ PriceList \in [Groups -> SUBSET Pricings]
ASSUME BoundsAssumption ==
  /\ {PerSecond, TickLength} \subseteq Nat \ {0}
  /\ {MaxClock, MaxPlanned, MaxAccidents, MaxRequests} \subseteq Nat
  /\ Deposit \in [Units -> Nat]
  /\ ClockWaits \in BOOLEAN

VARIABLES
  clock,
  status,    \* computer -> ComputerStatus
  rates,     \* group -> its current pricing
  sessions,  \* id -> row of usage_sessions ("NONE": not created yet)
  accounts,  \* customer -> unit -> account
  req,       \* worker -> the request it is serving
  meter,     \* id -> history of the session, written by no code
  requests,  \* requests that arrived (bound)
  accidents  \* dead requests and restarted computers (bound)

vars == <<clock, status, rates, sessions, accounts, req, meter, requests, accidents>>

DefaultPricing == [pricePerMinuteMinor |-> 0, billingRatio |-> RatioScale,
                   minChargeMinor |-> 0, minMinutes |-> 0, roundingRule |-> "UP"]

PricingOf(c) == IF GroupOf[c] = NoGroup THEN DefaultPricing ELSE rates[GroupOf[c]]

(* A row that does not exist yet, and a worker without a request.          *)
SomeComputer == CHOOSE c \in Computers : TRUE

NoSession == [status |-> "NONE", computer |-> SomeComputer, customer |-> Nobody,
              source |-> "FREE", pricingSnapshot |-> DefaultPricing,
              startedAt |-> 0, billedThroughAt |-> 0, plannedSeconds |-> 0,
              secondsBilled |-> 0, pausedSeconds |-> 0, amountMinor |-> 0]

Idle == [pc |-> "idle", id |-> Nobody, row |-> NoSession,
         computer |-> SomeComputer, customer |-> Nobody, source |-> "FREE",
         price |-> DefaultPricing, toPrice |-> DefaultPricing, extra |-> 0, at |-> 0, balance |-> 0]

NoHistory == [used |-> 0, moneyDue |-> 0, segments |-> 0, fractions |-> 0,
              resumes |-> 0, movedPaused |-> FALSE]

Funded == [u \in Units |-> Posted(EmptyAccount, 0, Deposit[u], "load")]

Init ==
  /\ clock = 0
  /\ status = [c \in Computers |-> "DISCONNECTED"]
  /\ rates = FirstPrice
  /\ sessions = [id \in SessionIds |-> NoSession]
  /\ accounts = [k \in Customers |-> Funded]
  /\ req = [w \in Workers |-> Idle]
  /\ meter = [id \in SessionIds |-> NoHistory]
  /\ requests = 0
  /\ accidents = 0

-------------------------------------------------------------------------------
(* The two tests by which open and transfer keep sessions apart.           *)

Live(id) == sessions[id].status \in {"ACTIVE", "PAUSED"}

RunningOn(c) == \E id \in SessionIds : sessions[id].status = "ACTIVE" /\ sessions[id].computer = c
Busy(c) == \E id \in SessionIds : Live(id) /\ sessions[id].computer = c

HasSession(k) == \E id \in SessionIds : Live(id) /\ sessions[id].customer = k

Arrives(w, op, request) ==
  /\ req[w].pc = "idle"
  /\ op \in Operations
  /\ requests < MaxRequests
  /\ requests' = requests + 1
  /\ req' = [req EXCEPT ![w] = request]

Finish(w) == req' = [req EXCEPT ![w] = Idle]

-------------------------------------------------------------------------------
(* open: the computer with its group, the two tests, the row, the status.  *)

Open(w, c, k, source) ==
  /\ Arrives(w, "open", [Idle EXCEPT !.pc = "openComputer", !.computer = c,
                            !.customer = k, !.source = source, !.price = PricingOf(c)])
  /\ UNCHANGED <<clock, status, rates, sessions, accounts, meter, accidents>>

OpenComputerFree(w) ==
  /\ req[w].pc = "openComputer"
  /\ ~ Busy(req[w].computer)
  /\ req' = [req EXCEPT ![w].pc = IF req[w].customer = Nobody THEN "create" ELSE "openCustomer",
                        ![w].at = clock]
  /\ UNCHANGED <<clock, status, rates, sessions, accounts, meter, requests, accidents>>

OpenCustomerFree(w) ==
  /\ req[w].pc = "openCustomer"
  /\ ~ HasSession(req[w].customer)
  /\ req' = [req EXCEPT ![w].pc = "create", ![w].at = clock]
  /\ UNCHANGED <<clock, status, rates, sessions, accounts, meter, requests, accidents>>

OpenRefused(w) ==
  /\ \/ req[w].pc = "openComputer" /\ Busy(req[w].computer)
     \/ req[w].pc = "openCustomer" /\ HasSession(req[w].customer)
  /\ Finish(w)
  /\ UNCHANGED <<clock, status, rates, sessions, accounts, meter, requests, accidents>>

CreateSession(w, id) ==
  /\ req[w].pc = "create"
  /\ sessions[id].status = "NONE"
  /\ sessions' = [sessions EXCEPT ![id] =
       [NoSession EXCEPT !.status = "ACTIVE", !.computer = req[w].computer,
                         !.customer = req[w].customer, !.source = req[w].source,
                         !.pricingSnapshot = req[w].price,
                         !.startedAt = req[w].at, !.billedThroughAt = req[w].at]]
  /\ req' = [req EXCEPT ![w].pc = "occupy"]
  /\ UNCHANGED <<clock, status, rates, accounts, meter, requests, accidents>>

OccupyComputer(w) ==
  /\ req[w].pc = "occupy"
  /\ status' = [status EXCEPT ![req[w].computer] = "IN_USE"]
  /\ Finish(w)
  /\ UNCHANGED <<clock, rates, sessions, accounts, meter, requests, accidents>>

-------------------------------------------------------------------------------
(* Every other operation first runs loadActive, which refuses a session    *)
(* that is not live, and then asks for the time.  Pausing a paused session *)
(* and resuming a running one return without a write.                      *)

Created(id) == sessions[id].status # "NONE"
Loadable(id) == Live(id)

Load(w, op, id, target, extra) ==
  /\ Loadable(id)
  /\ op = "pause" => sessions[id].status # "PAUSED"
  /\ op = "resume" => sessions[id].status = "PAUSED"
  /\ Arrives(w, op, [Idle EXCEPT !.pc = op, !.id = id, !.row = sessions[id],
                                 !.computer = target, !.extra = extra, !.at = clock,
                                 !.price = PricingOf(sessions[id].computer)])
  /\ UNCHANGED <<clock, status, rates, sessions, accounts, meter, accidents>>

AddTime(w, id, extra) == Load(w, "addTime", id, SomeComputer, extra)
Pause(w, id) == Load(w, "pause", id, SomeComputer, 0)
Resume(w, id) == Load(w, "resume", id, SomeComputer, 0)
Close(w, id) == Load(w, "close", id, SomeComputer, 0)
Transfer(w, id, target) == Load(w, "transfer", id, target, 0)

(* The target computer and its group are read, then whether it is busy.    *)
TargetFree(w) ==
  /\ req[w].pc = "transfer"
  /\ ~ Busy(req[w].computer)
  /\ req' = [req EXCEPT ![w].pc = "move", ![w].toPrice = PricingOf(req[w].computer),
                        ![w].at = clock]
  /\ UNCHANGED <<clock, status, rates, sessions, accounts, meter, requests, accidents>>

TargetBusy(w) ==
  /\ req[w].pc = "transfer"
  /\ Busy(req[w].computer)
  /\ Finish(w)
  /\ UNCHANGED <<clock, status, rates, sessions, accounts, meter, requests, accidents>>

(* The columns each operation writes, computed from the row it has loaded; *)
(* a column that it does not name keeps its current value.                 *)
Row(w) == sessions[req[w].id]
UnitsSince(w) == Larger(0, req[w].at - req[w].row.billedThroughAt)
RoundedSeconds(w) == RoundDiv(UnitsSince(w), PerSecond)
SinceCheckpoint(w) == UnitsSince(w) \div PerSecond
CostAtTarget(w) == SegmentCharge(SinceCheckpoint(w), req[w].toPrice)
SegmentCost(w) == SegmentCharge(SinceCheckpoint(w), req[w].price)

BilledOnly(w) ==
  [Row(w) EXCEPT !.secondsBilled = req[w].row.secondsBilled + SinceCheckpoint(w),
                 !.amountMinor = req[w].row.amountMinor + SegmentCost(w)]
Billed(w) ==
  [Row(w) EXCEPT !.secondsBilled = req[w].row.secondsBilled + SinceCheckpoint(w),
                 !.amountMinor = req[w].row.amountMinor + SegmentCost(w),
                 !.billedThroughAt = req[w].at]

Extended(w) ==
  [Row(w) EXCEPT !.plannedSeconds = req[w].row.plannedSeconds + req[w].extra]

Paused(w) == [Billed(w) EXCEPT !.status = "PAUSED"]

GapStaysBillable(w) ==
  [Row(w) EXCEPT !.status = "ACTIVE",
                 !.pausedSeconds = req[w].row.pausedSeconds + SinceCheckpoint(w)]
Resumed(w) ==
  [Row(w) EXCEPT !.status = "ACTIVE",
                 !.pausedSeconds = req[w].row.pausedSeconds + SinceCheckpoint(w),
                 !.billedThroughAt = req[w].at]

Moved(w) ==
  [Billed(w) EXCEPT !.computer = req[w].computer, !.pricingSnapshot = req[w].toPrice]

Write(w, op, row) ==
  /\ req[w].pc = op
  /\ sessions' = [sessions EXCEPT ![req[w].id] = row]
  /\ Finish(w)
  /\ UNCHANGED <<clock, rates, requests, accidents>>

WritePlan(w) ==
  /\ req[w].row.plannedSeconds + req[w].extra <= MaxPlanned
  /\ Write(w, "addTime", Extended(w))
  /\ UNCHANGED <<status, accounts, meter>>

(* A segment loses less than a second of its use to the floor.             *)
OneMoreSegment(w) ==
  meter' = [meter EXCEPT ![req[w].id].segments = @ + 1,
                         ![req[w].id].fractions = @ + ExactCost(PerSecond - 1, Row(w).pricingSnapshot),
                         ![req[w].id].movedPaused =
                           @ \/ (req[w].pc = "move" /\ req[w].row.status = "PAUSED")]

WritePause(w) ==
  /\ Write(w, "pause", Paused(w))
  /\ OneMoreSegment(w)
  /\ UNCHANGED <<status, accounts>>

WriteResume(w) ==
  /\ Write(w, "resume", Resumed(w))
  /\ meter' = [meter EXCEPT ![req[w].id].resumes = @ + 1]
  /\ UNCHANGED <<status, accounts>>

(* One transaction: the old computer becomes free, the new one is taken.   *)
OldComputerKept(w) == [status EXCEPT ![req[w].computer] = "IN_USE"]
StatusAfterMove(w) ==
  [status EXCEPT ![req[w].row.computer] = "AVAILABLE", ![req[w].computer] = "IN_USE"]

WriteMove(w) ==
  /\ Write(w, "move", Moved(w))
  /\ status' = StatusAfterMove(w)
  /\ OneMoreSegment(w)
  /\ UNCHANGED accounts

-------------------------------------------------------------------------------
(* close.                                                                  *)

(* A paused session was billed when it was paused.                         *)
LastSegment(w) == IF req[w].row.status = "PAUSED" THEN 0 ELSE SinceCheckpoint(w)

TotalSeconds(w) == req[w].row.secondsBilled + LastSegment(w)

(* A row that has an amount was billed in segments before.                 *)
FinalTotal(w) ==
  CASE req[w].row.source = "FREE" -> 0
    [] req[w].row.source # "FREE" /\ req[w].row.amountMinor > 0 ->
         Larger(RoundMinor(req[w].row.amountMinor + SegmentCharge(LastSegment(w), req[w].price),
                           req[w].price.roundingRule),
                req[w].price.minChargeMinor)
    [] req[w].row.source # "FREE" /\ req[w].row.amountMinor <= 0 ->
         ComputeSessionCharge(TotalSeconds(w), req[w].price)

PrepaidUnit(source) == IF source = "MONEY_BALANCE" THEN "MONEY" ELSE "TIME_SECONDS"

(* Pay-per-use and subscription sessions are settled elsewhere.            *)
Prepaid(row) == row.customer # Nobody /\ row.source \in {"MONEY_BALANCE", "TIME_PACKAGE"}

ChargeWithoutMinimum(w) == SegmentCharge(TotalSeconds(w), req[w].price)
Charge(w) ==
  IF req[w].row.source = "MONEY_BALANCE" THEN FinalTotal(w)
  ELSE TimeUnits(TotalSeconds(w), req[w].price.billingRatio)

MustPay(w) == Prepaid(req[w].row) /\ FinalTotal(w) > 0

BalanceOf(w) == accounts[req[w].row.customer][PrepaidUnit(req[w].row.source)].cached

EmptyOnly(w) == MustPay(w) /\ BalanceOf(w) = 0
CannotPay(w) == MustPay(w) /\ Insufficient(BalanceOf(w), - Charge(w))

(* The transaction reads the balance, without a lock.                      *)
ReadBalance(w) ==
  /\ req[w].pc = "close"
  /\ MustPay(w)
  /\ ~ CannotPay(w)
  /\ req' = [req EXCEPT ![w].pc = "pay", ![w].balance = BalanceOf(w)]
  /\ UNCHANGED <<clock, status, rates, sessions, accounts, meter, requests, accidents>>

AccountsAfterClose(w) ==
  LET k == req[w].row.customer
      u == PrepaidUnit(req[w].row.source)
  IN  IF MustPay(w)
      THEN [accounts EXCEPT ![k] = [accounts[k] EXCEPT ![u] =
              Posted(accounts[k][u], req[w].balance, - Charge(w), req[w].id)]]
      ELSE accounts

EndedStillActive(w) ==
  [Row(w) EXCEPT !.billedThroughAt = req[w].at, !.secondsBilled = TotalSeconds(w),
                 !.amountMinor = FinalTotal(w)]
Ended(w) ==
  [Row(w) EXCEPT !.status = "ENDED", !.billedThroughAt = req[w].at,
                 !.secondsBilled = TotalSeconds(w), !.amountMinor = FinalTotal(w)]

(* The transaction commits: the ledger, the computer, the row.             *)
WriteClose(w) ==
  /\ Write(w, IF MustPay(w) THEN "pay" ELSE "close", Ended(w))
  /\ accounts' = AccountsAfterClose(w)
  /\ status' = [status EXCEPT ![req[w].row.computer] =
                  IF GroupOf[req[w].row.computer] \in Restarts THEN "MAINTENANCE" ELSE "AVAILABLE"]
  /\ OneMoreSegment(w)

CloseRefused(w) ==
  /\ req[w].pc = "close"
  /\ CannotPay(w)
  /\ Finish(w)
  /\ UNCHANGED <<clock, status, rates, sessions, accounts, meter, requests, accidents>>

-------------------------------------------------------------------------------
(* The rest of the world.                                                  *)

(* The API process or its connection dies: a step is not followed by the   *)
(* next one.                                                               *)
Crash(w) ==
  /\ req[w].pc # "idle"
  /\ accidents < MaxAccidents
  /\ accidents' = accidents + 1
  /\ Finish(w)
  /\ UNCHANGED <<clock, status, rates, sessions, accounts, meter, requests>>

(* A manager edits the group.                                              *)
ChangePrice(g) ==
  /\ \E p \in PriceList[g] \ {rates[g]} : rates' = [rates EXCEPT ![g] = p]
  /\ UNCHANGED <<clock, status, sessions, accounts, req, meter, requests, accidents>>

(* The computer restarts and its agent registers, whatever is going on.    *)
AgentRegister(c) ==
  /\ accidents < MaxAccidents
  /\ accidents' = accidents + 1
  /\ status' = [status EXCEPT ![c] = "AVAILABLE"]
  /\ UNCHANGED <<clock, rates, sessions, accounts, req, meter, requests>>

(* Time passes; the history records what each running session has used,    *)
(* and what that costs by its price snapshot, over PerSecond * CostScale.  *)
Tick ==
  /\ clock + TickLength <= MaxClock
  /\ ClockWaits => \A w \in Workers : req[w].pc = "idle"
  /\ clock' = clock + TickLength
  /\ meter' = [id \in SessionIds |->
       IF sessions[id].status # "ACTIVE" THEN meter[id]
       ELSE [meter[id] EXCEPT
               !.used = meter[id].used + TickLength,
               !.moneyDue = meter[id].moneyDue + ExactCost(TickLength, sessions[id].pricingSnapshot)]]
  /\ UNCHANGED <<status, rates, sessions, accounts, req, requests, accidents>>

(* A request arrives, reads on, or writes.                                 *)
Arrival(w) ==
  \/ \E c \in Computers, k \in Customers \cup {Nobody}, source \in Sources : Open(w, c, k, source)
  \/ \E id \in SessionIds : \/ \E extra \in Extras : AddTime(w, id, extra)
                            \/ \E c \in Computers : Transfer(w, id, c)
                            \/ Pause(w, id) \/ Resume(w, id) \/ Close(w, id)

Progress(w) ==
  \/ OpenComputerFree(w) \/ OpenCustomerFree(w) \/ OpenRefused(w)
  \/ TargetFree(w) \/ TargetBusy(w) \/ ReadBalance(w) \/ CloseRefused(w)

Writing(w) ==
  \/ \E id \in SessionIds : CreateSession(w, id)
  \/ OccupyComputer(w)
  \/ WritePlan(w) \/ WritePause(w) \/ WriteResume(w) \/ WriteMove(w) \/ WriteClose(w)

Next ==
  \/ \E w \in Workers : Arrival(w) \/ Progress(w) \/ Writing(w) \/ Crash(w)
  \/ \E g \in Groups : ChangePrice(g)
  \/ \E c \in Computers : AgentRegister(c)
  \/ Tick

Spec == Init /\ [][Next]_vars

-------------------------------------------------------------------------------
Session == [status : {"NONE", "ACTIVE", "PAUSED", "ENDED"}, computer : Computers,
            customer : Customers \cup {Nobody}, source : BillingSources,
            pricingSnapshot : Pricings, startedAt : Nat, billedThroughAt : Nat,
            plannedSeconds : Nat, secondsBilled : Nat, pausedSeconds : Nat,
            amountMinor : Nat]

Request == [pc : {"idle", "openComputer", "openCustomer", "create", "occupy", "addTime",
                  "pause", "resume", "transfer", "move", "close", "pay"},
            id : SessionIds \cup {Nobody}, row : Session, computer : Computers,
            customer : Customers \cup {Nobody}, source : BillingSources,
            price : Pricings, toPrice : Pricings, extra : Nat, at : Nat,
            balance : Int]

History == [used : Nat, moneyDue : Nat, segments : Nat, fractions : Nat,
            resumes : Nat, movedPaused : BOOLEAN]

Refs == SessionIds \cup {"load"}

(* Type invariant.  In particular no amount, no time and no checkpoint is  *)
(* ever negative.                                                          *)
TypeOK ==
  /\ clock \in Nat
  /\ status \in [Computers -> {"AVAILABLE", "IN_USE", "MAINTENANCE", "DISCONNECTED"}]
  /\ rates \in [Groups -> Pricings]
  /\ sessions \in [SessionIds -> Session]
  /\ accounts \in [Customers -> [Units -> Accounts(Refs)]]
  /\ req \in [Workers -> Request]
  /\ meter \in [SessionIds -> History]
  /\ requests \in Nat
  /\ accidents \in Nat

(* "a customer can never hold two active sessions (spec scenario 9)": the  *)
(* comment of SessionsService about the test that open makes.              *)
OneSessionPerCustomer ==
  \A s, t \in SessionIds :
    Live(s) /\ Live(t) /\ sessions[s].customer = sessions[t].customer
      /\ sessions[s].customer # Nobody => s = t

(* "The computer must be free": no two live sessions share a computer,     *)
(* neither by open nor by transfer, and also not across a pause.           *)
OneSessionPerComputer ==
  \A s, t \in SessionIds :
    Live(s) /\ Live(t) /\ sessions[s].computer = sessions[t].computer => s = t

(* The two tests of open, and the test of transfer, keep every customer and *)
(* every computer to one live session.                                     *)
ExclusiveSessions == OneSessionPerCustomer /\ OneSessionPerComputer

(* A computer shown as in use has a live session: close and transfer free  *)
(* the right computer, and a request that dies leaves no ghost.            *)
InUseHasSession == \A c \in Computers : status[c] = "IN_USE" => Busy(c)

(* The seconds billed and paused are those between the start and the       *)
(* checkpoint, none of them counted twice, and short of them by less than  *)
(* one second per checkpoint, which the code rounds down; the pause in     *)
(* which a session is ended is not counted.                                *)
SecondsAddUp ==
  \A id \in SessionIds :
    LET s == sessions[id]
        length == s.billedThroughAt - s.startedAt
        counted == (s.secondsBilled + s.pausedSeconds) * PerSecond
    IN  /\ counted <= length
        /\ Live(id) => length - counted <= (PerSecond - 1) * (meter[id].segments + meter[id].resumes)

(* A session and the ledger agree: a prepaid session is charged when it    *)
(* ends, exactly once and the amount in its row.                           *)
RowsOf(id, k, u) ==
  {i \in 1 .. Len(accounts[k][u].rows) : accounts[k][u].rows[i].ref = id}
ChargedExactlyOnce ==
  \A id \in SessionIds, k \in Customers, u \in Units :
    LET s == sessions[id]
        owes == /\ s.status = "ENDED" /\ s.amountMinor > 0 /\ s.customer = k
                /\ Prepaid(s) /\ PrepaidUnit(s.source) = u
    IN  /\ Cardinality(RowsOf(id, k, u)) = IF owes THEN 1 ELSE 0
        /\ u = "MONEY" => \A i \in RowsOf(id, k, u) : accounts[k][u].rows[i].amount = - s.amountMinor

(* "the paused gap is free": no session is billed for more seconds than    *)
(* it was running, unless transfer moved it while it was paused.           *)
OnlyUseIsBilled ==
  \A id \in SessionIds :
    meter[id].movedPaused \/ sessions[id].secondsBilled * PerSecond <= meter[id].used

(* A finished session costs what its use costs at the rates of the price   *)
(* snapshots it had meanwhile, less at most the fraction of a second that  *)
(* each segment loses, up to the rounding of each segment and of the       *)
(* total, or the minimum.                                                  *)
Minimum(p) == ComputeSessionCharge(0, p)
Rounding(id) ==
  CostScale * PerSecond *
    (meter[id].segments + IF sessions[id].pricingSnapshot.roundingRule = "NONE" THEN 0 ELSE 2 * MinorPerUnit)
BilledAtSnapshot ==
  \A id \in SessionIds :
    LET s == sessions[id]
        deviation == 2 * (s.amountMinor * CostScale * PerSecond - meter[id].moneyDue)
    IN  s.status = "ENDED" /\ s.source # "FREE" /\ ~ meter[id].movedPaused =>
          /\ deviation >= - (Rounding(id) + 2 * meter[id].fractions)
          /\ deviation <= Rounding(id) \/ s.amountMinor <= Minimum(s.pricingSnapshot)

(* No charge takes a balance below zero, whatever requests overlap.        *)
NeverOverdrawn == \A k \in Customers, u \in Units : NonNegative(accounts[k][u])

(* Also when requests overlap, a session that is ended and has an amount   *)
(* was charged that amount by the latest ledger row it has.                *)
EndedAmountWasCharged ==
  \A id \in SessionIds :
    LET s == sessions[id]
        charged == RowsOf(id, s.customer, "MONEY")
    IN  s.status = "ENDED" /\ s.customer # Nobody /\ s.source = "MONEY_BALANCE"
          /\ s.amountMinor > 0 =>
            \E i \in charged : /\ \A j \in charged : j <= i
                               /\ accounts[s.customer]["MONEY"].rows[i].amount = - s.amountMinor
===============================================================================
