-------------------------------- MODULE Sales --------------------------------
(***************************************************************************)
(* SalesService and PaymentsService: a sale with immediate payment, a card *)
(* payment prepared for the Nedarim Plus iframe and settled by its         *)
(* callback, refunds.  As in Sessions a request is served in steps between *)
(* database calls, and a prisma.$transaction commits in one step.  A sale  *)
(* has at most one payment, so the payment's row is part of the sale.  Of  *)
(* a balance the module keeps the ledger rows, which every transaction     *)
(* adds; the column next to them, computed from an unlocked read, is the   *)
(* subject of BalanceTx.                                                   *)
(***************************************************************************)
EXTENDS Accounts, Pricing, FiniteSetsExt

CONSTANTS
  Customers, Workers, SaleIds,
  Nobody,          \* a sale without a customer
  Keys, NoKey,     \* Idempotency-Key headers, and a request without one
  Carts,           \* what is put on one sale: a sequence of lines
  Tenders,         \* amounts handed over at the desk
  Amounts,         \* amounts a refund is asked for
  Operations,      \* the operations used
  Coupon,          \* the one coupon of the shop
  TotalLimit,      \* how often it may be redeemed; 0 when it has no limit
  MaxRequests,     \* bound: requests in one behaviour
  MaxCrashes       \* bound: requests that die half-way

Kinds == {"PRODUCT", "PACKAGE", "CUSTOM"}

(* A line; credits is what one package adds to each unit, if anything.     *)
Nothing == [u \in Units |-> 0]
Lines == [kind : Kinds, unitPriceMinor : Nat, quantity : Nat \ {0},
          credits : [Units -> Nat]]

AllOperations == {"sell", "order", "prepare", "callback", "devSettle", "refund", "cardRefund"}

ASSUME SetsAssumption ==
  /\ Nobody \notin Customers
  /\ NoKey \notin Keys
  /\ Operations \subseteq AllOperations
  /\ \A cart \in Carts : \A i \in 1 .. Len(cart) :
       cart[i].kind # "PACKAGE" => cart[i].credits = Nothing
ASSUME AmountsAssumption ==
  /\ Carts \subseteq Seq(Lines)
  /\ Coupon \in Coupons
  /\ Tenders \cup Amounts \cup {TotalLimit, MaxRequests, MaxCrashes} \subseteq Nat

VARIABLES
  sales,       \* id -> the Sale row with its Payment row
  ledger,      \* customer -> unit -> the CustomerBalanceTransaction rows
  points,      \* customer -> loyaltyPoints
  redemptions, \* CouponRedemption rows
  charged,     \* sales for which the provider has charged the card
  req,         \* worker -> the request it is serving
  requests,    \* requests that arrived (bound)
  crashes      \* requests that died (bound)

vars == <<sales, ledger, points, redemptions, charged, req, requests, crashes>>

Prices(cart) == [i \in 1 .. Len(cart) |-> cart[i].unitPriceMinor * cart[i].quantity]
Subtotal(cart) == SumOf(Prices(cart))

HasPackage(cart) == \E i \in 1 .. Len(cart) : cart[i].kind = "PACKAGE"

NoSale == [status |-> "NONE", customer |-> Nobody, cart |-> << >>, totalMinor |-> 0,
           payment |-> "NONE", paidMinor |-> 0, key |-> NoKey, card |-> FALSE,
           refundedMinor |-> 0]

Idle == [pc |-> "idle", id |-> Nobody, customer |-> Nobody, cart |-> << >>, key |-> NoKey,
         paying |-> FALSE, tender |-> 0, prepare |-> FALSE, couponGiven |-> FALSE,
         usable |-> FALSE, totalMinor |-> 0, amount |-> 0]

EmptyBook == [u \in Units |-> << >>]

Init ==
  /\ sales = [id \in SaleIds |-> NoSale]
  /\ ledger = [k \in Customers |-> EmptyBook]
  /\ points = [k \in Customers |-> 0]
  /\ redemptions = 0
  /\ charged = {}
  /\ req = [w \in Workers |-> Idle]
  /\ requests = 0
  /\ crashes = 0

Arrives(w, op, request) ==
  /\ req[w].pc = "idle"
  /\ op \in Operations
  /\ requests < MaxRequests
  /\ requests' = requests + 1
  /\ req' = [req EXCEPT ![w] = request]

Finish(w) == req' = [req EXCEPT ![w] = Idle]

-------------------------------------------------------------------------------
(* applyPackage for every package line of a sale.  It credits the units of *)
(* the package once per line, whatever the quantity of the line.           *)

Credit(book, credits, id) ==
  [u \in Units |-> IF credits[u] > 0
                   THEN Append(book[u], [ref |-> id, amount |-> credits[u]]) ELSE book[u]]

WithPackages(book, cart, id) ==
  LET after[n \in 0 .. Len(cart)] ==
        IF n = 0 THEN book
        ELSE IF cart[n].kind = "PACKAGE" THEN Credit(after[n - 1], cart[n].credits, id)
        ELSE after[n - 1]
  IN  after[Len(cart)]

(* What a paid sale does for its customer: packages and loyalty points.    *)
Deliver(k, cart, total, id) ==
  IF k = Nobody THEN UNCHANGED <<ledger, points>>
  ELSE /\ ledger' = [ledger EXCEPT ![k] = WithPackages(@, cart, id)]
       /\ points' = [points EXCEPT ![k] = @ + LoyaltyPoints(total)]

-------------------------------------------------------------------------------
(* createSale.                                                             *)

KeyKnown(key) == key # NoKey /\ \E id \in SaleIds : sales[id].key = key

(* The key is looked up; a known key returns its sale without a write.     *)
Sell(w, k, cart, key, tender, couponGiven) ==
  /\ ~ KeyKnown(key)
  /\ Arrives(w, "sell", [Idle EXCEPT !.pc = "price", !.customer = k, !.cart = cart, !.key = key,
                           !.paying = TRUE, !.tender = tender, !.couponGiven = couponGiven])
  /\ UNCHANGED <<sales, ledger, points, redemptions, charged, crashes>>

Order(w, k, cart, couponGiven) ==
  /\ Arrives(w, "order", [Idle EXCEPT !.pc = "price", !.customer = k, !.cart = cart,
                            !.couponGiven = couponGiven])
  /\ UNCHANGED <<sales, ledger, points, redemptions, charged, crashes>>

Prepare(w, k, cart) ==
  /\ Arrives(w, "prepare", [Idle EXCEPT !.pc = "price", !.customer = k, !.cart = cart,
                              !.prepare = TRUE])
  /\ UNCHANGED <<sales, ledger, points, redemptions, charged, crashes>>

CouponNotOver == TotalLimit = 0 \/ redemptions <= TotalLimit
CouponUsable == TotalLimit = 0 \/ redemptions < TotalLimit

TotalOf(cart, usable) ==
  Subtotal(cart) - IF usable THEN CouponDiscount(Coupon, Subtotal(cart)) ELSE 0

(* The items, the coupon and the VAT are read and the total is computed.   *)
PriceSale(w) ==
  LET usable == req[w].couponGiven /\ CouponUsable
      total == TotalOf(req[w].cart, usable)
  IN  /\ req[w].pc = "price"
      /\ HasPackage(req[w].cart) => req[w].customer # Nobody
      /\ req[w].paying => req[w].tender >= total
      /\ req' = [req EXCEPT ![w].pc = "create", ![w].usable = usable, ![w].totalMinor = total]
      /\ UNCHANGED <<sales, ledger, points, redemptions, charged, requests, crashes>>

SaleRefused(w) ==
  /\ req[w].pc = "price"
  /\ \/ HasPackage(req[w].cart) /\ req[w].customer = Nobody
     \/ req[w].paying /\ req[w].tender < TotalOf(req[w].cart, req[w].couponGiven /\ CouponUsable)
  /\ Finish(w)
  /\ UNCHANGED <<sales, ledger, points, redemptions, charged, requests, crashes>>

(* payments has a unique index on the tenant and the key.                  *)
Unchecked(w) == TRUE
KeyIsUnique(w) == req[w].paying => ~ KeyKnown(req[w].key)

NewSale(w) ==
  [NoSale EXCEPT !.status = IF req[w].paying THEN "COMPLETED" ELSE "OPEN",
                 !.customer = req[w].customer, !.cart = req[w].cart,
                 !.totalMinor = req[w].totalMinor,
                 !.payment = IF req[w].paying THEN "COMPLETED" ELSE "NONE",
                 !.paidMinor = IF req[w].paying THEN req[w].tender ELSE 0,
                 !.key = IF req[w].paying THEN req[w].key ELSE NoKey]

EffectsOfOrder(w, id) == Deliver(req[w].customer, req[w].cart, req[w].totalMinor, id)
EffectsOfSale(w, id) ==
  IF req[w].paying THEN Deliver(req[w].customer, req[w].cart, req[w].totalMinor, id)
  ELSE UNCHANGED <<ledger, points>>

(* One transaction.  prepare goes on to create the pending payment.        *)
CommitSale(w, id) ==
  /\ req[w].pc = "create"
  /\ sales[id].status = "NONE"
  /\ KeyIsUnique(w)
  /\ sales' = [sales EXCEPT ![id] = NewSale(w)]
  /\ EffectsOfSale(w, id)
  /\ redemptions' = IF req[w].usable THEN redemptions + 1 ELSE redemptions
  /\ IF req[w].prepare
     THEN req' = [req EXCEPT ![w] = [Idle EXCEPT !.pc = "pending", !.id = id]]
     ELSE Finish(w)
  /\ UNCHANGED <<charged, requests, crashes>>

DuplicateKey(w) ==
  /\ req[w].pc = "create"
  /\ ~ KeyIsUnique(w)
  /\ Finish(w)
  /\ UNCHANGED <<sales, ledger, points, redemptions, charged, requests, crashes>>

PendingPayment(w) ==
  LET id == req[w].id IN
  /\ req[w].pc = "pending"
  /\ sales' = [sales EXCEPT ![id].payment = "PENDING", ![id].paidMinor = sales[id].totalMinor]
  /\ Finish(w)
  /\ UNCHANGED <<ledger, points, redemptions, charged, requests, crashes>>

-------------------------------------------------------------------------------
(* Settlement.                                                             *)

(* The customer pays in the iframe.                                        *)
ProviderCharges(id) ==
  /\ sales[id].payment = "PENDING"
  /\ id \notin charged
  /\ charged' = charged \cup {id}
  /\ UNCHANGED <<sales, ledger, points, redemptions, req, requests, crashes>>

(* The provider reports it, possibly more than once.  The payment is       *)
(* looked up by its token among the pending ones; the amount agrees.       *)
AnyPayment(id) == sales[id].payment # "NONE"
StillPending(id) == sales[id].payment = "PENDING"

Callback(w, id) ==
  /\ id \in charged
  /\ StillPending(id)
  /\ Arrives(w, "callback", [Idle EXCEPT !.pc = "readSale", !.id = id])
  /\ UNCHANGED <<sales, ledger, points, redemptions, charged, crashes>>

(* The shortcut of development environments, for any prepared payment.     *)
DevSettle(w, id) ==
  /\ AnyPayment(id)
  /\ Arrives(w, "devSettle", [Idle EXCEPT !.pc = "readSale", !.id = id])
  /\ UNCHANGED <<sales, ledger, points, redemptions, charged, crashes>>

(* settle: a completed sale is returned as it is.  It is read before the   *)
(* transaction begins.                                                     *)
NeverCompleted(id) == FALSE
AlreadyCompleted(id) == sales[id].status = "COMPLETED"

ReadSale(w) ==
  /\ req[w].pc = "readSale"
  /\ IF AlreadyCompleted(req[w].id) THEN Finish(w)
     ELSE req' = [req EXCEPT ![w].pc = "settle"]
  /\ UNCHANGED <<sales, ledger, points, redemptions, charged, requests, crashes>>

(* The transaction does not look at the status again.  The lines, the      *)
(* customer and the total of a sale never change, so they are the ones     *)
(* that were read; the packages sold are still on offer.                   *)
Settle(w) ==
  LET id == req[w].id IN
  /\ req[w].pc = "settle"
  /\ sales' = [sales EXCEPT ![id].status = "COMPLETED", ![id].payment = "COMPLETED",
                            ![id].card = TRUE]
  /\ Deliver(sales[id].customer, sales[id].cart, sales[id].totalMinor, id)
  /\ Finish(w)
  /\ UNCHANGED <<redemptions, charged, requests, crashes>>

-------------------------------------------------------------------------------
(* Refunds.                                                                *)

PaidTotal(id) == IF sales[id].payment = "COMPLETED" THEN sales[id].paidMinor ELSE 0

Refund(w, id, amount) ==
  /\ sales[id].status # "NONE"
  /\ amount > 0
  /\ amount <= PaidTotal(id)
  /\ Arrives(w, "refund", [Idle EXCEPT !.pc = "refund", !.id = id, !.amount = amount])
  /\ UNCHANGED <<sales, ledger, points, redemptions, charged, crashes>>

(* PaymentsService.refund: the provider returns the whole card payment,    *)
(* then the refund is recorded.                                            *)
CardRefund(w, id) ==
  /\ sales[id].payment = "COMPLETED" /\ sales[id].card
  /\ Arrives(w, "cardRefund", [Idle EXCEPT !.pc = "provider", !.id = id,
                                 !.amount = sales[id].paidMinor])
  /\ UNCHANGED <<sales, ledger, points, redemptions, charged, crashes>>

ProviderAnswers(w) ==
  /\ req[w].pc = "provider"
  /\ \/ req' = [req EXCEPT ![w].pc = "refund"]
     \/ Finish(w)
  /\ UNCHANGED <<sales, ledger, points, redemptions, charged, requests, crashes>>

RecordRefund(w) ==
  /\ req[w].pc = "refund"
  /\ sales' = [sales EXCEPT ![req[w].id].refundedMinor = @ + req[w].amount]
  /\ Finish(w)
  /\ UNCHANGED <<ledger, points, redemptions, charged, requests, crashes>>

Crash(w) ==
  /\ req[w].pc # "idle"
  /\ crashes < MaxCrashes
  /\ crashes' = crashes + 1
  /\ Finish(w)
  /\ UNCHANGED <<sales, ledger, points, redemptions, charged, requests>>

Arrival(w) ==
  \/ \E k \in Customers \cup {Nobody}, cart \in Carts, c \in BOOLEAN :
       \/ \E key \in Keys \cup {NoKey}, tender \in Tenders : Sell(w, k, cart, key, tender, c)
       \/ Order(w, k, cart, c)
       \/ Prepare(w, k, cart)
  \/ \E id \in SaleIds : \/ Callback(w, id) \/ DevSettle(w, id) \/ CardRefund(w, id)
                         \/ \E amount \in Amounts : Refund(w, id, amount)

Step(w) ==
  \/ PriceSale(w) \/ SaleRefused(w) \/ DuplicateKey(w) \/ PendingPayment(w)
  \/ \E id \in SaleIds : CommitSale(w, id)
  \/ ReadSale(w) \/ Settle(w)
  \/ ProviderAnswers(w) \/ RecordRefund(w)

Next ==
  \/ \E w \in Workers : Arrival(w) \/ Step(w) \/ Crash(w)
  \/ \E id \in SaleIds : ProviderCharges(id)

Spec == Init /\ [][Next]_vars

-------------------------------------------------------------------------------
Entries == [ref : SaleIds, amount : Nat]

Sale == [status : {"NONE", "OPEN", "COMPLETED"}, customer : Customers \cup {Nobody},
         cart : Carts \cup {<< >>}, totalMinor : Nat,
         payment : {"NONE", "PENDING", "COMPLETED"}, paidMinor : Nat,
         key : Keys \cup {NoKey}, card : BOOLEAN, refundedMinor : Nat]

Request == [pc : {"idle", "price", "create", "pending", "readSale", "settle", "provider",
                  "refund"},
            id : SaleIds \cup {Nobody}, customer : Customers \cup {Nobody},
            cart : Carts \cup {<< >>}, key : Keys \cup {NoKey}, paying : BOOLEAN,
            tender : Nat, prepare : BOOLEAN, couponGiven : BOOLEAN, usable : BOOLEAN,
            totalMinor : Nat, amount : Nat]

(* Type invariant; a total is never negative, whatever the coupon.         *)
TypeOK ==
  /\ sales \in [SaleIds -> Sale]
  /\ ledger \in [Customers -> [Units -> Seq(Entries)]]
  /\ points \in [Customers -> Nat]
  /\ redemptions \in Nat
  /\ charged \subseteq SaleIds
  /\ req \in [Workers -> Request]
  /\ requests \in Nat
  /\ crashes \in Nat

(* "a duplicated request never double-charges (spec scenario 7)": however  *)
(* requests with one Idempotency-Key overlap, fail and are repeated, one   *)
(* sale has taken a payment under that key.                                *)
OneSalePerKey ==
  \A s, t \in SaleIds : sales[s].key = sales[t].key /\ sales[s].key # NoKey => s = t

(* The ledger rows that a sale has written in one unit, and their sum.     *)
Written(rows, id) ==
  [i \in 1 .. Len(rows) |-> IF rows[i].ref = id THEN rows[i].amount ELSE 0]

CreditedIn(id, u) ==
  IF sales[id].customer = Nobody THEN 0
  ELSE SumOf(Written(ledger[sales[id].customer][u], id))

Credited(id) == [u \in Units |-> CreditedIn(id, u)]

(* What a delivery is to bring: the packages on the sale, line by line.    *)
Values(cart, u) ==
  [i \in 1 .. Len(cart) |-> IF cart[i].kind = "PACKAGE" THEN cart[i].credits[u] ELSE 0]
Worth(id) == [u \in Units |-> SumOf(Values(sales[id].cart, u))]

(* "Apply package effects only once the sale is paid": nothing of a sale   *)
(* reaches a balance before its payment is complete and covers the total,  *)
(* also when requests overlap and die.                                     *)
PaidBeforeDelivered ==
  \A id \in SaleIds :
    Credited(id) # Nothing =>
      /\ sales[id].status = "COMPLETED"
      /\ sales[id].payment = "COMPLETED"
      /\ sales[id].paidMinor >= sales[id].totalMinor

(* The redemptions are counted before the transaction that adds one, and   *)
(* open sales keep theirs.  The coupon goes beyond its limit by at most    *)
(* the requests that were past the count when the last redemption allowed  *)
(* was added: with one server request at a time it never does.             *)
Redeeming == {w \in Workers : req[w].pc = "create" /\ req[w].usable}
CouponOverrun ==
  TotalLimit > 0 =>
    redemptions + Cardinality(Redeeming) <= TotalLimit + Cardinality(Workers) - 1

(* "Idempotent - a repeat call for an already-completed sale is a no-op"   *)
(* (settle): however often a settlement is asked for, what the sale is     *)
(* worth reaches the customer at most once.                                *)
DeliveredAtMostOnce == \A id \in SaleIds, u \in Units : CreditedIn(id, u) <= Worth(id)[u]

(* The sales implement Purchases: a settlement that found the sale unpaid  *)
(* delivers all that it is worth, and no other step delivers anything.     *)
Stage == [NONE |-> "none", OPEN |-> "open", COMPLETED |-> "paid"]
Claims(id) == {w \in Workers : req[w].pc = "settle" /\ req[w].id = id}
P == INSTANCE Purchases WITH
       Sales <- SaleIds,
       Claimants <- Workers,
       stage <- [id \in SaleIds |-> Stage[sales[id].status]],
       worth <- [id \in SaleIds |-> Worth(id)],
       delivered <- [id \in SaleIds |-> Credited(id)],
       claims <- [id \in SaleIds |-> Claims(id)]
ImplementsPurchases == P!Spec
===============================================================================
