----------------------------- MODULE Sales_proofs -----------------------------
(***************************************************************************)
(* Proofs about Sales, for all carts, prices, coupons and customers: every *)
(* request that is between two of its statements is accounted for by a     *)
(* conjunct that says what it has read and what of that may be old.        *)
(***************************************************************************)
EXTENDS Sales, Pricing_proofs

-------------------------------------------------------------------------------
(* The rows of a sale add up row by row, other rows counting for nothing.  *)
LEMMA WrittenType ==
  ASSUME NEW rows \in Seq(Entries), NEW id
  PROVE  /\ Written(rows, id) \in Seq(Int)
         /\ Len(Written(rows, id)) = Len(rows)
         /\ \A i \in 1 .. Len(rows) :
              Written(rows, id)[i] = IF rows[i].ref = id THEN rows[i].amount ELSE 0
<1>1. Len(rows) \in Nat /\ \A i \in 1 .. Len(rows) : rows[i] \in Entries
  OBVIOUS
<1>2. \A i \in 1 .. Len(rows) : (IF rows[i].ref = id THEN rows[i].amount ELSE 0) \in Int
  BY <1>1 DEF Entries
<1> QED
  BY <1>1, <1>2 DEF Written

LEMMA WrittenAppend ==
  ASSUME NEW rows \in Seq(Entries), NEW row \in Entries, NEW id
  PROVE  /\ SumOf(Written(rows, id)) \in Int
         /\ SumOf(Written(Append(rows, row), id)) =
              SumOf(Written(rows, id)) + IF row.ref = id THEN row.amount ELSE 0
<1> DEFINE old == Written(rows, id)
           new == Written(Append(rows, row), id)
           x == IF row.ref = id THEN row.amount ELSE 0
<1>1. x \in Int
  BY DEF Entries
<1>2. /\ Append(rows, row) \in Seq(Entries) /\ Len(Append(rows, row)) = Len(rows) + 1
      /\ Append(rows, row)[Len(rows) + 1] = row
      /\ \A i \in 1 .. Len(rows) : Append(rows, row)[i] = rows[i]
  BY AppendProperties
<1>3. /\ old \in Seq(Int) /\ Len(old) = Len(rows)
      /\ \A i \in 1 .. Len(rows) :
           old[i] = IF rows[i].ref = id THEN rows[i].amount ELSE 0
  BY WrittenType
<1>4. /\ new \in Seq(Int) /\ Len(new) = Len(rows) + 1
      /\ \A i \in 1 .. Len(rows) + 1 :
           new[i] = IF Append(rows, row)[i].ref = id THEN Append(rows, row)[i].amount ELSE 0
  <2> DEFINE longer == Append(rows, row)
  <2> HIDE DEF longer
  <2>1. longer \in Seq(Entries) /\ Len(longer) = Len(rows) + 1
    BY <1>2 DEF longer
  <2>2. /\ Written(longer, id) \in Seq(Int) /\ Len(Written(longer, id)) = Len(longer)
        /\ \A i \in 1 .. Len(longer) :
             Written(longer, id)[i] = IF longer[i].ref = id THEN longer[i].amount ELSE 0
    BY <2>1, WrittenType
  <2> QED
    BY <2>1, <2>2 DEF longer
<1> HIDE DEF old, new
<1>5. new = Append(old, x)
  <2>1. /\ Append(old, x) \in Seq(Int) /\ Len(Append(old, x)) = Len(rows) + 1
        /\ Append(old, x)[Len(rows) + 1] = x
        /\ \A i \in 1 .. Len(rows) : Append(old, x)[i] = old[i]
    BY <1>1, <1>3, AppendProperties
  <2>2. \A i \in 1 .. Len(rows) + 1 : i \in 1 .. Len(rows) \/ i = Len(rows) + 1
    OBVIOUS
  <2>3. ASSUME NEW i \in 1 .. Len(rows) + 1 PROVE new[i] = Append(old, x)[i]
    BY <1>2, <1>3, <1>4, <2>1, <2>2, SMTT(30)
  <2> QED
    BY <1>4, <2>1, <2>3, SeqEqual
<1> HIDE DEF x
<1>6. SumOf(old) \in Int /\ SumOf(new) = SumOf(old) + x
  BY <1>1, <1>3, <1>5, SumAppend
<1> QED
  BY <1>6, Zenon DEF old, new, x

-------------------------------------------------------------------------------
(* What the packages of a sale do to a customer's book.                    *)
Book == [Units -> Seq(Entries)]

LEMMA CreditEffect ==
  ASSUME NEW book \in Book, NEW credits \in [Units -> Nat], NEW id \in SaleIds, NEW u \in Units
  PROVE  /\ Credit(book, credits, id)[u] \in Seq(Entries)
         /\ SumOf(Written(Credit(book, credits, id)[u], id)) =
              SumOf(Written(book[u], id)) + credits[u]
         /\ \A ref : ref # id => SumOf(Written(Credit(book, credits, id)[u], ref)) =
                                   SumOf(Written(book[u], ref))
<1> DEFINE old == book[u]
           new == Credit(book, credits, id)[u]
           more == credits[u]
           row == [ref |-> id, amount |-> more]
<1>1. old \in Seq(Entries) /\ more \in Nat /\ row \in Entries /\ row.ref = id /\ row.amount = more
  BY DEF Book, Entries
<1>2. new = IF more > 0 THEN Append(old, row) ELSE old
  BY DEF Credit
<1> HIDE DEF old, new, more, row
<1>3. \A r : SumOf(Written(old, r)) \in Int
  <2> TAKE r
  <2>1. Written(old, r) \in Seq(Int) /\ 0 \in Int
    BY <1>1, WrittenType
  <2> QED
    BY <2>1, SumAppend, Zenon
<1>4. \A r : SumOf(Written(Append(old, row), r)) =
               SumOf(Written(old, r)) + IF row.ref = r THEN row.amount ELSE 0
  BY <1>1, WrittenAppend
<1>5. new \in Seq(Entries)
  BY <1>1, <1>2, AppendProperties
<1>6. SumOf(Written(new, id)) = SumOf(Written(old, id)) + more
  BY <1>1, <1>2, <1>3, <1>4
<1>7. ASSUME NEW ref, ref # id PROVE SumOf(Written(new, ref)) = SumOf(Written(old, ref))
  BY <1>1, <1>2, <1>3, <1>4, <1>7
<1> QED
  BY <1>5, <1>6, <1>7 DEF old, new, more

LEMMA CreditType ==
  ASSUME NEW book \in Book, NEW credits \in [Units -> Nat], NEW id \in SaleIds
  PROVE  Credit(book, credits, id) \in Book
<1>1. \A u \in Units : Credit(book, credits, id)[u] \in Seq(Entries)
  BY CreditEffect
<1>2. Credit(book, credits, id) = [u \in Units |-> Credit(book, credits, id)[u]]
  BY DEF Credit
<1> QED
  BY <1>1, <1>2 DEF Book

(* The recursive function of WithPackages: one package line after another. *)
Delivered(book, line, id) ==
  IF line.kind = "PACKAGE" THEN Credit(book, line.credits, id) ELSE book

LEMMA PackagesOneByOne ==
  ASSUME NEW book \in Book, NEW cart \in Seq(Lines), NEW id \in SaleIds
  PROVE  \E after \in [0 .. Len(cart) -> Book] :
           /\ after[0] = book
           /\ \A n \in 1 .. Len(cart) : after[n] = Delivered(after[n - 1], cart[n], id)
           /\ WithPackages(book, cart, id) = after[Len(cart)]
<1> DEFINE L == Len(cart)
           step == [n \in 1 .. L |-> [b \in Book |-> Delivered(b, cart[n], id)]]
           Packages(f) == f = [n \in 0 .. L |->
                                 IF n = 0 THEN book
                                 ELSE IF cart[n].kind = "PACKAGE"
                                      THEN Credit(f[n - 1], cart[n].credits, id)
                                 ELSE f[n - 1]]
           chosen == CHOOSE f : Packages(f)
<1>1. L \in Nat /\ \A n \in 1 .. L : cart[n] \in Lines
  OBVIOUS
<1>2. WithPackages(book, cart, id) = chosen[L]
  BY Zenon DEF WithPackages
<1> HIDE DEF L
<1>3. \A n \in 1 .. L : \A b \in Book : Delivered(b, cart[n], id) \in Book
  <2> TAKE n \in 1 .. L
  <2> TAKE b \in Book
  <2>1. cart[n].credits \in [Units -> Nat]
    BY <1>1 DEF Lines
  <2> QED
    BY <2>1, CreditType DEF Delivered
<1>4. step \in [1 .. L -> [Book -> Book]]
  BY <1>3
<1>5. PICK f \in [0 .. L -> Book] : f[0] = book /\ \A n \in 1 .. L : f[n] = step[n][f[n - 1]]
  <2>1. DefinedStepwise(L, Book)
    BY <1>1, Stepwise
  <2> HIDE DEF step
  <2> QED
    BY <1>4, <2>1, Zenon DEF DefinedStepwise
<1>6. \A n \in 1 .. L : f[n] = Delivered(f[n - 1], cart[n], id)
  <2> TAKE n \in 1 .. L
  <2>1. f[n - 1] \in Book
    BY <1>1
  <2>2. step[n][f[n - 1]] = Delivered(f[n - 1], cart[n], id)
    BY <1>1, <2>1
  <2> QED
    BY <1>5, <2>2
<1> HIDE DEF step
<1>7. Packages(f)
  <2> DEFINE e == [n \in 0 .. L |-> IF n = 0 THEN book
                                    ELSE IF cart[n].kind = "PACKAGE"
                                         THEN Credit(f[n - 1], cart[n].credits, id)
                                    ELSE f[n - 1]]
  <2>1. ASSUME NEW n \in 0 .. L PROVE f[n] = e[n]
    <3>1. n = 0 \/ n \in 1 .. L
      BY <1>1
    <3> QED
      BY <1>5, <1>6, <3>1 DEF Delivered
  <2> QED
    BY <2>1
<1>8. Packages(chosen)
  BY <1>7, Zenon
<1> HIDE DEF chosen
<1>9. chosen[0] = book /\ \A n \in 1 .. L : chosen[n] = Delivered(chosen[n - 1], cart[n], id)
  BY <1>1, <1>8 DEF Delivered
<1>10. chosen \in [0 .. L -> Book]
  <2>1. chosen = [n \in 0 .. L |-> chosen[n]]
    BY <1>8
  <2> DEFINE S == {n \in 0 .. L : chosen[n] \in Book}
  <2>2. 0 \in S
    BY <1>1, <1>9
  <2>3. \A n \in 1 .. L : n - 1 \in S => n \in S
    BY <1>1, <1>3, <1>9
  <2>4. \A n \in 0 .. L : n \in S
    <3> HIDE DEF S
    <3> QED
      BY <1>1, <2>2, <2>3, UpTo, Zenon
  <2> QED
    BY <2>1, <2>4
<1> QED
  BY <1>2, <1>9, <1>10 DEF L

(* The packages of a sale write rows of that sale and of no other.         *)
LEMMA PackagesEffect ==
  ASSUME NEW book \in Book, NEW cart \in Seq(Lines), NEW id \in SaleIds
  PROVE  /\ WithPackages(book, cart, id) \in Book
         /\ \A u \in Units : \A ref :
              ref # id => SumOf(Written(WithPackages(book, cart, id)[u], ref)) =
                            SumOf(Written(book[u], ref))
<1> DEFINE L == Len(cart)
<1>1. L \in Nat /\ \A n \in 1 .. L : cart[n].credits \in [Units -> Nat]
  <2>1. L \in Nat /\ \A n \in 1 .. L : cart[n] \in Lines
    OBVIOUS
  <2> QED
    BY <2>1 DEF Lines
<1>2. PICK after \in [0 .. Len(cart) -> Book] :
             /\ after[0] = book
             /\ \A n \in 1 .. Len(cart) : after[n] = Delivered(after[n - 1], cart[n], id)
             /\ WithPackages(book, cart, id) = after[Len(cart)]
  BY PackagesOneByOne, Zenon
<1>3. /\ after \in [0 .. L -> Book] /\ WithPackages(book, cart, id) = after[L]
      /\ \A n \in 1 .. L : after[n] = Delivered(after[n - 1], cart[n], id)
  BY <1>2
<1> HIDE DEF L
<1>4. ASSUME NEW u \in Units, NEW ref, ref # id
      PROVE  SumOf(Written(after[L][u], ref)) = SumOf(Written(book[u], ref))
  <2> DEFINE S == {n \in 0 .. L : SumOf(Written(after[n][u], ref)) =
                                    SumOf(Written(book[u], ref))}
  <2>1. 0 \in S
    BY <1>1, <1>2
  <2>2. ASSUME NEW n \in 1 .. L, n - 1 \in S PROVE n \in S
    <3> DEFINE b == after[n - 1]
    <3>1. b \in Book /\ n \in 0 .. L
      BY <1>1, <1>3
    <3>2. SumOf(Written(b[u], ref)) = SumOf(Written(book[u], ref))
      BY <2>2
    <3>3. after[n] = Delivered(b, cart[n], id)
      BY <1>3
    <3> HIDE DEF b
    <3>4. CASE cart[n].kind = "PACKAGE"
      <4>1. SumOf(Written(Credit(b, cart[n].credits, id)[u], ref)) = SumOf(Written(b[u], ref))
        <5> DEFINE credits == cart[n].credits
        <5>1. credits \in [Units -> Nat]
          BY <1>1
        <5> HIDE DEF credits
        <5>2. \A r : r # id => SumOf(Written(Credit(b, credits, id)[u], r)) =
                              SumOf(Written(b[u], r))
          BY <3>1, <5>1, CreditEffect, Zenon
        <5> QED
          BY <1>4, <5>2 DEF credits
      <4> QED
        BY <3>1, <3>2, <3>3, <3>4, <4>1 DEF Delivered
    <3>5. CASE cart[n].kind # "PACKAGE"
      BY <3>1, <3>2, <3>3, <3>5 DEF Delivered
    <3> QED
      BY <3>4, <3>5
  <2>3. \A n \in 0 .. L : n \in S
    <3> HIDE DEF S
    <3> QED
      BY <1>1, <2>1, <2>2, UpTo, Zenon
  <2> QED
    BY <1>1, <2>3
<1>5. after[L] \in Book
  BY <1>1, <1>3
<1> QED
  BY <1>3, <1>4, <1>5

-------------------------------------------------------------------------------
(* Types.                                                                  *)
LEMMA IdleType == Idle \in Request /\ Idle.pc = "idle" /\ ~ Idle.paying /\ NoSale \in Sale
BY DEF Idle, NoSale, Request, Sale

LEMMA CartLines ==
  ASSUME NEW cart \in Carts \cup {<< >>}
  PROVE  cart \in Seq(Lines)
<1>1. << >> \in Seq(Lines)
  OBVIOUS
<1> QED
  BY <1>1, AmountsAssumption

(* The total of a sale is what its lines cost less the discount, and never *)
(* negative.                                                               *)
LEMMA TotalType ==
  ASSUME NEW cart \in Seq(Lines), NEW usable \in BOOLEAN
  PROVE  TotalOf(cart, usable) \in Nat
<1>1. Prices(cart) \in Seq(Nat)
  <2>1. Len(cart) \in Nat /\ \A i \in 1 .. Len(cart) : cart[i] \in Lines
    OBVIOUS
  <2>2. \A i \in 1 .. Len(cart) : cart[i].unitPriceMinor * cart[i].quantity \in Nat
    <3> TAKE i \in 1 .. Len(cart)
    <3>1. cart[i].unitPriceMinor \in Nat /\ cart[i].quantity \in Nat
      BY <2>1 DEF Lines
    <3> QED
      BY <3>1, ProductMonotone
  <2> QED
    BY <2>1, <2>2 DEF Prices
<1>2. Subtotal(cart) \in Nat
  BY <1>1, SumNatural DEF Subtotal
<1>3. CouponDiscount(Coupon, Subtotal(cart)) \in 0 .. Subtotal(cart)
  BY <1>2, AmountsAssumption, DiscountWithinSubtotal
<1> QED
  BY <1>2, <1>3 DEF TotalOf

LEMMA PointsType ==
  ASSUME NEW total \in Nat
  PROVE  LoyaltyPoints(total) \in Nat
BY DEF LoyaltyPoints

LEMMA DeliverType ==
  ASSUME TypeOK, NEW k \in Customers \cup {Nobody}, NEW cart \in Seq(Lines), NEW total \in Nat,
         NEW id \in SaleIds, Deliver(k, cart, total, id)
  PROVE  /\ ledger' \in [Customers -> [Units -> Seq(Entries)]]
         /\ points' \in [Customers -> Nat]
<1>1. /\ ledger \in [Customers -> Book]
      /\ points \in [Customers -> Nat] /\ id \in SaleIds
  BY DEF TypeOK, Book
<1>2. CASE k = Nobody
  BY <1>1, <1>2 DEF Deliver, Book
<1>3. CASE k # Nobody
  <2>1. k \in Customers
    BY <1>3
  <2>2. WithPackages(ledger[k], cart, id) \in Book
    BY <1>1, <2>1, PackagesEffect
  <2>3. ledger' = [ledger EXCEPT ![k] = WithPackages(ledger[k], cart, id)]
    BY <1>3 DEF Deliver
  <2>4. points[k] + LoyaltyPoints(total) \in Nat
    <3>1. points[k] \in Nat /\ LoyaltyPoints(total) \in Nat
      BY <1>1, <2>1, PointsType
    <3> QED
      BY <3>1
  <2>5. points' = [points EXCEPT ![k] = points[k] + LoyaltyPoints(total)]
    BY <1>3 DEF Deliver
  <2> QED
    BY <1>1, <2>1, <2>2, <2>3, <2>4, <2>5 DEF Book
<1> QED
  BY <1>2, <1>3

(* A request past its start serves a sale of the shop, and a request does  *)
(* not both pay and prepare a payment.                                     *)
OnASale == {"pending", "readSale", "settle", "provider", "refund"}
Sound(r) == (r.pc \in OnASale => r.id \in SaleIds) /\ ~ (r.paying /\ r.prepare)
HasSale == \A w \in Workers : Sound(req[w])
Typed == TypeOK /\ HasSale

(* What a step does to the request of its worker.                          *)
Serves(w, r) ==
  /\ r \in Request
  /\ Sound(r)
  /\ req' = [req EXCEPT ![w] = r]

LEMMA ServesType ==
  ASSUME Typed, NEW w \in Workers, NEW r, Serves(w, r)
  PROVE  req' \in [Workers -> Request] /\ HasSale'
<1>1. req \in [Workers -> Request]
  BY DEF Typed, TypeOK
<1>2. req' \in [Workers -> Request]
  BY <1>1 DEF Serves
<1>3. \A v \in Workers : req'[v] = IF v = w THEN r ELSE req[v]
  BY <1>1 DEF Serves
<1> QED
  BY <1>2, <1>3 DEF Serves, Typed, HasSale

LEMMA FinishServes ==
  ASSUME NEW w \in Workers, Finish(w)
  PROVE  Serves(w, Idle)
BY IdleType DEF Finish, Serves, OnASale, Sound

(* A request arrives: the worker takes it up and nothing else changes.     *)
Elsewhere == <<sales, ledger, points, redemptions, charged, crashes>>
TakesUp(w, r) ==
  /\ Serves(w, r)
  /\ req[w].pc = "idle"
  /\ r.pc \in {"price", "readSale", "provider", "refund"}
  /\ r.pc = "readSale" => AnyPayment(r.id)
  /\ requests \in Nat => requests' \in Nat
  /\ UNCHANGED Elsewhere

LEMMA ArrivalTakesUp ==
  ASSUME Typed, NEW w \in Workers, Arrival(w)
  PROVE  \E r : TakesUp(w, r)
<1>1. requests \in Nat => requests + 1 \in Nat
  OBVIOUS
<1>2. ASSUME NEW k \in Customers \cup {Nobody}, NEW cart \in Carts, NEW c \in BOOLEAN,
             \/ \E key \in Keys \cup {NoKey}, tender \in Tenders : Sell(w, k, cart, key, tender, c)
             \/ Order(w, k, cart, c)
             \/ Prepare(w, k, cart)
      PROVE  \E r : TakesUp(w, r)
  <2>1. ASSUME NEW key \in Keys \cup {NoKey}, NEW tender \in Tenders,
               Sell(w, k, cart, key, tender, c)
        PROVE  \E r : TakesUp(w, r)
    <3> DEFINE r == [Idle EXCEPT !.pc = "price", !.customer = k, !.cart = cart, !.key = key,
                       !.paying = TRUE, !.tender = tender, !.couponGiven = c]
    <3>1. tender \in Nat
      BY AmountsAssumption
    <3>2. r \in Request /\ ~ (r.paying /\ r.prepare) /\ r.pc = "price"
      BY <3>1 DEF Idle, Request
    <3> HIDE DEF r
    <3>3. /\ req[w].pc = "idle" /\ requests' = requests + 1 /\ req' = [req EXCEPT ![w] = r]
          /\ UNCHANGED Elsewhere
      BY <2>1, Zenon DEF Sell, Arrives, Elsewhere, r
    <3> QED
      BY <1>1, <3>2, <3>3 DEF TakesUp, Serves, OnASale, Sound
  <2>2. ASSUME Order(w, k, cart, c) PROVE \E r : TakesUp(w, r)
    <3> DEFINE r == [Idle EXCEPT !.pc = "price", !.customer = k, !.cart = cart, !.couponGiven = c]
    <3>1. r \in Request /\ ~ (r.paying /\ r.prepare) /\ r.pc = "price"
      BY DEF Idle, Request
    <3> HIDE DEF r
    <3>2. /\ req[w].pc = "idle" /\ requests' = requests + 1 /\ req' = [req EXCEPT ![w] = r]
          /\ UNCHANGED Elsewhere
      BY <2>2, Zenon DEF Order, Arrives, Elsewhere, r
    <3> QED
      BY <1>1, <3>1, <3>2 DEF TakesUp, Serves, OnASale, Sound
  <2>3. ASSUME Prepare(w, k, cart) PROVE \E r : TakesUp(w, r)
    <3> DEFINE r == [Idle EXCEPT !.pc = "price", !.customer = k, !.cart = cart, !.prepare = TRUE]
    <3>1. r \in Request /\ ~ (r.paying /\ r.prepare) /\ r.pc = "price"
      BY DEF Idle, Request
    <3> HIDE DEF r
    <3>2. /\ req[w].pc = "idle" /\ requests' = requests + 1 /\ req' = [req EXCEPT ![w] = r]
          /\ UNCHANGED Elsewhere
      BY <2>3, Zenon DEF Prepare, Arrives, Elsewhere, r
    <3> QED
      BY <1>1, <3>1, <3>2 DEF TakesUp, Serves, OnASale, Sound
  <2> QED
    BY <1>2, <2>1, <2>2, <2>3
<1>3. ASSUME NEW id \in SaleIds,
             \/ Callback(w, id) \/ DevSettle(w, id) \/ CardRefund(w, id)
             \/ \E amount \in Amounts : Refund(w, id, amount)
      PROVE  \E r : TakesUp(w, r)
  <2>1. ASSUME Callback(w, id) \/ DevSettle(w, id) PROVE \E r : TakesUp(w, r)
    <3> DEFINE r == [Idle EXCEPT !.pc = "readSale", !.id = id]
    <3>1. r \in Request /\ ~ (r.paying /\ r.prepare) /\ r.pc = "readSale" /\ r.id = id
      BY DEF Idle, Request
    <3> HIDE DEF r
    <3>2. /\ req[w].pc = "idle" /\ requests' = requests + 1 /\ req' = [req EXCEPT ![w] = r]
          /\ UNCHANGED Elsewhere
      BY <2>1, Zenon DEF Callback, DevSettle, Arrives, Elsewhere, r
    <3>3. AnyPayment(id)
      BY <2>1 DEF Callback, DevSettle, AnyPayment, StillPending
    <3> QED
      BY <1>1, <3>1, <3>2, <3>3 DEF TakesUp, Serves, OnASale, Sound
  <2>2. ASSUME CardRefund(w, id) PROVE \E r : TakesUp(w, r)
    <3> DEFINE r == [Idle EXCEPT !.pc = "provider", !.id = id, !.amount = sales[id].paidMinor]
    <3>1. sales[id].paidMinor \in Nat
      BY DEF Typed, TypeOK, Sale
    <3>2. r \in Request /\ ~ (r.paying /\ r.prepare) /\ r.pc = "provider" /\ r.id = id
      BY <3>1 DEF Idle, Request
    <3> HIDE DEF r
    <3>3. /\ req[w].pc = "idle" /\ requests' = requests + 1 /\ req' = [req EXCEPT ![w] = r]
          /\ UNCHANGED Elsewhere
      BY <2>2, Zenon DEF CardRefund, Arrives, Elsewhere, r
    <3> QED
      BY <1>1, <3>2, <3>3 DEF TakesUp, Serves, OnASale, Sound
  <2>3. ASSUME NEW amount \in Amounts, Refund(w, id, amount) PROVE \E r : TakesUp(w, r)
    <3> DEFINE r == [Idle EXCEPT !.pc = "refund", !.id = id, !.amount = amount]
    <3>1. amount \in Nat
      BY AmountsAssumption
    <3>2. r \in Request /\ ~ (r.paying /\ r.prepare) /\ r.pc = "refund" /\ r.id = id
      BY <3>1 DEF Idle, Request
    <3> HIDE DEF r
    <3>3. /\ req[w].pc = "idle" /\ requests' = requests + 1 /\ req' = [req EXCEPT ![w] = r]
          /\ UNCHANGED Elsewhere
      BY <2>3, Zenon DEF Refund, Arrives, Elsewhere, r
    <3> QED
      BY <1>1, <3>2, <3>3 DEF TakesUp, Serves, OnASale, Sound
  <2> QED
    BY <1>3, <2>1, <2>2, <2>3
<1> QED
  BY <1>2, <1>3 DEF Arrival

(* The steps that read and decide, and a crash: only the request moves on. *)
Priced(r) ==
  /\ r.paying => r.tender >= r.totalMinor
  /\ HasPackage(r.cart) => r.customer # Nobody
  /\ r.usable => CouponUsable

MovesOn(w, r) ==
  /\ Serves(w, r)
  /\ r.pc \in {"idle", "create", "settle", "refund"}
  /\ r.pc = "create" => Priced(r)
  /\ r.pc = "settle" => /\ req[w].pc = "readSale" /\ r.id = req[w].id
                        /\ ~ AlreadyCompleted(r.id)
  /\ crashes \in Nat => crashes' \in Nat
  /\ UNCHANGED <<sales, ledger, points, redemptions, charged, requests>>

Decides(w) ==
  PriceSale(w) \/ SaleRefused(w) \/ DuplicateKey(w) \/ ReadSale(w) \/ ProviderAnswers(w) \/ Crash(w)

LEMMA DecidesMovesOn ==
  ASSUME Typed, NEW w \in Workers, Decides(w)
  PROVE  \E r : MovesOn(w, r)
<1> DEFINE R == req[w]
<1>1. R \in Request /\ req \in [Workers -> Request]
  BY DEF Typed, TypeOK
<1>0. ~ (R.paying /\ R.prepare)
  BY DEF Typed, HasSale, Sound
<1>2. ASSUME Finish(w), UNCHANGED <<sales, ledger, points, redemptions, charged, requests>>,
             crashes \in Nat => crashes' \in Nat
      PROVE  \E r : MovesOn(w, r)
  <2>1. Serves(w, Idle) /\ Idle.pc = "idle"
    BY <1>2, FinishServes, IdleType
  <2> QED
    BY <1>2, <2>1 DEF MovesOn
<1>3. CASE PriceSale(w)
  <2> DEFINE usable == req[w].couponGiven /\ CouponUsable
             total == TotalOf(req[w].cart, usable)
             r == [R EXCEPT !.pc = "create", !.usable = usable, !.totalMinor = total]
  <2>1. usable \in BOOLEAN
    BY <1>1 DEF Request
  <2>2. total \in Nat
    <3>1. R.cart \in Seq(Lines)
      BY <1>1, CartLines DEF Request
    <3> HIDE DEF usable
    <3> QED
      BY <2>1, <3>1, TotalType
  <2>3. /\ R.pc = "price"
        /\ HasPackage(R.cart) => R.customer # Nobody
        /\ R.paying => R.tender >= total
        /\ usable => CouponUsable
        /\ UNCHANGED <<sales, ledger, points, redemptions, charged, requests, crashes>>
    BY <1>3, Zenon DEF PriceSale
  <2>4. req' = [req EXCEPT ![w].pc = "create", ![w].usable = usable, ![w].totalMinor = total]
    BY <1>3, Zenon DEF PriceSale
  <2> HIDE DEF usable, total
  <2>5. req' = [req EXCEPT ![w] = r]
    BY <1>1, <2>4
  <2>6. /\ r \in Request /\ r.pc = "create" /\ r.paying = R.paying /\ r.tender = R.tender
        /\ r.totalMinor = total /\ r.prepare = R.prepare /\ r.cart = R.cart /\ r.customer = R.customer
        /\ r.usable = usable
    BY <1>1, <2>1, <2>2 DEF Request
  <2> HIDE DEF r
  <2>7. Priced(r)
    BY <2>3, <2>6 DEF Priced
  <2> QED
    BY <1>0, <2>3, <2>5, <2>6, <2>7 DEF MovesOn, Serves, OnASale, Sound
<1>4. CASE SaleRefused(w) \/ DuplicateKey(w)
  BY <1>2, <1>4 DEF SaleRefused, DuplicateKey
<1>5. CASE ReadSale(w)
  <2>1. CASE AlreadyCompleted(R.id)
    BY <1>2, <1>5, <2>1 DEF ReadSale
  <2>2. CASE ~ AlreadyCompleted(R.id)
    <3> DEFINE r == [R EXCEPT !.pc = "settle"]
    <3>1. /\ R.pc = "readSale" /\ req' = [req EXCEPT ![w].pc = "settle"]
          /\ UNCHANGED <<sales, ledger, points, redemptions, charged, requests, crashes>>
      BY <1>5, <2>2 DEF ReadSale
    <3>2. req' = [req EXCEPT ![w] = r]
      BY <1>1, <3>1
    <3>3. r \in Request /\ r.pc = "settle" /\ r.id = R.id
          /\ r.paying = R.paying /\ r.prepare = R.prepare
      BY <1>1 DEF Request
    <3>4. R.id \in SaleIds
      BY <3>1 DEF Typed, HasSale, OnASale, Sound
    <3> HIDE DEF r
    <3> QED
      BY <1>0, <2>2, <3>1, <3>2, <3>3, <3>4 DEF MovesOn, Serves, Sound
  <2> QED
    BY <2>1, <2>2
<1>6. CASE ProviderAnswers(w)
  <2>1. CASE Finish(w)
    BY <1>2, <1>6, <2>1 DEF ProviderAnswers
  <2>2. CASE req' = [req EXCEPT ![w].pc = "refund"]
    <3> DEFINE r == [R EXCEPT !.pc = "refund"]
    <3>1. /\ R.pc = "provider"
          /\ UNCHANGED <<sales, ledger, points, redemptions, charged, requests, crashes>>
      BY <1>6 DEF ProviderAnswers
    <3>2. req' = [req EXCEPT ![w] = r]
      BY <1>1, <2>2
    <3>3. r \in Request /\ r.pc = "refund" /\ r.id = R.id
          /\ r.paying = R.paying /\ r.prepare = R.prepare
      BY <1>1 DEF Request
    <3>4. R.id \in SaleIds
      BY <3>1 DEF Typed, HasSale, OnASale, Sound
    <3> HIDE DEF r
    <3> QED
      BY <1>0, <3>1, <3>2, <3>3, <3>4 DEF MovesOn, Serves, Sound
  <2> QED
    BY <1>6, <2>1, <2>2 DEF ProviderAnswers
<1>7. CASE Crash(w)
  <2>1. crashes \in Nat => crashes' \in Nat
    BY <1>7 DEF Crash
  <2> QED
    BY <1>2, <1>7, <2>1 DEF Crash
<1> QED
  BY <1>3, <1>4, <1>5, <1>6, <1>7 DEF Decides

-------------------------------------------------------------------------------
(* The steps that write.                                                   *)
PendingRequest(id) == [Idle EXCEPT !.pc = "pending", !.id = id]
Committed(w) == IF req[w].prepare THEN "pending" ELSE "idle"

LEMMA CommitWrites ==
  ASSUME Typed, NEW w \in Workers, NEW id \in SaleIds, CommitSale(w, id)
  PROVE  /\ sales' \in [SaleIds -> Sale] /\ sales' = [sales EXCEPT ![id] = NewSale(w)]
         /\ NewSale(w).status = IF req[w].paying THEN "COMPLETED" ELSE "OPEN"
         /\ NewSale(w).payment = IF req[w].paying THEN "COMPLETED" ELSE "NONE"
         /\ NewSale(w).paidMinor = IF req[w].paying THEN req[w].tender ELSE 0
         /\ NewSale(w).key = IF req[w].paying THEN req[w].key ELSE NoKey
         /\ NewSale(w).customer = req[w].customer /\ NewSale(w).cart = req[w].cart
         /\ NewSale(w).totalMinor = req[w].totalMinor
         /\ \E r : Serves(w, r) /\ r.pc = Committed(w) /\ (r.pc = "pending" => r.id = id)
         /\ ledger' \in [Customers -> [Units -> Seq(Entries)]]
         /\ points' \in [Customers -> Nat]
         /\ redemptions' \in Nat
         /\ UNCHANGED <<charged, requests, crashes>>
<1> DEFINE R == req[w]
           new == NewSale(w)
<1>1. R \in Request /\ sales \in [SaleIds -> Sale] /\ redemptions \in Nat
      /\ ledger \in [Customers -> [Units -> Seq(Entries)]] /\ points \in [Customers -> Nat]
  BY DEF Typed, TypeOK
<1>2. /\ R.customer \in Customers \cup {Nobody} /\ R.cart \in Carts \cup {<< >>}
      /\ R.totalMinor \in Nat /\ R.tender \in Nat /\ R.key \in Keys \cup {NoKey}
      /\ R.paying \in BOOLEAN /\ R.prepare \in BOOLEAN
  BY <1>1 DEF Request
<1>3. /\ new.status = IF R.paying THEN "COMPLETED" ELSE "OPEN"
      /\ new.payment = IF R.paying THEN "COMPLETED" ELSE "NONE"
      /\ new.paidMinor = IF R.paying THEN R.tender ELSE 0
      /\ new.key = IF R.paying THEN R.key ELSE NoKey
      /\ new.customer = R.customer /\ new.cart = R.cart /\ new.totalMinor = R.totalMinor
  BY DEF NewSale, NoSale
<1>4. new \in Sale
  BY <1>2 DEF NewSale, NoSale, Sale
<1>5. sales' = [sales EXCEPT ![id] = new] /\ UNCHANGED <<charged, requests, crashes>>
  BY DEF CommitSale
<1> HIDE DEF new
<1>6. sales' \in [SaleIds -> Sale]
  BY <1>1, <1>4, <1>5
<1>7. \E r : Serves(w, r) /\ r.pc = Committed(w) /\ (r.pc = "pending" => r.id = id)
  <2>1. CASE R.prepare
    <3> DEFINE r == PendingRequest(id)
    <3>1. r \in Request /\ ~ r.paying /\ r.pc = "pending" /\ r.id = id
      BY DEF PendingRequest, Idle, Request
    <3>2. req' = [req EXCEPT ![w] = r]
      BY <2>1 DEF CommitSale, PendingRequest
    <3> HIDE DEF r
    <3> QED
      BY <2>1, <3>1, <3>2 DEF Serves, Sound, Committed
  <2>2. CASE ~ R.prepare
    <3>1. Serves(w, Idle) /\ Idle.pc = "idle"
      BY <2>2, FinishServes, IdleType DEF CommitSale
    <3> QED
      BY <2>2, <3>1 DEF Committed
  <2> QED
    BY <2>1, <2>2
<1>8. /\ ledger' \in [Customers -> [Units -> Seq(Entries)]]
      /\ points' \in [Customers -> Nat]
  <2>1. R.cart \in Seq(Lines)
    BY <1>2, CartLines
  <2>2. CASE R.paying
    <3>1. Deliver(R.customer, R.cart, R.totalMinor, id)
      BY <2>2 DEF CommitSale, EffectsOfSale
    <3> QED
      BY <1>2, <2>1, <3>1, DeliverType DEF Typed
  <2>3. CASE ~ R.paying
    BY <1>1, <2>3 DEF CommitSale, EffectsOfSale
  <2> QED
    BY <2>2, <2>3
<1>9. redemptions' \in Nat
  BY <1>1 DEF CommitSale
<1> QED
  BY <1>3, <1>5, <1>6, <1>7, <1>8, <1>9 DEF new

LEMMA PendingWrites ==
  ASSUME Typed, NEW w \in Workers, PendingPayment(w)
  PROVE  /\ req[w].pc = "pending" /\ req[w].id \in SaleIds
         /\ sales' \in [SaleIds -> Sale] /\ Serves(w, Idle)
         /\ sales' = [sales EXCEPT ![req[w].id] =
                        [@ EXCEPT !.payment = "PENDING", !.paidMinor = sales[req[w].id].totalMinor]]
         /\ UNCHANGED <<ledger, points, redemptions, charged, requests, crashes>>
<1> DEFINE id == req[w].id
           new == [sales[id] EXCEPT !.payment = "PENDING", !.paidMinor = sales[id].totalMinor]
<1>1. req[w].pc = "pending" /\ id \in SaleIds
  BY DEF PendingPayment, Typed, HasSale, OnASale, Sound
<1>2. Serves(w, Idle) /\ UNCHANGED <<ledger, points, redemptions, charged, requests, crashes>>
  BY FinishServes DEF PendingPayment
<1>3. sales \in [SaleIds -> Sale]
  BY DEF Typed, TypeOK
<1>4. sales' = [sales EXCEPT ![id].payment = "PENDING", ![id].paidMinor = sales[id].totalMinor]
  BY Zenon DEF PendingPayment
<1> HIDE DEF id
<1>5. sales' = [sales EXCEPT ![id] = new]
  BY <1>1, <1>3, <1>4
<1>6. new \in Sale
  BY <1>1, <1>3 DEF Sale
<1> QED
  BY <1>1, <1>2, <1>3, <1>5, <1>6 DEF id

LEMMA SettleWrites ==
  ASSUME Typed, NEW w \in Workers, Settle(w)
  PROVE  /\ req[w].pc = "settle" /\ req[w].id \in SaleIds
         /\ sales' \in [SaleIds -> Sale] /\ Serves(w, Idle)
         /\ sales' = [sales EXCEPT ![req[w].id] =
                        [@ EXCEPT !.status = "COMPLETED", !.payment = "COMPLETED", !.card = TRUE]]
         /\ ledger' \in [Customers -> [Units -> Seq(Entries)]]
         /\ points' \in [Customers -> Nat]
         /\ UNCHANGED <<redemptions, charged, requests, crashes>>
<1> DEFINE id == req[w].id
           new == [sales[id] EXCEPT !.status = "COMPLETED", !.payment = "COMPLETED",
                                    !.card = TRUE]
<1>1. req[w].pc = "settle" /\ id \in SaleIds
  BY DEF Settle, Typed, HasSale, OnASale, Sound
<1>2. Serves(w, Idle) /\ UNCHANGED <<redemptions, charged, requests, crashes>>
  BY FinishServes DEF Settle
<1>3. sales \in [SaleIds -> Sale]
  BY DEF Typed, TypeOK
<1>4. /\ sales' = [sales EXCEPT ![id].status = "COMPLETED", ![id].payment = "COMPLETED",
                                ![id].card = TRUE]
      /\ Deliver(sales[id].customer, sales[id].cart, sales[id].totalMinor, id)
  BY Zenon DEF Settle
<1> HIDE DEF id
<1>5. sales' = [sales EXCEPT ![id] = new]
  BY <1>1, <1>3, <1>4
<1>6. new \in Sale
  BY <1>1, <1>3, ZenonT(60) DEF Sale
<1>7. ledger' \in [Customers -> [Units -> Seq(Entries)]] /\ points' \in [Customers -> Nat]
  <2>1. /\ sales[id].customer \in Customers \cup {Nobody}
        /\ sales[id].cart \in Carts \cup {<< >>} /\ sales[id].totalMinor \in Nat
    BY <1>1, <1>3 DEF Sale
  <2>2. sales[id].cart \in Seq(Lines)
    BY <2>1, CartLines
  <2> QED
    BY <1>1, <1>4, <2>1, <2>2, DeliverType DEF Typed
<1> QED
  BY <1>1, <1>2, <1>3, <1>5, <1>6, <1>7 DEF id

LEMMA RefundWrites ==
  ASSUME Typed, NEW w \in Workers, RecordRefund(w)
  PROVE  /\ req[w].pc = "refund" /\ req[w].id \in SaleIds
         /\ sales' \in [SaleIds -> Sale] /\ Serves(w, Idle)
         /\ sales' = [sales EXCEPT ![req[w].id] =
                        [sales[req[w].id] EXCEPT !.refundedMinor = @ + req[w].amount]]
         /\ UNCHANGED <<ledger, points, redemptions, charged, requests, crashes>>
<1> DEFINE id == req[w].id
           new == [sales[id] EXCEPT !.refundedMinor = @ + req[w].amount]
<1>1. req[w].pc = "refund" /\ id \in SaleIds
  BY DEF RecordRefund, Typed, HasSale, OnASale, Sound
<1>2. Serves(w, Idle) /\ UNCHANGED <<ledger, points, redemptions, charged, requests, crashes>>
  BY FinishServes DEF RecordRefund
<1>3. sales \in [SaleIds -> Sale] /\ req[w].amount \in Nat
  BY DEF Typed, TypeOK, Request
<1>4. sales' = [sales EXCEPT ![id].refundedMinor = @ + req[w].amount]
  BY Zenon DEF RecordRefund
<1> HIDE DEF id
<1>5. sales' = [sales EXCEPT ![id] = new]
  BY <1>1, <1>3, <1>4
<1>6. new \in Sale
  <2>1. sales[id] \in Sale /\ sales[id].refundedMinor \in Nat
    BY <1>1, <1>3 DEF Sale
  <2>2. sales[id].refundedMinor + req[w].amount \in Nat
    BY <1>3, <2>1
  <2> QED
    BY <2>1, <2>2 DEF Sale
<1>7. sales' \in [SaleIds -> Sale]
  BY <1>1, <1>3, <1>5, <1>6
<1> QED
  BY <1>1, <1>2, <1>5, <1>7, Zenon DEF id

(* These writes leave the lines, the customer, the total and the key of    *)
(* the sale alone, and every other sale.                                   *)
SameGoods(id) ==
  /\ sales'[id].customer = sales[id].customer /\ sales'[id].cart = sales[id].cart
  /\ sales'[id].totalMinor = sales[id].totalMinor /\ sales'[id].key = sales[id].key

LEMMA PendingFields ==
  ASSUME Typed, NEW w \in Workers, PendingPayment(w)
  PROVE  /\ \A s \in SaleIds : s # req[w].id => sales'[s] = sales[s]
         /\ SameGoods(req[w].id)
         /\ sales'[req[w].id].payment = "PENDING" /\ sales'[req[w].id].paidMinor = sales[req[w].id].totalMinor
         /\ sales'[req[w].id].status = sales[req[w].id].status
<1> DEFINE id == req[w].id
           old == sales[id]
           new == [old EXCEPT !.payment = "PENDING", !.paidMinor = old.totalMinor]
<1>1. id \in SaleIds /\ sales \in [SaleIds -> Sale] /\ sales' = [sales EXCEPT ![id] = new]
  BY PendingWrites DEF Typed, TypeOK
<1>2. old \in Sale
  BY <1>1
<1> HIDE DEF id, old
<1>3. /\ new.customer = old.customer /\ new.cart = old.cart
      /\ new.totalMinor = old.totalMinor /\ new.key = old.key
      /\ new.payment = "PENDING" /\ new.paidMinor = old.totalMinor
      /\ new.status = old.status
  BY <1>2 DEF Sale
<1> HIDE DEF new
<1>4. \A s \in SaleIds : sales'[s] = IF s = id THEN new ELSE sales[s]
  BY <1>1
<1> QED
  BY <1>1, <1>3, <1>4 DEF SameGoods, id, old

LEMMA SettleFields ==
  ASSUME Typed, NEW w \in Workers, Settle(w)
  PROVE  /\ \A s \in SaleIds : s # req[w].id => sales'[s] = sales[s]
         /\ SameGoods(req[w].id)
         /\ sales'[req[w].id].status = "COMPLETED" /\ sales'[req[w].id].payment = "COMPLETED"
         /\ sales'[req[w].id].paidMinor = sales[req[w].id].paidMinor
<1> DEFINE id == req[w].id
           old == sales[id]
           new == [old EXCEPT !.status = "COMPLETED", !.payment = "COMPLETED",
                                  !.card = TRUE]
<1>1. id \in SaleIds /\ sales \in [SaleIds -> Sale] /\ sales' = [sales EXCEPT ![id] = new]
  BY SettleWrites DEF Typed, TypeOK
<1>2. old \in Sale
  BY <1>1
<1> HIDE DEF id, old
<1>3. /\ new.customer = old.customer /\ new.cart = old.cart
      /\ new.totalMinor = old.totalMinor /\ new.key = old.key
      /\ new.status = "COMPLETED" /\ new.payment = "COMPLETED"
      /\ new.paidMinor = old.paidMinor
  BY <1>2 DEF Sale
<1> HIDE DEF new
<1>4. \A s \in SaleIds : sales'[s] = IF s = id THEN new ELSE sales[s]
  BY <1>1
<1> QED
  BY <1>1, <1>3, <1>4 DEF SameGoods, id, old

LEMMA RefundFields ==
  ASSUME Typed, NEW w \in Workers, RecordRefund(w)
  PROVE  /\ \A s \in SaleIds : s # req[w].id => sales'[s] = sales[s]
         /\ SameGoods(req[w].id)
         /\ sales'[req[w].id].status = sales[req[w].id].status /\ sales'[req[w].id].payment = sales[req[w].id].payment
         /\ sales'[req[w].id].paidMinor = sales[req[w].id].paidMinor
<1> DEFINE id == req[w].id
           old == sales[id]
           new == [old EXCEPT !.refundedMinor = @ + req[w].amount]
<1>1. id \in SaleIds /\ sales \in [SaleIds -> Sale] /\ sales' = [sales EXCEPT ![id] = new]
  BY RefundWrites DEF Typed, TypeOK
<1>2. old \in Sale
  BY <1>1
<1> HIDE DEF id, old
<1>3. /\ new.customer = old.customer /\ new.cart = old.cart
      /\ new.totalMinor = old.totalMinor /\ new.key = old.key
      /\ new.status = old.status /\ new.payment = old.payment
      /\ new.paidMinor = old.paidMinor
  BY <1>2 DEF Sale
<1> HIDE DEF new
<1>4. \A s \in SaleIds : sales'[s] = IF s = id THEN new ELSE sales[s]
  BY <1>1
<1> QED
  BY <1>1, <1>3, <1>4 DEF SameGoods, id, old

-------------------------------------------------------------------------------
(* Every step is one of these.                                             *)
LEMMA StepCases ==
  ASSUME Typed, Next
  PROVE  \/ \E w \in Workers : \E r : TakesUp(w, r)
         \/ \E w \in Workers : \E r : MovesOn(w, r)
         \/ \E w \in Workers, id \in SaleIds : CommitSale(w, id)
         \/ \E w \in Workers : PendingPayment(w)
         \/ \E w \in Workers : Settle(w)
         \/ \E w \in Workers : RecordRefund(w)
         \/ \E id \in SaleIds : ProviderCharges(id)
<1>1. ASSUME NEW w \in Workers, Arrival(w) PROVE \E r : TakesUp(w, r)
  BY <1>1, ArrivalTakesUp
<1>2. ASSUME NEW w \in Workers, Decides(w) PROVE \E r : MovesOn(w, r)
  BY <1>2, DecidesMovesOn
<1> QED
  BY <1>1, <1>2 DEF Next, Step, Decides

LEMMA TypedInit == Init => Typed
<1> SUFFICES ASSUME Init PROVE Typed
  OBVIOUS
<1>1. EmptyBook \in [Units -> Seq(Entries)]
  <2>1. << >> \in Seq(Entries)
    OBVIOUS
  <2> QED
    BY <2>1 DEF EmptyBook
<1>2. TypeOK
  BY <1>1, IdleType DEF Init, TypeOK
<1>3. HasSale
  BY IdleType DEF Init, HasSale, OnASale, Sound
<1> QED
  BY <1>2, <1>3 DEF Typed

LEMMA TypedStep == Typed /\ [Next]_vars => Typed'
<1> SUFFICES ASSUME Typed, [Next]_vars PROVE Typed'
  OBVIOUS
<1> USE DEF Typed
<1>1. ASSUME NEW w \in Workers, NEW r, TakesUp(w, r) PROVE Typed'
  BY <1>1, ServesType DEF TakesUp, TypeOK, Elsewhere
<1>2. ASSUME NEW w \in Workers, NEW r, MovesOn(w, r) PROVE Typed'
  BY <1>2, ServesType DEF MovesOn, TypeOK
<1>3. ASSUME NEW w \in Workers, NEW id \in SaleIds, CommitSale(w, id) PROVE Typed'
  BY <1>3, CommitWrites, ServesType DEF TypeOK
<1>4. ASSUME NEW w \in Workers, PendingPayment(w) PROVE Typed'
  BY <1>4, PendingWrites, ServesType DEF TypeOK
<1>5. ASSUME NEW w \in Workers, Settle(w) PROVE Typed'
  BY <1>5, SettleWrites, ServesType DEF TypeOK
<1>6. ASSUME NEW w \in Workers, RecordRefund(w) PROVE Typed'
  BY <1>6, RefundWrites, ServesType DEF TypeOK
<1>7. ASSUME NEW id \in SaleIds, ProviderCharges(id) PROVE Typed'
  BY <1>7 DEF ProviderCharges, TypeOK, HasSale
<1>8. CASE UNCHANGED vars
  BY <1>8 DEF vars, TypeOK, HasSale
<1> QED
  BY <1>1, <1>2, <1>3, <1>4, <1>5, <1>6, <1>7, <1>8, StepCases

(* The types of all rows, and totals that are never negative, whatever the *)
(* prices, the coupon and the overlap of requests.                         *)
THEOREM SalesTypes == Spec => []TypeOK
<1>1. Typed => TypeOK
  BY DEF Typed
<1> QED
  BY <1>1, TypedInit, TypedStep, PTL DEF Spec

(* The invariant the proofs below rest on: with the types, what a request  *)
(* that works has read is the row of a sale.                               *)
THEOREM AlwaysTyped == Spec => []Typed
BY TypedInit, TypedStep, PTL DEF Spec

-------------------------------------------------------------------------------
(* One sale per key, however requests overlap.                             *)
LEMMA KeyInit == Init => OneSalePerKey
BY DEF Init, NoSale, OneSalePerKey

LEMMA KeysKept ==
  ASSUME OneSalePerKey, \A id \in SaleIds : sales'[id].key = sales[id].key
  PROVE  OneSalePerKey'
BY DEF OneSalePerKey

LEMMA KeyStep == Typed /\ OneSalePerKey /\ [Next]_vars => OneSalePerKey'
<1> SUFFICES ASSUME Typed, OneSalePerKey, [Next]_vars PROVE OneSalePerKey'
  OBVIOUS
<1>1. sales \in [SaleIds -> Sale]
  BY DEF Typed, TypeOK
<1>2. ASSUME sales' = sales PROVE OneSalePerKey'
  BY <1>2, KeysKept
<1>3. ASSUME NEW w \in Workers, NEW id \in SaleIds, CommitSale(w, id) PROVE OneSalePerKey'
  <2>1. \A s \in SaleIds : sales'[s] = IF s = id THEN NewSale(w) ELSE sales[s]
    BY <1>1, <1>3, CommitWrites
  <2>2. NewSale(w).key # NoKey => \A s \in SaleIds : sales[s].key # NewSale(w).key
    <3>1. req[w].paying => ~ KeyKnown(req[w].key)
      BY <1>3 DEF CommitSale, KeyIsUnique
    <3>2. NewSale(w).key = IF req[w].paying THEN req[w].key ELSE NoKey
      BY <1>3, CommitWrites
    <3> QED
      BY <3>1, <3>2 DEF KeyKnown
  <2> QED
    BY <2>1, <2>2 DEF OneSalePerKey
<1>4. ASSUME NEW w \in Workers, PendingPayment(w) PROVE OneSalePerKey'
  <2>1. \A id \in SaleIds : sales'[id].key = sales[id].key
    BY <1>4, PendingFields DEF SameGoods
  <2> QED
    BY <2>1, KeysKept
<1>5. ASSUME NEW w \in Workers, Settle(w) PROVE OneSalePerKey'
  <2>1. \A id \in SaleIds : sales'[id].key = sales[id].key
    BY <1>5, SettleFields DEF SameGoods
  <2> QED
    BY <2>1, KeysKept
<1>6. ASSUME NEW w \in Workers, RecordRefund(w) PROVE OneSalePerKey'
  <2>1. \A id \in SaleIds : sales'[id].key = sales[id].key
    BY <1>6, RefundFields DEF SameGoods
  <2> QED
    BY <2>1, KeysKept
<1> QED
  BY <1>2, <1>3, <1>4, <1>5, <1>6, StepCases
     DEF TakesUp, Elsewhere, MovesOn, ProviderCharges, vars

(* "a duplicated request never double-charges": at most one sale takes a   *)
(* payment under an Idempotency-Key, for any number of overlapping and     *)
(* repeated requests, crashes and settlements.                             *)
THEOREM KeysAreUnique == Spec => []OneSalePerKey
BY TypedInit, TypedStep, KeyInit, KeyStep, PTL DEF Spec

-------------------------------------------------------------------------------
(* Nothing is delivered before it is paid.                                 *)
From(k, u, id) == SumOf(Written(ledger[k][u], id))

(* What a sale's rows, its payment and its status have to do with each     *)
(* other ...                                                               *)
SaleInv(id) ==
  /\ sales[id].status = "COMPLETED" <=> sales[id].payment = "COMPLETED"
  /\ sales[id].status = "NONE" => sales[id].payment = "NONE"
  /\ sales[id].payment # "NONE" => sales[id].paidMinor >= sales[id].totalMinor
  /\ sales[id].status # "COMPLETED" => \A k \in Customers, u \in Units : From(k, u, id) = 0

(* ... and with the requests in progress.  A prepared payment is written   *)
(* by the request that has created the sale and by no other.               *)
RequestInv(w) ==
  /\ req[w].pc = "create" /\ req[w].paying => req[w].tender >= req[w].totalMinor
  /\ req[w].pc = "pending" => /\ sales[req[w].id].status = "OPEN"
                              /\ sales[req[w].id].payment = "NONE"
                              /\ \A v \in Workers : req[v].pc = "pending"
                                   /\ req[v].id = req[w].id => v = w
  /\ req[w].pc \in {"readSale", "settle"} => AnyPayment(req[w].id)

PaidInv ==
  /\ Typed
  /\ \A id \in SaleIds : SaleInv(id)
  /\ \A w \in Workers : RequestInv(w)

LEMMA SumEmpty ==
  ASSUME NEW id
  PROVE  SumOf(Written(<< >>, id)) = 0
<1>1. << >> \in Seq(Entries) /\ Len(<< >>) = 0
  OBVIOUS
<1>2. Written(<< >>, id) \in Seq(Int) /\ Len(Written(<< >>, id)) = 0
  BY <1>1, WrittenType
<1> QED
  BY <1>2, SumZero

LEMMA PaidInit == Init => PaidInv
<1> SUFFICES ASSUME Init PROVE PaidInv
  OBVIOUS
<1>1. ASSUME NEW id \in SaleIds PROVE SaleInv(id)
  <2>1. sales[id].status = "NONE" /\ sales[id].payment = "NONE"
    BY DEF Init, NoSale
  <2>2. \A k \in Customers, u \in Units : ledger[k][u] = << >>
    BY DEF Init, EmptyBook
  <2>3. \A k \in Customers, u \in Units : From(k, u, id) = 0
    BY <2>2, SumEmpty DEF From
  <2> QED
    BY <2>1, <2>3 DEF SaleInv
<1>2. ASSUME NEW w \in Workers PROVE RequestInv(w)
  BY IdleType DEF Init, RequestInv
<1> QED
  BY <1>1, <1>2, TypedInit DEF PaidInv

(* A delivery writes rows of its own sale only.                            *)
LEMMA DeliverEffect ==
  ASSUME TypeOK, NEW k \in Customers \cup {Nobody}, NEW cart \in Seq(Lines), NEW total,
         NEW id \in SaleIds, Deliver(k, cart, total, id)
  PROVE  /\ \A l \in Customers, u \in Units, ref \in SaleIds :
              ref # id => From(l, u, ref)' = From(l, u, ref)
         /\ \A l \in Customers : ledger'[l] = IF l = k THEN WithPackages(ledger[l], cart, id)
                                                ELSE ledger[l]
<1>1. ledger \in [Customers -> Book] /\ id \in SaleIds /\ Nobody \notin Customers
  BY SetsAssumption DEF TypeOK, Book
<1>2. \A l \in Customers : ledger'[l] = IF l = k THEN WithPackages(ledger[l], cart, id)
                                          ELSE ledger[l]
  BY <1>1 DEF Deliver
<1>3. ASSUME NEW l \in Customers, NEW u \in Units, NEW ref \in SaleIds, ref # id
      PROVE  From(l, u, ref)' = From(l, u, ref)
  <2>1. SumOf(Written(WithPackages(ledger[l], cart, id)[u], ref)) =
          SumOf(Written(ledger[l][u], ref))
    <3>1. ledger[l] \in Book
      BY <1>1
    <3>2. \A v \in Units : \A s : s # id =>
            SumOf(Written(WithPackages(ledger[l], cart, id)[v], s)) =
              SumOf(Written(ledger[l][v], s))
      BY <1>1, <3>1, PackagesEffect, Zenon
    <3> QED
      BY <1>3, <3>2
  <2>2. From(l, u, ref)' = SumOf(Written(ledger'[l][u], ref))
    BY DEF From
  <2> QED
    BY <1>2, <2>1, <2>2 DEF From
<1> QED
  BY <1>2, <1>3

(* Requests of other workers look at sales that the step does not touch,   *)
(* or that it takes further.                                               *)
LEMMA RequestsKept ==
  ASSUME PaidInv, NEW w \in Workers, NEW r, Serves(w, r),
         r.pc = "create" /\ r.paying => r.tender >= r.totalMinor,
         r.pc # "pending", r.pc \in {"readSale", "settle"} => AnyPayment(r.id)',
         \A v \in Workers : v # w /\ req[v].pc = "pending" =>
           /\ sales'[req[v].id].status = sales[req[v].id].status
           /\ sales'[req[v].id].payment = sales[req[v].id].payment,
         \A id \in SaleIds : AnyPayment(id) => AnyPayment(id)'
  PROVE  \A v \in Workers : RequestInv(v)'
<1>1. \A v \in Workers : req'[v] = IF v = w THEN r ELSE req[v]
  BY DEF PaidInv, Typed, TypeOK, Serves
<1>2. RequestInv(w)'
  BY <1>1 DEF RequestInv
<1>3. ASSUME NEW v \in Workers, v # w PROVE RequestInv(v)'
  <2>1. req'[v] = req[v] /\ RequestInv(v)
    BY <1>1, <1>3 DEF PaidInv
  <2>2. req[v].pc \in {"readSale", "settle"} => AnyPayment(req[v].id)'
    BY <2>1 DEF RequestInv, PaidInv, Typed, HasSale, Sound, OnASale
  <2>3. \A x \in Workers : req'[x].pc = "pending" => req[x].pc = "pending" /\ req'[x] = req[x]
    BY <1>1
  <2> QED
    BY <1>3, <2>1, <2>2, <2>3 DEF RequestInv
<1> QED
  BY <1>2, <1>3

(* Sales and balances that do not change.                                  *)
LEMMA SalesKept ==
  ASSUME NEW id \in SaleIds, SaleInv(id), ledger' = ledger,
         sales'[id].status = sales[id].status, sales'[id].payment = sales[id].payment,
         sales'[id].paidMinor = sales[id].paidMinor,
         sales'[id].totalMinor = sales[id].totalMinor
  PROVE  SaleInv(id)'
BY DEF SaleInv, From

LEMMA PaidCommit ==
  ASSUME PaidInv, NEW w \in Workers, NEW id \in SaleIds, CommitSale(w, id)
  PROVE  PaidInv'
<1>1. Typed /\ Typed' /\ sales \in [SaleIds -> Sale] /\ req \in [Workers -> Request]
      /\ ledger \in [Customers -> Book] /\ [Next]_vars
  <2>1. Next
    BY DEF Next, Step
  <2> QED
    BY <2>1, TypedStep DEF PaidInv, Typed, TypeOK, Book
<1>2. \A s \in SaleIds : sales'[s] = IF s = id THEN NewSale(w) ELSE sales[s]
  BY <1>1, CommitWrites
<1>3. sales[id].status = "NONE" /\ sales[id].payment = "NONE" /\ req[w].pc = "create"
  BY DEF CommitSale, PaidInv, SaleInv
<1>4. /\ \A s \in SaleIds, k \in Customers, u \in Units :
           s # id => From(k, u, s)' = From(k, u, s)
      /\ ~ req[w].paying => ledger' = ledger
  <2>1. CASE req[w].paying
    <3>1. /\ req[w].customer \in Customers \cup {Nobody}
          /\ req[w].cart \in Carts \cup {<< >>}
      BY <1>1 DEF Request
    <3>2. req[w].cart \in Seq(Lines)
      BY <3>1, CartLines
    <3>3. Deliver(req[w].customer, req[w].cart, req[w].totalMinor, id)
      BY <2>1 DEF CommitSale, EffectsOfSale
    <3> QED
      BY <1>1, <2>1, <3>1, <3>2, <3>3, DeliverEffect DEF Typed
  <2>2. CASE ~ req[w].paying
    BY <2>2 DEF CommitSale, EffectsOfSale, From
  <2> QED
    BY <2>1, <2>2
<1>5. ASSUME NEW s \in SaleIds PROVE SaleInv(s)'
  <2>1. CASE s # id
    BY <1>2, <1>4, <2>1 DEF SaleInv, PaidInv
  <2>2. CASE s = id /\ req[w].paying
    <3>1. /\ sales'[s].status = "COMPLETED" /\ sales'[s].payment = "COMPLETED"
          /\ sales'[s].paidMinor = req[w].tender /\ sales'[s].totalMinor = req[w].totalMinor
      BY <1>1, <1>2, <2>2, CommitWrites
    <3>2. req[w].tender >= req[w].totalMinor
      BY <1>3, <2>2 DEF PaidInv, RequestInv
    <3> QED
      BY <3>1, <3>2 DEF SaleInv
  <2>3. CASE s = id /\ ~ req[w].paying
    <3>1. sales'[s].status = "OPEN" /\ sales'[s].payment = "NONE"
      BY <1>1, <1>2, <2>3, CommitWrites
    <3>2. \A k \in Customers, u \in Units : From(k, u, s)' = 0
      BY <1>3, <1>4, <2>3 DEF PaidInv, SaleInv, From
    <3> QED
      BY <3>1, <3>2 DEF SaleInv
  <2> QED
    BY <2>1, <2>2, <2>3
<1>6. PICK r : Serves(w, r) /\ r.pc = Committed(w) /\ (r.pc = "pending" => r.id = id)
  BY <1>1, CommitWrites
<1>7. \A v \in Workers : req'[v] = IF v = w THEN r ELSE req[v]
  BY <1>1, <1>6 DEF Serves
<1>8. ASSUME NEW v \in Workers, req[v].pc \in {"pending", "readSale", "settle"}
      PROVE  req[v].id \in SaleIds /\ req[v].id # id
  <2>1. req[v].id \in SaleIds
    BY <1>1, <1>8 DEF Typed, HasSale, Sound, OnASale
  <2> QED
    BY <1>3, <1>8, <2>1 DEF PaidInv, RequestInv, AnyPayment
<1>9. RequestInv(w)'
  <2>1. CASE req[w].prepare
    <3>1. r.pc = "pending" /\ r.id = id /\ ~ req[w].paying
      BY <1>1, <1>6, <2>1 DEF Committed, Typed, HasSale, Sound
    <3>2. sales'[id].status = "OPEN" /\ sales'[id].payment = "NONE"
      BY <1>1, <1>2, <3>1, CommitWrites
    <3> QED
      BY <1>7, <1>8, <3>1, <3>2 DEF RequestInv
  <2>2. CASE ~ req[w].prepare
    BY <1>6, <1>7, <2>2 DEF RequestInv, Committed
  <2> QED
    BY <2>1, <2>2
<1>10. ASSUME NEW v \in Workers, v # w PROVE RequestInv(v)'
  <2>1. req'[v] = req[v] /\ RequestInv(v)
    BY <1>7, <1>10 DEF PaidInv
  <2>2. req[v].pc \in {"pending", "readSale", "settle"} => sales'[req[v].id] = sales[req[v].id]
    BY <1>2, <1>8
  <2>3. \A x \in Workers : req'[x].pc = "pending" => x = w \/ (req[x].pc = "pending" /\ req'[x] = req[x])
    BY <1>7
  <2>4. req[v].pc = "pending" => r.pc # "pending" \/ r.id # req[v].id
    BY <1>6, <1>8
  <2> QED
    BY <1>7, <2>1, <2>2, <2>3, <2>4 DEF RequestInv, AnyPayment
<1> QED
  BY <1>1, <1>5, <1>9, <1>10 DEF PaidInv

LEMMA PaidPending ==
  ASSUME PaidInv, NEW w \in Workers, PendingPayment(w)
  PROVE  PaidInv'
<1> DEFINE id == req[w].id
<1>1. Typed /\ Typed' /\ id \in SaleIds /\ req[w].pc = "pending" /\ ledger' = ledger
  <2>1. Next
    BY DEF Next, Step
  <2> QED
    BY <2>1, TypedStep, PendingWrites DEF PaidInv
<1>2. /\ \A s \in SaleIds : s # id => sales'[s] = sales[s]
      /\ sales'[id].payment = "PENDING" /\ sales'[id].status = sales[id].status
      /\ sales'[id].paidMinor = sales[id].totalMinor
      /\ sales'[id].totalMinor = sales[id].totalMinor
  BY <1>1, PendingFields DEF SameGoods
<1>3. sales[id].status = "OPEN" /\ sales[id].payment = "NONE" /\ sales[id].totalMinor \in Nat
  BY <1>1 DEF PaidInv, RequestInv, Typed, TypeOK, Sale
<1>4. \A v \in Workers : req[v].pc = "pending" /\ req[v].id = id => v = w
  BY <1>1 DEF PaidInv, RequestInv
<1>5. Serves(w, Idle) /\ Idle.pc = "idle"
  BY <1>1, PendingWrites, IdleType
<1> HIDE DEF id
<1>6. ASSUME NEW s \in SaleIds PROVE SaleInv(s)'
  <2>1. CASE s # id
    BY <1>1, <1>2, <2>1, SalesKept DEF PaidInv
  <2>2. CASE s = id
    <3>1. \A k \in Customers, u \in Units : From(k, u, s)' = 0
      BY <1>1, <1>3, <2>2 DEF PaidInv, SaleInv, From
    <3> QED
      BY <1>2, <1>3, <2>2, <3>1 DEF SaleInv
  <2> QED
    BY <2>1, <2>2
<1>7. \A v \in Workers : RequestInv(v)'
  <2>1. \A s \in SaleIds : AnyPayment(s) => AnyPayment(s)'
    BY <1>2 DEF AnyPayment
  <2>2. ASSUME NEW v \in Workers, v # w, req[v].pc = "pending"
        PROVE  /\ sales'[req[v].id].status = sales[req[v].id].status
               /\ sales'[req[v].id].payment = sales[req[v].id].payment
    <3>1. req[v].id # id /\ req[v].id \in SaleIds
      BY <1>1, <1>4, <2>2 DEF Typed, HasSale, Sound, OnASale
    <3> QED
      BY <1>2, <3>1
  <2> QED
    BY <1>5, <2>1, <2>2, RequestsKept
<1> QED
  BY <1>1, <1>6, <1>7 DEF PaidInv

LEMMA PaidSettle ==
  ASSUME PaidInv, NEW w \in Workers, Settle(w)
  PROVE  PaidInv'
<1> DEFINE id == req[w].id
<1>1. Typed /\ Typed' /\ id \in SaleIds /\ req[w].pc = "settle" /\ sales \in [SaleIds -> Sale]
  <2>1. Next
    BY DEF Next, Step
  <2> QED
    BY <2>1, TypedStep, SettleWrites DEF PaidInv, Typed, TypeOK
<1>2. /\ \A s \in SaleIds : s # id => sales'[s] = sales[s]
      /\ sales'[id].payment = "COMPLETED" /\ sales'[id].status = "COMPLETED"
      /\ sales'[id].paidMinor = sales[id].paidMinor
      /\ sales'[id].totalMinor = sales[id].totalMinor
  BY <1>1, SettleFields DEF SameGoods
<1>3. sales[id].payment # "NONE" /\ sales[id].paidMinor >= sales[id].totalMinor
  BY <1>1 DEF PaidInv, RequestInv, SaleInv, AnyPayment
<1>4. Serves(w, Idle) /\ Idle.pc = "idle"
  BY <1>1, SettleWrites, IdleType
<1>5. \A s \in SaleIds, k \in Customers, u \in Units : s # id => From(k, u, s)' = From(k, u, s)
  <2>1. /\ sales[id].customer \in Customers \cup {Nobody}
        /\ sales[id].cart \in Carts \cup {<< >>}
    BY <1>1 DEF Sale
  <2>2. sales[id].cart \in Seq(Lines)
    BY <2>1, CartLines
  <2>3. Deliver(sales[id].customer, sales[id].cart, sales[id].totalMinor, id)
    BY Zenon DEF Settle
  <2> DEFINE k == sales[id].customer
             cart == sales[id].cart
             total == sales[id].totalMinor
  <2>4. k \in Customers \cup {Nobody} /\ cart \in Seq(Lines) /\ Deliver(k, cart, total, id)
    BY <2>1, <2>2, <2>3, Zenon
  <2> HIDE DEF id, k, cart, total
  <2>5. \A l \in Customers, u \in Units, ref \in SaleIds :
          ref # id => From(l, u, ref)' = From(l, u, ref)
    BY <1>1, <2>4, DeliverEffect DEF Typed
  <2> QED
    BY <2>5
<1>6. \A v \in Workers : req[v].pc = "pending" => req[v].id # id /\ req[v].id \in SaleIds
  BY <1>1, <1>3 DEF PaidInv, RequestInv, Typed, HasSale, Sound, OnASale
<1> HIDE DEF id
<1>7. ASSUME NEW s \in SaleIds PROVE SaleInv(s)'
  <2>1. CASE s # id
    BY <1>2, <1>5, <2>1 DEF SaleInv, PaidInv
  <2>2. CASE s = id
    BY <1>2, <1>3, <2>2 DEF SaleInv
  <2> QED
    BY <2>1, <2>2
<1>8. \A v \in Workers : RequestInv(v)'
  <2>1. \A s \in SaleIds : AnyPayment(s) => AnyPayment(s)'
    BY <1>2 DEF AnyPayment
  <2>2. \A v \in Workers : v # w /\ req[v].pc = "pending" =>
          /\ sales'[req[v].id].status = sales[req[v].id].status
          /\ sales'[req[v].id].payment = sales[req[v].id].payment
    BY <1>2, <1>6
  <2> QED
    BY <1>4, <2>1, <2>2, RequestsKept
<1> QED
  BY <1>1, <1>7, <1>8 DEF PaidInv

LEMMA PaidRefund ==
  ASSUME PaidInv, NEW w \in Workers, RecordRefund(w)
  PROVE  PaidInv'
<1>1. Typed /\ Typed' /\ ledger' = ledger /\ Serves(w, Idle) /\ Idle.pc = "idle"
  <2>1. Next
    BY DEF Next, Step
  <2> QED
    BY <2>1, TypedStep, RefundWrites, IdleType DEF PaidInv
<1>2. \A s \in SaleIds :
        /\ sales'[s].status = sales[s].status /\ sales'[s].payment = sales[s].payment
        /\ sales'[s].paidMinor = sales[s].paidMinor /\ sales'[s].totalMinor = sales[s].totalMinor
  BY <1>1, RefundFields DEF SameGoods
<1>3. \A s \in SaleIds : SaleInv(s)'
  BY <1>1, <1>2, SalesKept DEF PaidInv
<1>4. \A v \in Workers : RequestInv(v)'
  <2>1. \A s \in SaleIds : AnyPayment(s) => AnyPayment(s)'
    BY <1>2 DEF AnyPayment
  <2>2. \A v \in Workers : req[v].pc = "pending" => req[v].id \in SaleIds
    BY <1>1 DEF Typed, HasSale, Sound, OnASale
  <2> QED
    BY <1>1, <1>2, <2>1, <2>2, RequestsKept
<1> QED
  BY <1>1, <1>3, <1>4 DEF PaidInv

LEMMA PaidStep == PaidInv /\ [Next]_vars => PaidInv'
<1> SUFFICES ASSUME PaidInv, [Next]_vars PROVE PaidInv'
  OBVIOUS
<1>1. Typed /\ Typed'
  BY TypedStep DEF PaidInv
<1>2. ASSUME sales' = sales, ledger' = ledger PROVE \A s \in SaleIds : SaleInv(s)'
  BY <1>2, SalesKept DEF PaidInv
<1>3. ASSUME sales' = sales
      PROVE  \A s \in SaleIds : AnyPayment(s) => AnyPayment(s)'
  BY <1>3 DEF AnyPayment
<1>4. ASSUME NEW w \in Workers, NEW r, TakesUp(w, r) PROVE PaidInv'
  <2>1. sales' = sales /\ ledger' = ledger /\ Serves(w, r)
    BY <1>4 DEF TakesUp, Elsewhere
  <2>2. r.pc \in {"readSale", "settle"} => AnyPayment(r.id)'
    BY <1>4, <2>1 DEF TakesUp, AnyPayment
  <2>3. r.pc \notin {"create", "pending"}
    BY <1>4 DEF TakesUp
  <2>4. \A v \in Workers : RequestInv(v)'
    BY <1>3, <2>1, <2>2, <2>3, RequestsKept
  <2> QED
    BY <1>1, <1>2, <2>1, <2>4 DEF PaidInv
<1>5. ASSUME NEW w \in Workers, NEW r, MovesOn(w, r) PROVE PaidInv'
  <2>1. sales' = sales /\ ledger' = ledger /\ Serves(w, r)
    BY <1>5 DEF MovesOn
  <2>2. r.pc \in {"readSale", "settle"} => AnyPayment(r.id)'
    BY <1>5, <2>1 DEF MovesOn, AnyPayment, PaidInv, RequestInv
  <2>3. /\ r.pc # "pending"
        /\ r.pc = "create" /\ r.paying => r.tender >= r.totalMinor
    BY <1>5 DEF MovesOn, Priced
  <2>4. \A v \in Workers : RequestInv(v)'
    BY <1>3, <2>1, <2>2, <2>3, RequestsKept
  <2> QED
    BY <1>1, <1>2, <2>1, <2>4 DEF PaidInv
<1>6. ASSUME NEW id \in SaleIds, ProviderCharges(id) PROVE PaidInv'
  BY <1>1, <1>2, <1>6 DEF ProviderCharges, PaidInv, RequestInv, AnyPayment
<1>7. CASE UNCHANGED vars
  BY <1>1, <1>2, <1>7 DEF vars, PaidInv, RequestInv, AnyPayment
<1> QED
  BY <1>1, <1>4, <1>5, <1>6, <1>7, StepCases, PaidCommit, PaidPending, PaidSettle, PaidRefund

(* "Apply package effects only once the sale is paid": whatever overlaps,  *)
(* repeats or dies, a balance has rows of completed sales only, whose      *)
(* payment is complete and covers the total.                               *)
THEOREM NothingBeforePayment == Spec => []PaidBeforeDelivered
<1>1. PaidInv => PaidBeforeDelivered
  <2> SUFFICES ASSUME PaidInv, NEW id \in SaleIds, Credited(id) # Nothing
               PROVE  /\ sales[id].status = "COMPLETED"
                      /\ sales[id].payment = "COMPLETED"
                      /\ sales[id].paidMinor >= sales[id].totalMinor
    BY DEF PaidBeforeDelivered
  <2>1. SaleInv(id) /\ sales[id].customer \in Customers \cup {Nobody}
    BY DEF PaidInv, Typed, TypeOK, Sale
  <2>2. PICK u \in Units : CreditedIn(id, u) # 0
    BY DEF Credited, Nothing
  <2>3. sales[id].customer \in Customers /\ From(sales[id].customer, u, id) # 0
    BY <2>1, <2>2 DEF CreditedIn, From
  <2> QED
    BY <2>1, <2>3 DEF SaleInv
<1> QED
  BY <1>1, PaidInit, PaidStep, PTL DEF Spec

-------------------------------------------------------------------------------
(* The coupon: whoever is about to redeem it has found it below its limit. *)
CouponInv == Typed /\ CouponOverrun

LEMMA RedeemersAreFinite ==
  ASSUME IsFiniteSet(Workers), NEW R \in SUBSET Workers
  PROVE  IsFiniteSet(R) /\ Cardinality(R) \in Nat /\ Cardinality(R) <= Cardinality(Workers)
         /\ Cardinality(Workers) \in Nat
BY FS_Subset, FS_CardinalityType

LEMMA CouponInit == IsFiniteSet(Workers) /\ Init => CouponInv
<1> SUFFICES ASSUME IsFiniteSet(Workers), Init PROVE CouponInv
  OBVIOUS
<1>1. Redeeming = {} /\ redemptions = 0
  BY IdleType DEF Init, Redeeming
<1>2. Cardinality(Redeeming) = 0 /\ Cardinality(Workers) \in Nat /\ TotalLimit \in Nat
  BY <1>1, FS_EmptySet, FS_CardinalityType, AmountsAssumption
<1> QED
  BY <1>1, <1>2, TypedInit DEF CouponInv, CouponOverrun

LEMMA CouponStep ==
  ASSUME IsFiniteSet(Workers), CouponInv, [Next]_vars
  PROVE  CouponInv'
<1> USE DEF CouponInv
<1>1. Typed /\ Typed' /\ redemptions \in Nat /\ TotalLimit \in Nat
  BY TypedStep, AmountsAssumption DEF Typed, TypeOK
<1>2. /\ IsFiniteSet(Redeeming) /\ Cardinality(Redeeming) \in Nat
      /\ Cardinality(Redeeming') \in Nat /\ Cardinality(Workers) \in Nat
      /\ Cardinality(Redeeming') <= Cardinality(Workers)
  <2>1. Redeeming \in SUBSET Workers /\ Redeeming' \in SUBSET Workers
    BY DEF Redeeming
  <2> QED
    BY <2>1, RedeemersAreFinite
<1>3. ASSUME redemptions' = redemptions, Redeeming' \subseteq Redeeming PROVE CouponInv'
  <2>1. Cardinality(Redeeming') <= Cardinality(Redeeming)
    <3> DEFINE S == Redeeming
               T == Redeeming'
    <3>1. IsFiniteSet(S) /\ T \in SUBSET S
      BY <1>2, <1>3
    <3> HIDE DEF S, T
    <3>2. Cardinality(T) <= Cardinality(S)
      BY <3>1, FS_Subset
    <3> QED
      BY <3>2 DEF S, T
  <2> QED
    BY <1>1, <1>2, <1>3, <2>1 DEF CouponOverrun
<1>4. ASSUME redemptions' = redemptions, CouponUsable PROVE CouponInv'
  BY <1>1, <1>2, <1>4 DEF CouponOverrun, CouponUsable
<1>5. ASSUME NEW w \in Workers, NEW r, Serves(w, r), redemptions' = redemptions,
             r.pc = "create" /\ r.usable => CouponUsable
      PROVE  CouponInv'
  <2>1. req'[w] = r /\ \A v \in Workers \ {w} : req'[v] = req[v]
    BY <1>1, <1>5 DEF Serves, Typed, TypeOK
  <2>2. CASE r.pc = "create" /\ r.usable
    BY <1>4, <1>5, <2>2
  <2>3. CASE ~ (r.pc = "create" /\ r.usable)
    <3>1. Redeeming' \subseteq Redeeming
      BY <2>1, <2>3 DEF Redeeming
    <3> QED
      BY <1>3, <1>5, <3>1
  <2> QED
    BY <2>2, <2>3
<1>6. ASSUME NEW w \in Workers, NEW r, TakesUp(w, r) PROVE CouponInv'
  BY <1>5, <1>6 DEF TakesUp, Elsewhere
<1>7. ASSUME NEW w \in Workers, NEW r, MovesOn(w, r) PROVE CouponInv'
  BY <1>5, <1>7 DEF MovesOn, Priced
<1>8. ASSUME NEW w \in Workers, NEW id \in SaleIds, CommitSale(w, id) PROVE CouponInv'
  <2>1. PICK r : Serves(w, r) /\ r.pc = Committed(w)
    BY <1>1, <1>8, CommitWrites
  <2>2. req'[w] = r /\ r.pc # "create" /\ \A v \in Workers \ {w} : req'[v] = req[v]
    BY <1>1, <2>1 DEF Serves, Typed, TypeOK, Committed
  <2>3. Redeeming' = Redeeming \ {w}
    BY <2>2 DEF Redeeming
  <2>4. CASE ~ req[w].usable
    BY <1>3, <1>8, <2>3, <2>4 DEF CommitSale
  <2>5. CASE req[w].usable
    <3>1. w \in Redeeming /\ redemptions' = redemptions + 1
      BY <1>8, <2>5 DEF CommitSale, Redeeming
    <3>2. Cardinality(Redeeming') = Cardinality(Redeeming) - 1
      BY <1>2, <2>3, <3>1, FS_RemoveElement
    <3> QED
      BY <1>1, <1>2, <3>1, <3>2 DEF CouponOverrun
  <2> QED
    BY <2>4, <2>5
<1>9. ASSUME NEW w \in Workers, PendingPayment(w) \/ Settle(w) \/ RecordRefund(w)
      PROVE  CouponInv'
  <2>1. Serves(w, Idle) /\ redemptions' = redemptions
    BY <1>1, <1>9, PendingWrites, SettleWrites, RefundWrites
  <2> QED
    BY <1>5, <2>1, IdleType
<1>10. ASSUME NEW id \in SaleIds, ProviderCharges(id) PROVE CouponInv'
  BY <1>3, <1>10 DEF ProviderCharges, Redeeming
<1>11. CASE UNCHANGED vars
  BY <1>3, <1>11 DEF vars, Redeeming
<1> QED
  BY <1>1, <1>6, <1>7, <1>8, <1>9, <1>10, <1>11, StepCases

(* However many requests are served at a time, the coupon goes beyond its  *)
(* limit by less than their number: each of those that redeem it late had  *)
(* counted fewer redemptions than the limit before its transaction.        *)
THEOREM CouponOverrunBounded ==
  ASSUME IsFiniteSet(Workers)
  PROVE  Spec => []CouponOverrun
<1>1. CouponInv => CouponOverrun
  BY DEF CouponInv
<1>2. Init => CouponInv
  BY CouponInit
<1>3. CouponInv /\ [Next]_vars => CouponInv'
  BY CouponStep
<1> QED
  BY <1>1, <1>2, <1>3, PTL DEF Spec

-------------------------------------------------------------------------------
(* A delivery brings what the lines of the sale are worth.                 *)
LEMMA ValuesType ==
  ASSUME NEW cart \in Seq(Lines), NEW u \in Units
  PROVE  /\ Values(cart, u) \in Seq(Int) /\ Len(Values(cart, u)) = Len(cart)
         /\ \A i \in 1 .. Len(cart) :
              Values(cart, u)[i] = IF cart[i].kind = "PACKAGE" THEN cart[i].credits[u] ELSE 0
<1>1. Len(cart) \in Nat /\ \A i \in 1 .. Len(cart) : cart[i] \in Lines
  OBVIOUS
<1>2. ASSUME NEW i \in 1 .. Len(cart)
      PROVE  (IF cart[i].kind = "PACKAGE" THEN cart[i].credits[u] ELSE 0) \in Int
  <2>1. cart[i].credits[u] \in Nat
    BY <1>1 DEF Lines
  <2> QED
    BY <2>1
<1> QED
  BY <1>1, <1>2 DEF Values

LEMMA WorthType ==
  ASSUME NEW id, NEW u \in Units, sales'[id].cart \in Seq(Lines)
  PROVE  Worth(id)'[u] \in Int
<1> DEFINE cart == sales'[id].cart
<1>1. Worth(id)'[u] = SumOf(Values(cart, u))
  BY DEF Worth
<1>2. cart \in Seq(Lines)
  OBVIOUS
<1> HIDE DEF cart
<1>3. Values(cart, u) \in Seq(Int) /\ 0 \in Int
  BY <1>2, ValuesType
<1> QED
  BY <1>1, <1>3, SumAppend, Zenon

(* The packages of a sale add, in each unit, what its lines are worth.     *)
LEMMA PackagesWorth ==
  ASSUME NEW book \in Book, NEW cart \in Seq(Lines), NEW id \in SaleIds,
         NEW u \in Units
  PROVE  SumOf(Written(WithPackages(book, cart, id)[u], id)) =
           SumOf(Written(book[u], id)) + SumOf(Values(cart, u))
<1> DEFINE L == Len(cart)
           values == Values(cart, u)
           start == SumOf(Written(book[u], id))
<1>1. L \in Nat /\ \A n \in 1 .. L : cart[n].credits \in [Units -> Nat]
  <2>1. L \in Nat /\ \A n \in 1 .. L : cart[n] \in Lines
    OBVIOUS
  <2> QED
    BY <2>1 DEF Lines
<1>2. /\ values \in Seq(Int) /\ Len(values) = L
      /\ \A n \in 1 .. L : values[n] = IF cart[n].kind = "PACKAGE" THEN cart[n].credits[u] ELSE 0
  BY ValuesType
<1> HIDE DEF values
<1>3. PICK sum \in [0 .. Len(values) -> Int] :
             /\ sum[0] = 0
             /\ \A n \in 1 .. Len(values) : sum[n] = sum[n - 1] + values[n]
             /\ SumOf(values) = sum[Len(values)]
  BY <1>2, PartialSums, Zenon
<1>4. PICK after \in [0 .. Len(cart) -> Book] :
             /\ after[0] = book
             /\ \A n \in 1 .. Len(cart) : after[n] = Delivered(after[n - 1], cart[n], id)
             /\ WithPackages(book, cart, id) = after[Len(cart)]
  BY PackagesOneByOne, Zenon
<1>5. /\ after \in [0 .. L -> Book] /\ WithPackages(book, cart, id) = after[L]
      /\ \A n \in 1 .. L : after[n] = Delivered(after[n - 1], cart[n], id)
      /\ sum \in [0 .. L -> Int] /\ SumOf(values) = sum[L]
      /\ \A n \in 1 .. L : sum[n] = sum[n - 1] + values[n]
  BY <1>2, <1>3, <1>4
<1>6. start \in Int
  <2>1. book[u] \in Seq(Entries)
    BY DEF Book
  <2>2. Written(book[u], id) \in Seq(Int) /\ 0 \in Int
    BY <2>1, WrittenType
  <2> QED
    BY <2>2, SumAppend, Zenon
<1> HIDE DEF L, start
<1> DEFINE S == {n \in 0 .. L : SumOf(Written(after[n][u], id)) = start + sum[n]}
<1>7. 0 \in S
  BY <1>1, <1>3, <1>4, <1>6 DEF start
<1>8. ASSUME NEW n \in 1 .. L, n - 1 \in S PROVE n \in S
  <2> DEFINE b == after[n - 1]
             credits == cart[n].credits
  <2>1. b \in Book /\ n \in 0 .. L /\ sum[n - 1] \in Int /\ credits \in [Units -> Nat]
    BY <1>1, <1>5, SMTT(30)
  <2>2. SumOf(Written(b[u], id)) = start + sum[n - 1]
    BY <1>8
  <2>3. after[n] = Delivered(b, cart[n], id) /\ sum[n] = sum[n - 1] + values[n]
    BY <1>5
  <2>4. cart[n].kind = "PACKAGE" =>
          after[n] = Credit(b, credits, id) /\ values[n] = credits[u]
    BY <1>2, <2>3 DEF Delivered
  <2>5. cart[n].kind # "PACKAGE" => after[n] = b /\ values[n] = 0
    BY <1>2, <2>3 DEF Delivered
  <2> HIDE DEF b, credits, S
  <2>6. SumOf(Written(Credit(b, credits, id)[u], id)) =
          SumOf(Written(b[u], id)) + credits[u]
    BY <2>1, CreditEffect, Zenon
  <2>7. credits[u] \in Nat
    BY <2>1
  <2>8. SumOf(Written(after[n][u], id)) = start + sum[n]
    BY <1>6, <2>1, <2>2, <2>3, <2>4, <2>5, <2>6, <2>7
  <2> QED
    BY <2>1, <2>8 DEF S
<1>9. \A n \in 0 .. L : n \in S
  <2> HIDE DEF S
  <2> QED
    BY <1>1, <1>7, <1>8, UpTo, Zenon
<1> QED
  BY <1>1, <1>5, <1>9 DEF start, values

-------------------------------------------------------------------------------
(* The sales implement Purchases.  A sale that does not exist yet is       *)
(* blank; packages need a customer.                                        *)
BlankSale(id) == sales[id].customer = Nobody /\ sales[id].cart = << >>

PurchaseInv ==
  /\ PaidInv
  /\ \A id \in SaleIds : IF sales[id].status = "NONE" THEN BlankSale(id)
                         ELSE HasPackage(sales[id].cart) => sales[id].customer # Nobody
  /\ \A w \in Workers :
       req[w].pc = "create" => (HasPackage(req[w].cart) => req[w].customer # Nobody)

LEMMA PurchaseInit == Init => PurchaseInv
<1> SUFFICES ASSUME Init PROVE PurchaseInv
  OBVIOUS
<1>1. \A id \in SaleIds : sales[id].status = "NONE" /\ BlankSale(id)
  BY DEF Init, NoSale, BlankSale
<1>2. \A w \in Workers : req[w].pc = "idle"
  BY IdleType DEF Init
<1> QED
  BY <1>1, <1>2, PaidInit DEF PurchaseInv

LEMMA PurchaseStep ==
  ASSUME PurchaseInv, [Next]_vars
  PROVE  PurchaseInv'
<1>1. PaidInv /\ PaidInv' /\ Typed /\ req \in [Workers -> Request] /\ sales \in [SaleIds -> Sale]
  BY PaidStep DEF PurchaseInv, PaidInv, Typed, TypeOK
<1>2. ASSUME NEW w \in Workers, NEW r, Serves(w, r)
      PROVE  req'[w] = r /\ \A v \in Workers \ {w} : req'[v] = req[v]
  BY <1>1, <1>2 DEF Serves
<1>3. ASSUME NEW w \in Workers, NEW r, TakesUp(w, r) PROVE PurchaseInv'
  <2>1. /\ sales' = sales /\ req'[w] = r /\ r.pc # "create"
        /\ \A v \in Workers \ {w} : req'[v] = req[v]
    BY <1>2, <1>3 DEF TakesUp, Elsewhere
  <2> QED
    BY <1>1, <2>1 DEF PurchaseInv, BlankSale
<1>4. ASSUME NEW w \in Workers, NEW r, MovesOn(w, r) PROVE PurchaseInv'
  <2>1. sales' = sales /\ req'[w] = r /\ \A v \in Workers \ {w} : req'[v] = req[v]
    BY <1>2, <1>4 DEF MovesOn
  <2>2. r.pc = "create" => (HasPackage(r.cart) => r.customer # Nobody)
    BY <1>4 DEF MovesOn, Priced
  <2> QED
    BY <1>1, <2>1, <2>2 DEF PurchaseInv, BlankSale
<1>5. ASSUME NEW w \in Workers, NEW id \in SaleIds, CommitSale(w, id) PROVE PurchaseInv'
  <2>1. PICK r : Serves(w, r) /\ r.pc = Committed(w)
    BY <1>1, <1>5, CommitWrites
  <2>2. /\ req'[w] = r /\ r.pc \notin {"create", "settle"}
        /\ \A v \in Workers \ {w} : req'[v] = req[v]
    BY <1>2, <2>1 DEF Committed
  <2>3. \A s \in SaleIds : sales'[s] = IF s = id THEN NewSale(w) ELSE sales[s]
    BY <1>1, <1>5, CommitWrites
  <2>4. /\ NewSale(w).status # "NONE" /\ NewSale(w).cart = req[w].cart
        /\ NewSale(w).customer = req[w].customer
    BY <1>1, <1>5, CommitWrites
  <2>5. HasPackage(req[w].cart) => req[w].customer # Nobody
    BY <1>5 DEF CommitSale, PurchaseInv
  <2>6. sales[id].status = "NONE"
    BY <1>5 DEF CommitSale
  <2>7. (\A s \in SaleIds : IF sales[s].status = "NONE" THEN BlankSale(s)
                            ELSE HasPackage(sales[s].cart) => sales[s].customer # Nobody)'
    BY <2>3, <2>4, <2>5 DEF PurchaseInv, BlankSale
  <2>8. ASSUME NEW v \in Workers, req'[v].pc = "create"
        PROVE  HasPackage(req'[v].cart) => req'[v].customer # Nobody
    <3>1. v # w /\ req'[v] = req[v]
      BY <2>2, <2>8
    <3> QED
      BY <2>8, <3>1 DEF PurchaseInv
  <2>9. (\A v \in Workers :
           req[v].pc = "create" => (HasPackage(req[v].cart) => req[v].customer # Nobody))'
    BY <2>8
  <2> QED
    BY <1>1, <2>7, <2>9 DEF PurchaseInv
<1>6. ASSUME NEW w \in Workers, PendingPayment(w) \/ Settle(w) \/ RecordRefund(w)
      PROVE  PurchaseInv'
  <2>1. /\ req'[w] = Idle /\ Idle.pc = "idle" /\ req[w].id \in SaleIds
        /\ \A v \in Workers \ {w} : req'[v] = req[v]
    BY <1>1, <1>2, <1>6, PendingWrites, SettleWrites, RefundWrites, IdleType
  <2>2. sales[req[w].id].status # "NONE" \/ sales'[req[w].id].status = sales[req[w].id].status
    <3>1. CASE Settle(w)
      <4>1. req[w].pc = "settle" /\ req[w].id \in SaleIds
        BY <1>1, <3>1, SettleWrites
      <4> QED
        BY <1>1, <4>1 DEF PaidInv, RequestInv, SaleInv, AnyPayment
    <3>2. CASE PendingPayment(w) \/ RecordRefund(w)
      BY <1>1, <3>2, PendingFields, RefundFields
    <3> QED
      BY <1>6, <3>1, <3>2
  <2>3. \A s \in SaleIds :
          /\ sales'[s].cart = sales[s].cart /\ sales'[s].customer = sales[s].customer
          /\ s # req[w].id => sales'[s].status = sales[s].status
    BY <1>1, <1>6, PendingFields, SettleFields, RefundFields DEF SameGoods
  <2>4. sales'[req[w].id].status \in {sales[req[w].id].status, "COMPLETED"}
    BY <1>1, <1>6, PendingFields, SettleFields, RefundFields
  <2> QED
    BY <1>1, <2>1, <2>2, <2>3, <2>4 DEF PurchaseInv, BlankSale
<1>7. ASSUME NEW id \in SaleIds, ProviderCharges(id) PROVE PurchaseInv'
  BY <1>1, <1>7 DEF ProviderCharges, PurchaseInv, BlankSale
<1>8. CASE UNCHANGED vars
  BY <1>1, <1>8 DEF vars, PurchaseInv, BlankSale
<1> QED
  BY <1>3, <1>4, <1>5, <1>6, <1>7, <1>8, <1>1, StepCases

(* What Purchases sees of a sale, and the steps that it does not see.      *)
SameToPurchases(s) ==
  /\ sales'[s].status = sales[s].status
  /\ Worth(s)' = Worth(s)
  /\ Credited(s)' = Credited(s)

SameClaims(s) == Claims(s)' = Claims(s)

(* Claims come and go with the requests.                                   *)
LEMMA ClaimsOf ==
  ASSUME Typed, NEW w \in Workers, NEW r, Serves(w, r), NEW s
  PROVE  /\ r.pc = "settle" /\ r.id = s => Claims(s)' = Claims(s) \cup {w}
         /\ ~ (r.pc = "settle" /\ r.id = s) => Claims(s)' = Claims(s) \ {w}
<1>1. req'[w] = r /\ \A v \in Workers \ {w} : req'[v] = req[v]
  BY DEF Serves, Typed, TypeOK
<1> QED
  BY <1>1 DEF Claims

LEMMA NoClaimMoves ==
  ASSUME Typed, NEW w \in Workers, NEW r, Serves(w, r), r.pc # "settle",
         req[w].pc # "settle", NEW s
  PROVE  SameClaims(s)
<1>1. Claims(s)' = Claims(s) \ {w} /\ w \notin Claims(s)
  BY ClaimsOf DEF Claims
<1> QED
  BY <1>1 DEF SameClaims

LEMMA Unseen ==
  ASSUME NEW s \in SaleIds, Typed,
         sales'[s].status = sales[s].status, sales'[s].cart = sales[s].cart,
         sales'[s].customer = sales[s].customer,
         \A k \in Customers, u \in Units : From(k, u, s)' = From(k, u, s)
  PROVE  SameToPurchases(s)
<1>1. sales[s].customer \in Customers \cup {Nobody}
  BY DEF Typed, TypeOK, Sale
<1>2. Worth(s)' = Worth(s)
  BY DEF Worth
<1>3. ASSUME NEW u \in Units PROVE CreditedIn(s, u)' = CreditedIn(s, u)
  BY <1>1 DEF CreditedIn, From
<1>4. Credited(s)' = Credited(s)
  BY <1>3 DEF Credited
<1> QED
  BY <1>2, <1>4 DEF SameToPurchases

(* An unpaid sale has delivered nothing.                                   *)
LEMMA UnpaidDelivers ==
  ASSUME NEW s \in SaleIds, SaleInv(s), sales[s].status # "COMPLETED", Typed
  PROVE  Credited(s) = Nothing
<1>1. sales[s].customer \in Customers \cup {Nobody}
  BY DEF Typed, TypeOK, Sale
<1>2. \A u \in Units : CreditedIn(s, u) = 0
  BY <1>1 DEF SaleInv, CreditedIn, From
<1> QED
  BY <1>2 DEF Credited, Nothing

(* A delivery brings the customer what the sale is worth.                  *)
LEMMA FullDelivery ==
  ASSUME PaidInv, NEW id \in SaleIds,
         NEW k \in Customers \cup {Nobody}, NEW cart \in Carts \cup {<< >>}, NEW total,
         HasPackage(cart) => k # Nobody, Deliver(k, cart, total, id),
         sales'[id].customer = k, sales'[id].cart = cart, NEW u \in Units
  PROVE  CreditedIn(id, u)' =
           (IF k = Nobody THEN 0 ELSE From(k, u, id)) + Worth(id)'[u]
<1>1. cart \in Seq(Lines)
  BY CartLines
<1>2. ledger \in [Customers -> Book] /\ id \in SaleIds /\ TypeOK
  BY DEF PaidInv, Typed, TypeOK, Book
<1>3. Worth(id)'[u] = SumOf(Values(cart, u))
  BY DEF Worth
<1>4. Values(cart, u) \in Seq(Int) /\ SumOf(Values(cart, u)) \in Int
  <2>1. Values(cart, u) \in Seq(Int) /\ 0 \in Int
    BY <1>1, ValuesType
  <2> QED
    BY <2>1, SumAppend, Zenon
<1>5. CASE k = Nobody
  <2>1. \A i \in 1 .. Len(cart) : cart[i].kind # "PACKAGE"
    BY <1>5 DEF HasPackage
  <2>2. Len(Values(cart, u)) = Len(cart) /\ \A i \in 1 .. Len(cart) : Values(cart, u)[i] = 0
    BY <1>1, <2>1, ValuesType
  <2>3. SumOf(Values(cart, u)) = 0
    BY <1>4, <2>2, SumZero
  <2> QED
    BY <1>3, <1>5, <2>3 DEF CreditedIn
<1>6. CASE k \in Customers
  <2>1. ledger'[k] = WithPackages(ledger[k], cart, id)
    BY <1>1, <1>2, <1>6, DeliverEffect
  <2>2. k # Nobody
    BY <1>6, SetsAssumption
  <2>3. SumOf(Written(WithPackages(ledger[k], cart, id)[u], id)) =
          SumOf(Written(ledger[k][u], id)) + SumOf(Values(cart, u))
    BY <1>1, <1>2, <1>6, PackagesWorth
  <2>4. CreditedIn(id, u)' = SumOf(Written(ledger'[k][u], id))
    BY <2>2 DEF CreditedIn
  <2>5. SumOf(Written(ledger'[k][u], id)) = From(k, u, id) + SumOf(Values(cart, u))
    BY <2>1, <2>3 DEF From
  <2> QED
    BY <1>3, <2>2, <2>4, <2>5
<1> QED
  BY <1>5, <1>6

(* The step of Purchases that a step of Sales is.                          *)
LEMMA OthersAreKept ==
  ASSUME NEW id, \A s \in SaleIds : s # id => SameToPurchases(s) /\ SameClaims(s)
  PROVE  P!OthersKept(id)
<1> SUFFICES ASSUME NEW s \in SaleIds \ {id}
             PROVE  /\ Stage[sales[s].status]' = Stage[sales[s].status]
                    /\ Worth(s)' = Worth(s)
                    /\ Credited(s)' = Credited(s)
                    /\ Claims(s)' = Claims(s)
  BY DEF P!OthersKept
<1> QED
  BY DEF SameToPurchases, SameClaims

LEMMA NotSeenAtAll ==
  ASSUME \A s \in SaleIds : SameToPurchases(s) /\ SameClaims(s)
  PROVE  UNCHANGED P!vars
<1>1. \A s \in SaleIds : /\ Stage[sales[s].status]' = Stage[sales[s].status]
                         /\ Worth(s)' = Worth(s)
                         /\ Credited(s)' = Credited(s)
                         /\ Claims(s)' = Claims(s)
  BY DEF SameToPurchases, SameClaims
<1> QED
  BY <1>1 DEF P!vars

LEMMA PurchasesInit == Init => P!Init
<1> SUFFICES ASSUME Init PROVE P!Init
  OBVIOUS
<1>1. PaidInv
  BY PaidInit
<1>2. \A s \in SaleIds : sales[s].status = "NONE" /\ sales[s].cart = << >>
  BY DEF Init, NoSale
<1>3. ASSUME NEW s \in SaleIds PROVE Credited(s) = P!Nothing
  BY <1>1, <1>2, UnpaidDelivers DEF PaidInv, P!Nothing, Nothing
<1>4. ASSUME NEW s \in SaleIds PROVE Worth(s) = P!Nothing
  <2>1. ASSUME NEW u \in Units PROVE SumOf(Values(<< >>, u)) = 0
    <3>1. << >> \in Seq(Lines) /\ Len(<< >>) = 0
      OBVIOUS
    <3>2. Values(<< >>, u) \in Seq(Int) /\ Len(Values(<< >>, u)) = 0
      BY <3>1, ValuesType
    <3> QED
      BY <3>2, SumZero
  <2> QED
    BY <1>2, <2>1 DEF Worth, P!Nothing
<1>5. ASSUME NEW s \in SaleIds PROVE Claims(s) = {}
  BY IdleType DEF Init, Claims
<1> QED
  BY <1>2, <1>3, <1>4, <1>5 DEF P!Init, Stage

LEMMA PurchasesStep ==
  ASSUME PurchaseInv, [Next]_vars
  PROVE  [P!Next]_P!vars
<1>1. /\ PaidInv /\ PaidInv' /\ Typed /\ Typed' /\ sales \in [SaleIds -> Sale]
      /\ ledger \in [Customers -> Book] /\ req \in [Workers -> Request]
  BY PaidStep DEF PurchaseInv, PaidInv, Typed, TypeOK, Book
<1>2. ASSUME sales' = sales, ledger' = ledger PROVE \A s \in SaleIds : SameToPurchases(s)
  BY <1>1, <1>2, Unseen DEF From
<1>3. ASSUME NEW w \in Workers, NEW r, TakesUp(w, r) PROVE UNCHANGED P!vars
  <2>1. sales' = sales /\ ledger' = ledger /\ Serves(w, r) /\ req[w].pc = "idle" /\ r.pc # "settle"
    BY <1>3 DEF TakesUp, Elsewhere
  <2>2. \A s \in SaleIds : SameClaims(s)
    BY <1>1, <2>1, NoClaimMoves
  <2> QED
    BY <1>2, <2>1, <2>2, NotSeenAtAll
<1>4. ASSUME NEW w \in Workers, NEW r, MovesOn(w, r) PROVE [P!Next]_P!vars
  <2>1. sales' = sales /\ ledger' = ledger /\ Serves(w, r)
    BY <1>4 DEF MovesOn
  <2>2. \A s \in SaleIds : SameToPurchases(s)
    BY <1>2, <2>1
  <2>3. \A s \in SaleIds : P!GoodsKept(s)
    BY <2>2 DEF SameToPurchases, P!GoodsKept
  <2>4. CASE r.pc = "settle"
    <3>1. PICK id \in SaleIds : id = r.id /\ id = req[w].id
      BY <1>1, <1>4, <2>4 DEF MovesOn, Typed, HasSale, Sound, OnASale
    <3>2. AnyPayment(id) /\ ~ AlreadyCompleted(id)
      BY <1>1, <1>4, <2>4, <3>1 DEF MovesOn, PaidInv, RequestInv
    <3>3. sales[id].status = "OPEN"
      BY <1>1, <3>1, <3>2 DEF PaidInv, SaleInv, AnyPayment, AlreadyCompleted, Sale
    <3>4. Claims(id)' = Claims(id) \cup {w}
      BY <1>1, <2>1, <2>4, <3>1, ClaimsOf
    <3>5. \A s \in SaleIds : s # id => SameClaims(s)
      <4>1. \A s \in SaleIds : s # id => Claims(s)' = Claims(s) \ {w}
        BY <1>1, <2>1, <3>1, ClaimsOf
      <4>2. \A s \in SaleIds : w \notin Claims(s)
        BY <1>4, <2>4 DEF MovesOn, Claims
      <4> QED
        BY <4>1, <4>2 DEF SameClaims
    <3>6. P!OthersKept(id)
      BY <2>2, <3>5, OthersAreKept
    <3>7. P!Claim(id, w)
      BY <2>3, <3>3, <3>4, <3>6 DEF P!Claim, Stage
    <3> QED
      BY <3>7 DEF P!Next
  <2>5. CASE r.pc # "settle" /\ req[w].pc = "settle"
    <3>1. PICK id \in SaleIds : id = req[w].id
      BY <1>1, <2>5 DEF Typed, HasSale, Sound, OnASale
    <3>2. \A s \in SaleIds : Claims(s)' = Claims(s) \ {w}
      BY <1>1, <2>1, <2>5, ClaimsOf
    <3>3. w \in Claims(id) /\ \A s \in SaleIds : s # id => w \notin Claims(s)
      BY <2>5, <3>1 DEF Claims
    <3>4. P!OthersKept(id)
      BY <2>2, <3>2, <3>3, OthersAreKept DEF SameClaims
    <3>5. P!GiveUp(id, w)
      BY <2>3, <3>2, <3>3, <3>4 DEF P!GiveUp
    <3> QED
      BY <3>5 DEF P!Next
  <2>6. CASE r.pc # "settle" /\ req[w].pc # "settle"
    <3>1. \A s \in SaleIds : SameClaims(s)
      BY <1>1, <2>1, <2>6, NoClaimMoves
    <3> QED
      BY <2>2, <3>1, NotSeenAtAll
  <2> QED
    BY <2>4, <2>5, <2>6
<1>5. ASSUME NEW w \in Workers, NEW id \in SaleIds, CommitSale(w, id) PROVE P!Next
  <2>0. PICK k \in Customers \cup {Nobody}, cart \in Carts \cup {<< >>}, total \in Nat :
             k = req[w].customer /\ cart = req[w].cart /\ total = req[w].totalMinor
    BY <1>1 DEF Request
  <2>1. HasPackage(cart) => k # Nobody
    BY <1>5, <2>0 DEF CommitSale, PurchaseInv
  <2>2. \A s \in SaleIds : sales'[s] = IF s = id THEN NewSale(w) ELSE sales[s]
    BY <1>1, <1>5, CommitWrites
  <2>3. /\ NewSale(w).customer = k /\ NewSale(w).cart = cart
        /\ NewSale(w).status = IF req[w].paying THEN "COMPLETED" ELSE "OPEN"
    BY <1>1, <1>5, <2>0, CommitWrites
  <2>4. sales[id].status = "NONE" /\ req[w].pc = "create"
    BY <1>5 DEF CommitSale
  <2>c. \A s \in SaleIds : SameClaims(s)
    <3>1. PICK r : Serves(w, r) /\ r.pc = Committed(w)
      BY <1>1, <1>5, CommitWrites
    <3>2. r.pc # "settle"
      BY <3>1 DEF Committed
    <3> QED
      BY <1>1, <2>4, <3>1, <3>2, NoClaimMoves
  <2>5. CASE req[w].paying
    <3>1. Deliver(k, cart, total, id)
      BY <1>5, <2>0, <2>5 DEF CommitSale, EffectsOfSale
    <3>2. cart \in Seq(Lines)
      BY CartLines
    <3>3. \A s \in SaleIds : s # id => SameToPurchases(s)
      BY <1>1, <2>1, <2>2, <3>1, <3>2, DeliverEffect, Unseen, ZenonT(60) DEF Typed
    <3>4. Credited(id)' = Worth(id)'
      <4>1. \A u \in Units : CreditedIn(id, u)' =
                (IF k = Nobody THEN 0 ELSE From(k, u, id)) + Worth(id)'[u]
        BY <1>1, <2>1, <2>2, <2>3, <3>1, FullDelivery
      <4>2. \A u \in Units : (IF k = Nobody THEN 0 ELSE From(k, u, id)) = 0
        BY <1>1, <2>4 DEF PaidInv, SaleInv
      <4>3. \A u \in Units : Worth(id)'[u] \in Int
        BY <2>2, <2>3, <3>2, WorthType
      <4>4. Worth(id)' = [u \in Units |-> Worth(id)'[u]]
        BY DEF Worth
      <4>5. \A u \in Units : CreditedIn(id, u)' = Worth(id)'[u]
        BY <4>1, <4>2, <4>3
      <4> QED
        BY <4>4, <4>5 DEF Credited
    <3>5. P!OthersKept(id)
      BY <2>c, <3>3, OthersAreKept
    <3>6. P!Sell(id)
      BY <2>2, <2>3, <2>4, <2>5, <2>c, <3>4, <3>5 DEF P!Sell, Stage, SameClaims
    <3> QED
      BY <3>6 DEF P!Next
  <2>6. CASE ~ req[w].paying
    <3>1. ledger' = ledger
      BY <1>5, <2>6 DEF CommitSale, EffectsOfSale
    <3>2. \A s \in SaleIds : s # id => SameToPurchases(s)
      BY <1>1, <2>2, <3>1, Unseen DEF From
    <3>3. Credited(id) = Nothing
      BY <1>1, <2>4, UnpaidDelivers DEF PaidInv
    <3>4. sales'[id].status = "OPEN"
      BY <2>2, <2>3, <2>6
    <3>5. Credited(id)' = Nothing
      <4>1. sales'[id].customer \in Customers \cup {Nobody}
        BY <2>2, <2>3
      <4>2. \A l \in Customers, u \in Units : From(l, u, id)' = 0
        BY <1>1, <3>4 DEF PaidInv, SaleInv
      <4>3. \A u \in Units : CreditedIn(id, u)' = 0
        BY <4>1, <4>2 DEF CreditedIn, From
      <4> QED
        BY <4>3 DEF Credited, Nothing
    <3>6. P!OthersKept(id)
      BY <2>c, <3>2, OthersAreKept
    <3>7. P!Order(id)
      BY <2>4, <2>c, <3>3, <3>4, <3>5, <3>6 DEF P!Order, Stage, SameClaims
    <3> QED
      BY <3>7 DEF P!Next
  <2> QED
    BY <2>5, <2>6
<1>6. ASSUME NEW w \in Workers, Settle(w) PROVE P!Next
  <2>1. PICK id \in SaleIds : id = req[w].id
    BY <1>1, <1>6, SettleWrites
  <2>2. sales[id] \in Sale /\ sales[id].status # "NONE"
    BY <1>1, <1>6, <2>1, SettleWrites DEF PaidInv, RequestInv, SaleInv, AnyPayment
  <2>3. PICK k \in Customers \cup {Nobody}, cart \in Carts \cup {<< >>} :
             k = sales[id].customer /\ cart = sales[id].cart
    BY <2>2 DEF Sale
  <2>4. HasPackage(cart) => k # Nobody
    BY <2>2, <2>3 DEF PurchaseInv
  <2>5. /\ \A s \in SaleIds : s # id => sales'[s] = sales[s]
        /\ sales'[id].status = "COMPLETED" /\ sales'[id].customer = k /\ sales'[id].cart = cart
    BY <1>1, <1>6, <2>1, <2>3, SettleFields DEF SameGoods
  <2>6. PICK total \in Nat : Deliver(k, cart, total, id)
    BY <1>6, <2>1, <2>2, <2>3 DEF Settle, Sale
  <2>7. Worth(id)' = Worth(id)
    BY <2>3, <2>5 DEF Worth
  <2>8. \A s \in SaleIds : s # id => SameToPurchases(s)
    <3>1. cart \in Seq(Lines)
      BY CartLines
    <3>2. \A s \in SaleIds, l \in Customers, u \in Units :
            s # id => From(l, u, s)' = From(l, u, s)
      BY <1>1, <2>6, <3>1, DeliverEffect DEF Typed
    <3> QED
      BY <1>1, <2>5, <3>2, Unseen
  <2>9. Credited(id)' = P!Plus(Credited(id), Worth(id))
    <3>1. \A u \in Units : CreditedIn(id, u)' =
              (IF k = Nobody THEN 0 ELSE From(k, u, id)) + Worth(id)'[u]
      BY <1>1, <2>4, <2>5, <2>6, FullDelivery
    <3>2. \A u \in Units : CreditedIn(id, u) = IF k = Nobody THEN 0 ELSE From(k, u, id)
      BY <2>3 DEF CreditedIn, From
    <3>3. \A u \in Units : CreditedIn(id, u)' = Credited(id)[u] + Worth(id)[u]
      BY <2>7, <3>1, <3>2 DEF Credited
    <3> QED
      BY <3>3 DEF Credited, P!Plus
  <2>10. w \in Claims(id) /\ \A s \in SaleIds : s # id => w \notin Claims(s)
    BY <1>1, <1>6, <2>1, SettleWrites DEF Claims
  <2>11. \A s \in SaleIds : Claims(s)' = Claims(s) \ {w}
    BY <1>1, <1>6, SettleWrites, IdleType, ClaimsOf
  <2>12. P!OthersKept(id)
    BY <2>8, <2>10, <2>11, OthersAreKept DEF SameClaims
  <2>13. P!Settle(id, w)
    BY <2>5, <2>7, <2>9, <2>10, <2>11, <2>12 DEF P!Settle, Stage
  <2> QED
    BY <2>13 DEF P!Next
<1>7. ASSUME NEW w \in Workers, PendingPayment(w) \/ RecordRefund(w) PROVE UNCHANGED P!vars
  <2>1. ledger' = ledger /\ Serves(w, Idle) /\ req[w].pc # "settle"
    BY <1>1, <1>7, PendingWrites, RefundWrites
  <2>2. \A s \in SaleIds : /\ sales'[s].status = sales[s].status
                           /\ sales'[s].cart = sales[s].cart
                           /\ sales'[s].customer = sales[s].customer
    BY <1>1, <1>7, PendingFields, RefundFields DEF SameGoods
  <2>3. \A s \in SaleIds : SameToPurchases(s)
    BY <1>1, <2>1, <2>2, Unseen DEF From
  <2>4. \A s \in SaleIds : SameClaims(s)
    BY <1>1, <2>1, IdleType, NoClaimMoves
  <2> QED
    BY <2>3, <2>4, NotSeenAtAll
<1>8. ASSUME UNCHANGED <<sales, ledger, req>> PROVE UNCHANGED P!vars
  <2>1. \A s \in SaleIds : SameClaims(s)
    BY <1>8 DEF SameClaims, Claims
  <2> QED
    BY <1>2, <1>8, <2>1, NotSeenAtAll
<1> QED
  BY <1>1, <1>3, <1>4, <1>5, <1>6, <1>7, <1>8, StepCases DEF ProviderCharges, vars

(* However requests overlap, repeat and die, the sales implement           *)
(* Purchases: a sale paid at once is delivered once and in full; an        *)
(* ordered one is delivered in full by each settlement that found it       *)
(* unpaid, and nothing is delivered in any other way.                      *)
THEOREM SalesImplementPurchases == Spec => ImplementsPurchases
<1>1. PurchaseInv /\ [Next]_vars => PurchaseInv' /\ [P!Next]_P!vars
  BY PurchaseStep, PurchasesStep
<1> QED
  BY <1>1, PurchaseInit, PurchasesInit, PTL DEF Spec, ImplementsPurchases, P!Spec
===============================================================================
