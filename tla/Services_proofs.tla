--------------------------- MODULE Services_proofs ----------------------------
(***************************************************************************)
(* Proofs about the parts of the server that share no state: for each an   *)
(* invariant that the actions keep and that says what its property says,   *)
(* and more: what is under way, what it has read, and how that compares    *)
(* with what is stored by now.  A property that needs operations to stay   *)
(* apart is not proved but checked, as the configuration has them; only    *)
(* the order of the waiting list is proved from joins that do not overlap. *)
(* Numbers of processes, rows and customers are arbitrary, and so is the   *)
(* length of a behaviour.                                                  *)
(***************************************************************************)
EXTENDS Tokens, CashDrawer, Numbers, Profiles, Bootstrap, Consents, Meter, Reports,
        Pricing_proofs

-------------------------------------------------------------------------------
(* Numbers.  A number that was drawn and not stored yet is the next, and   *)
(* whoever has it holds the settings row, or is alone on the list.         *)

Steps == {"away", "invoice", "customer", "import", "ticket", "join"}
Written == [step : Steps, number : Nat]

NumberRows ==
  /\ invoiceNumberSeq \in Nat /\ customerNumberSeq \in Nat
  /\ invoices \in Seq(Nat) /\ customers \in Seq(Nat) /\ tickets \in Seq(Nat) /\ queue \in Seq(Nat)
  /\ writer \in [Writers -> Written]

(* One transaction holds the settings row, with the number that is next.   *)
InvoiceInv ==
  /\ InvoicesConsecutive
  /\ \A w \in Writers : writer[w].step = "invoice" =>
       /\ writer[w].number = invoiceNumberSeq + 1
       /\ \A v \in Writers : writer[v].step = "invoice" => v = w

(* Who has read the tickets will insert the next number or one that is     *)
(* taken.                                                                  *)
TicketInv ==
  /\ TicketsConsecutive
  /\ \A w \in Writers : writer[w].step = "ticket" => writer[w].number \in 1 .. Len(tickets) + 1

(* A number that was drawn is nobody else's.                               *)
Drawn(w) == writer[w].step \in {"customer", "import"}
CustomerInv ==
  /\ CustomerNumbersDistinct
  /\ \A i \in 1 .. Len(customers) : customers[i] <= customerNumberSeq
  /\ \A w \in Writers : Drawn(w) =>
       /\ writer[w].number <= customerNumberSeq
       /\ \A i \in 1 .. Len(customers) : customers[i] # writer[w].number
       /\ \A v \in Writers : Drawn(v) /\ writer[v].number = writer[w].number => v = w

(* The one who joins will stand behind all who wait.                       *)
QueueInv ==
  /\ NobodyOvertaken
  /\ \A w \in Writers : writer[w].step = "join" =>
       /\ \A i \in 1 .. Len(queue) : queue[i] < writer[w].number
       /\ \A v \in Writers : writer[v].step = "join" => v = w

NumbersInv == NumberRows /\ InvoiceInv /\ TicketInv /\ CustomerInv /\ QueueInv

(* The highest of some numbers is one of them or 0, and none is higher.    *)
LEMMA HighestOf ==
  ASSUME NEW numbers \in Seq(Nat), NEW m \in Nat,
         m = 0 \/ \E i \in 1 .. Len(numbers) : numbers[i] = m,
         \A i \in 1 .. Len(numbers) : numbers[i] <= m
  PROVE  Highest(numbers) = m
<1> DEFINE S == {0} \cup {numbers[i] : i \in 1 .. Len(numbers)}
<1>1. \A x \in S : x \in Nat /\ m >= x
  <2>1. \A i \in 1 .. Len(numbers) : numbers[i] \in Nat
    OBVIOUS
  <2> QED
    BY <2>1
<1>2. m \in S
  OBVIOUS
<1>3. Highest(numbers) = CHOOSE x \in S : \A y \in S : x >= y
  BY DEF Highest, Max
<1> HIDE DEF S
<1>4. \A x \in S : (\A y \in S : x >= y) => x = m
  BY <1>1, <1>2
<1> QED
  BY <1>1, <1>2, <1>3, <1>4

(* Numbers in ascending order have the last as their highest.              *)
LEMMA HighestIsLast ==
  ASSUME NEW numbers \in Seq(Nat),
         \A i, j \in 1 .. Len(numbers) : i < j => numbers[i] < numbers[j]
  PROVE  /\ Highest(numbers) \in Nat
         /\ \A i \in 1 .. Len(numbers) : numbers[i] <= Highest(numbers)
<1>1. Len(numbers) \in Nat /\ \A i \in 1 .. Len(numbers) : numbers[i] \in Nat
  OBVIOUS
<1>2. CASE Len(numbers) = 0
  <2> DEFINE m == 0
  <2>1. m \in Nat /\ m = 0 /\ \A i \in 1 .. Len(numbers) : numbers[i] <= m
    BY <1>2
  <2> HIDE DEF m
  <2>2. Highest(numbers) = m
    BY <2>1, HighestOf
  <2> QED
    BY <2>1, <2>2
<1>3. CASE Len(numbers) # 0
  <2> DEFINE m == numbers[Len(numbers)]
  <2>1. m \in Nat /\ (\E i \in 1 .. Len(numbers) : numbers[i] = m)
    BY <1>1, <1>3
  <2>2. \A i \in 1 .. Len(numbers) : numbers[i] <= m
    BY <1>1, <1>3
  <2>3. Highest(numbers) = m
    <3> HIDE DEF m
    <3> QED
      BY <2>1, <2>2, HighestOf
  <2> QED
    BY <2>1, <2>2, <2>3
<1> QED
  BY <1>2, <1>3

(* The highest of the numbers 1, 2, ... is how many there are.             *)
LEMMA HighestOfConsecutive ==
  ASSUME NEW numbers \in Seq(Nat), Consecutive(numbers)
  PROVE  Highest(numbers) = Len(numbers)
<1>1. \A i \in 1 .. Len(numbers) : numbers[i] = i
  BY DEF Consecutive
<1>2. Len(numbers) \in Nat
  OBVIOUS
<1> DEFINE m == Len(numbers)
<1>3. m = 0 \/ \E i \in 1 .. Len(numbers) : numbers[i] = m
  BY <1>1, <1>2
<1>4. \A i \in 1 .. Len(numbers) : numbers[i] <= m
  BY <1>1, <1>2
<1> HIDE DEF m
<1>5. m \in Nat
  BY <1>2 DEF m
<1>6. Highest(numbers) = m
  BY <1>3, <1>4, <1>5, HighestOf
<1> QED
  BY <1>6 DEF m

(* What a step does to the requests: one begins, with a number drawn, or   *)
(* one ends.                                                               *)
LEMMA RequestDrawn ==
  ASSUME NumberRows, NEW w \in Writers, NEW step \in Steps, NEW number \in Nat, Draw(w, step, number)
  PROVE  /\ writer' \in [Writers -> Written] /\ writer[w].step = "away"
         /\ writer'[w].step = step /\ writer'[w].number = number
         /\ \A v \in Writers : v # w => writer'[v] = writer[v]
BY DEF Draw, NumberRows, Written, Away

(* A request that has been served.                                         *)
LEMMA RequestLeaves ==
  ASSUME NumberRows, NEW w \in Writers, Leave(w)
  PROVE  /\ writer' \in [Writers -> Written] /\ writer'[w].step = "away"
         /\ \A v \in Writers : v # w => writer'[v] = writer[v]
BY DEF Leave, NumberRows, Written, Away, Steps

(* No number was drawn.                                                    *)
LEMMA NumbersStart == NumbersInit => NumbersInv
<1> SUFFICES ASSUME NumbersInit PROVE NumbersInv
  OBVIOUS
<1>1. invoices \in Seq(Nat) /\ customers \in Seq(Nat) /\ tickets \in Seq(Nat) /\ queue \in Seq(Nat)
      /\ Len(invoices) = 0 /\ Len(customers) = 0 /\ Len(tickets) = 0 /\ Len(queue) = 0
  BY DEF NumbersInit
<1>2. Away \in Written /\ Away.step = "away"
  BY DEF Away, Written, Steps
<1>3. \A w \in Writers : writer[w].step = "away"
  BY <1>2 DEF NumbersInit
<1> QED
  BY <1>1, <1>2, <1>3 DEF NumbersInit, NumbersInv, NumberRows, InvoiceInv, TicketInv, CustomerInv, QueueInv,
     InvoicesConsecutive, TicketsConsecutive, Consecutive, CustomerNumbersDistinct, NobodyOvertaken, Drawn

(* A step about one kind of number leaves the others in order.             *)
Elsewhere(w, steps) ==
  /\ \A v \in Writers : v # w => writer'[v] = writer[v]
  /\ writer'[w].step \notin steps

(* Who is not about invoices leaves them as they are.                      *)
LEMMA InvoicesStay ==
  ASSUME InvoiceInv, NEW w \in Writers, Elsewhere(w, {"invoice"}), UNCHANGED <<invoices, invoiceNumberSeq>>
  PROVE  InvoiceInv'
<1>1. InvoicesConsecutive'
  BY DEF InvoiceInv, InvoicesConsecutive, Consecutive
<1>2. \A v \in Writers : writer'[v].step = "invoice" => v # w /\ writer'[v] = writer[v]
  BY DEF Elsewhere
<1> QED
  BY <1>1, <1>2 DEF InvoiceInv

(* Likewise for maintenance tickets.                                       *)
LEMMA TicketsStay ==
  ASSUME TicketInv, NEW w \in Writers, Elsewhere(w, {"ticket"}), UNCHANGED tickets
  PROVE  TicketInv'
<1>1. TicketsConsecutive'
  BY DEF TicketInv, TicketsConsecutive, Consecutive
<1>2. \A v \in Writers : writer'[v].step = "ticket" => v # w /\ writer'[v] = writer[v]
  BY DEF Elsewhere
<1> QED
  BY <1>1, <1>2 DEF TicketInv

(* Likewise for customers.                                                 *)
LEMMA CustomersStay ==
  ASSUME CustomerInv, NEW w \in Writers, Elsewhere(w, {"customer", "import"}),
         UNCHANGED <<customers, customerNumberSeq>>
  PROVE  CustomerInv'
<1>1. CustomerNumbersDistinct'
  BY DEF CustomerInv, CustomerNumbersDistinct
<1>2. \A v \in Writers : Drawn(v)' => v # w /\ writer'[v] = writer[v] /\ Drawn(v)
  BY DEF Elsewhere, Drawn
<1> QED
  BY <1>1, <1>2 DEF CustomerInv

(* Likewise for the waiting list.                                          *)
LEMMA QueueStays ==
  ASSUME QueueInv, NEW w \in Writers, Elsewhere(w, {"join"}), UNCHANGED queue
  PROVE  QueueInv'
<1>1. NobodyOvertaken'
  BY DEF QueueInv, NobodyOvertaken
<1>2. \A v \in Writers : writer'[v].step = "join" => v # w /\ writer'[v] = writer[v]
  BY DEF Elsewhere
<1> QED
  BY <1>1, <1>2 DEF QueueInv

(* The steps about one kind of number keep that kind in order.             *)
LEMMA InvoiceSteps ==
  ASSUME NumbersInv, NEW w \in Writers, IssueInvoice(w) \/ CommitInvoice(w)
  PROVE  NumbersInv'
<1>1. NumberRows /\ invoiceNumberSeq + 1 \in Nat /\ Len(invoices) \in Nat
      /\ InvoiceInv /\ TicketInv /\ CustomerInv /\ QueueInv
      /\ UNCHANGED <<customerNumberSeq, customers, tickets, queue>>
  BY DEF NumbersInv, NumberRows, IssueInvoice, CommitInvoice
<1>2. CASE IssueInvoice(w)
  <2>1. Draw(w, "invoice", invoiceNumberSeq + 1) /\ UNCHANGED <<invoiceNumberSeq, invoices>>
        /\ \A v \in Writers : writer[v].step # "invoice"
    BY <1>2 DEF IssueInvoice, SettingsFree
  <2>2. /\ writer' \in [Writers -> Written] /\ writer'[w].step = "invoice"
        /\ writer'[w].number = invoiceNumberSeq + 1
        /\ \A v \in Writers : v # w => writer'[v] = writer[v]
    BY <1>1, <2>1, RequestDrawn DEF Steps
  <2>3. TicketInv' /\ CustomerInv' /\ QueueInv'
    BY <1>1, <2>2, TicketsStay, CustomersStay, QueueStays DEF Elsewhere
  <2>4. InvoiceInv'
    BY <1>1, <2>1, <2>2 DEF InvoiceInv, InvoicesConsecutive, Consecutive
  <2> QED
    BY <1>1, <2>1, <2>2, <2>3, <2>4 DEF NumbersInv, NumberRows
<1>3. CASE CommitInvoice(w)
  <2>1. writer[w].step = "invoice" /\ Leave(w) /\ invoiceNumberSeq' = writer[w].number
        /\ invoices' = Append(invoices, writer[w].number)
    BY <1>3 DEF CommitInvoice
  <2>2. writer[w].number = invoiceNumberSeq + 1 /\ \A v \in Writers : v # w => writer[v].step # "invoice"
    BY <1>1, <2>1 DEF InvoiceInv
  <2>3. /\ writer' \in [Writers -> Written] /\ writer'[w].step = "away"
        /\ \A v \in Writers : v # w => writer'[v] = writer[v]
    BY <1>1, <2>1, RequestLeaves
  <2>4. InvoicesConsecutive' /\ invoices' \in Seq(Nat)
    <3>1. Len(invoices) = invoiceNumberSeq /\ \A i \in 1 .. Len(invoices) : invoices[i] = i
      BY <1>1 DEF InvoiceInv, InvoicesConsecutive, Consecutive
    <3>2. /\ Len(invoices') = Len(invoices) + 1 /\ invoices' \in Seq(Nat)
          /\ \A i \in 1 .. Len(invoices) + 1 : invoices'[i] = i
      BY <1>1, <2>1, <2>2, <3>1 DEF NumberRows
    <3> QED
      BY <2>1, <2>2, <3>1, <3>2 DEF InvoicesConsecutive, Consecutive
  <2>5. TicketInv' /\ CustomerInv' /\ QueueInv'
    BY <1>1, <2>3, TicketsStay, CustomersStay, QueueStays DEF Elsewhere
  <2>6. InvoiceInv'
    BY <2>2, <2>3, <2>4 DEF InvoiceInv
  <2> QED
    BY <1>1, <2>1, <2>2, <2>3, <2>4, <2>5, <2>6 DEF NumbersInv, NumberRows
<1> QED
  BY <1>2, <1>3

(* A ticket is numbered after the highest that was read, and the unique    *)
(* index refuses a number twice.                                           *)
LEMMA TicketSteps ==
  ASSUME NumbersInv, NEW w \in Writers, OpenTicket(w) \/ CreateTicket(w)
  PROVE  NumbersInv'
<1>1. NumberRows /\ Len(tickets) \in Nat /\ InvoiceInv /\ TicketInv /\ CustomerInv /\ QueueInv
      /\ Highest(tickets) = Len(tickets) /\ (\A i \in 1 .. Len(tickets) : tickets[i] = i)
      /\ UNCHANGED <<invoiceNumberSeq, invoices, customerNumberSeq, customers, queue>>
  BY HighestOfConsecutive DEF NumbersInv, NumberRows, TicketInv, TicketsConsecutive, Consecutive, OpenTicket, CreateTicket
<1>2. CASE OpenTicket(w)
  <2>1. Draw(w, "ticket", Len(tickets) + 1) /\ UNCHANGED tickets /\ Len(tickets) + 1 \in Nat
    BY <1>1, <1>2 DEF OpenTicket
  <2>2. /\ writer' \in [Writers -> Written] /\ writer'[w].step = "ticket"
        /\ writer'[w].number = Len(tickets) + 1
        /\ \A v \in Writers : v # w => writer'[v] = writer[v]
    BY <1>1, <2>1, RequestDrawn DEF Steps
  <2>3. InvoiceInv' /\ CustomerInv' /\ QueueInv'
    BY <1>1, <2>2, InvoicesStay, CustomersStay, QueueStays DEF Elsewhere
  <2>4. TicketInv'
    BY <1>1, <2>1, <2>2 DEF TicketInv, TicketsConsecutive, Consecutive
  <2> QED
    BY <1>1, <2>1, <2>2, <2>3, <2>4 DEF NumbersInv, NumberRows
<1>3. CASE CreateTicket(w)
  <2> DEFINE n == writer[w].number
  <2>1. writer[w].step = "ticket" /\ Leave(w) /\ tickets' = IF Taken(n) THEN tickets ELSE Append(tickets, n)
    BY <1>3 DEF CreateTicket
  <2>2. n \in 1 .. Len(tickets) + 1
    BY <1>1, <2>1 DEF TicketInv
  <2> HIDE DEF n
  <2>3. /\ writer' \in [Writers -> Written] /\ writer'[w].step = "away"
        /\ \A v \in Writers : v # w => writer'[v] = writer[v]
    BY <1>1, <2>1, RequestLeaves
  <2>4. InvoiceInv' /\ CustomerInv' /\ QueueInv'
    BY <1>1, <2>3, InvoicesStay, CustomersStay, QueueStays DEF Elsewhere
  <2>5. /\ tickets' \in Seq(Nat) /\ Len(tickets) <= Len(tickets') /\ Len(tickets') \in Nat
        /\ \A i \in 1 .. Len(tickets') : tickets'[i] = i
    <3>1. CASE Taken(n)
      BY <1>1, <2>1, <3>1 DEF NumberRows
    <3>2. CASE ~ Taken(n)
      <4>1. n = Len(tickets) + 1
        BY <1>1, <2>2, <3>2 DEF Taken
      <4> QED
        BY <1>1, <2>1, <3>2, <4>1 DEF NumberRows
    <3> QED
      BY <3>1, <3>2
  <2>6. TicketInv'
    <3>1. \A v \in Writers : writer'[v].step = "ticket" => writer'[v].number \in 1 .. Len(tickets')  + 1
      <4> SUFFICES ASSUME NEW v \in Writers, writer'[v].step = "ticket"
                   PROVE  writer'[v].number \in 1 .. Len(tickets') + 1
        OBVIOUS
      <4>1. v # w /\ writer'[v] = writer[v]
        BY <2>3
      <4>2. writer[v].number \in 1 .. Len(tickets) + 1
        BY <1>1, <4>1 DEF TicketInv
      <4> QED
        BY <1>1, <2>5, <4>1, <4>2
    <3> QED
      BY <2>5, <3>1 DEF TicketInv, TicketsConsecutive, Consecutive
  <2> QED
    BY <1>1, <2>3, <2>4, <2>5, <2>6 DEF NumbersInv, NumberRows
<1> QED
  BY <1>2, <1>3

(* A customer's number is drawn from the settings row before he is         *)
(* created; an import does both for a line in one transaction.             *)
LEMMA CustomerSteps ==
  ASSUME NumbersInv, NEW w \in Writers,
         NextCustomerNumber(w) \/ CreateCustomer(w) \/ ImportLine(w) \/ EndLine(w)
  PROVE  NumbersInv'
<1>1. NumberRows /\ Len(customers) \in Nat /\ InvoiceInv /\ TicketInv /\ CustomerInv /\ QueueInv
      /\ (\A i \in 1 .. Len(customers) : customers[i] \in Nat) /\ customerNumberSeq + 1 \in Nat
      /\ UNCHANGED <<invoiceNumberSeq, invoices, tickets, queue>>
  BY DEF NumbersInv, NumberRows, NextCustomerNumber, CreateCustomer, ImportLine, EndLine
<1>2. ASSUME NEW step \in {"customer", "import"}, Draw(w, step, customerNumberSeq + 1),
             customerNumberSeq' = customerNumberSeq + 1, UNCHANGED customers
      PROVE  NumbersInv'
  <2>1. /\ writer' \in [Writers -> Written] /\ writer'[w].step = step
        /\ writer'[w].number = customerNumberSeq + 1
        /\ \A v \in Writers : v # w => writer'[v] = writer[v]
    BY <1>1, <1>2, RequestDrawn DEF Steps
  <2>2. InvoiceInv' /\ TicketInv' /\ QueueInv'
    BY <1>1, <2>1, InvoicesStay, TicketsStay, QueueStays DEF Elsewhere
  <2>3. \A v \in Writers : writer[v].number \in Nat /\ (v # w => Drawn(v)' = Drawn(v))
    BY <1>1, <2>1 DEF NumberRows, Written, Drawn
  <2>4. CustomerInv'
    <3>1. \A i \in 1 .. Len(customers) : customers[i] <= customerNumberSeq + 1 /\ customers[i] # customerNumberSeq + 1
      BY <1>1 DEF CustomerInv, NumberRows
    <3>2. \A v \in Writers : v # w /\ Drawn(v) => writer'[v].number <= customerNumberSeq
      BY <1>1, <2>1 DEF CustomerInv
    <3>3. ASSUME NEW v \in Writers, Drawn(v)'
          PROVE  /\ writer'[v].number <= customerNumberSeq'
                 /\ \A i \in 1 .. Len(customers') : customers'[i] # writer'[v].number
                 /\ \A u \in Writers : Drawn(u)' /\ writer'[u].number = writer'[v].number => u = v
      <4>1. CASE v = w
        BY <1>1, <1>2, <2>1, <2>3, <3>1, <3>2, <4>1 DEF NumberRows
      <4>2. CASE v # w
        <5>1. Drawn(v) /\ writer'[v] = writer[v] /\ writer[v].number <= customerNumberSeq
          BY <2>1, <2>3, <3>2, <3>3, <4>2
        <5>2. \A u \in Writers : Drawn(u)' /\ writer'[u].number = writer'[v].number => u = v
          <6> SUFFICES ASSUME NEW u \in Writers, Drawn(u)', writer'[u].number = writer'[v].number PROVE u = v
            OBVIOUS
          <6>1. CASE u = w
            BY <1>1, <2>1, <2>3, <5>1, <6>1 DEF NumberRows
          <6>2. CASE u # w
            BY <1>1, <2>1, <2>3, <5>1, <6>2 DEF CustomerInv
          <6> QED
            BY <6>1, <6>2
        <5>3. \A i \in 1 .. Len(customers) : customers[i] # writer[v].number
          BY <1>1, <5>1 DEF CustomerInv
        <5>4. writer[v].number <= customerNumberSeq + 1
          BY <1>1, <2>3, <5>1 DEF NumberRows
        <5> QED
          BY <1>2, <5>1, <5>2, <5>3, <5>4
      <4> QED
        BY <4>1, <4>2
    <3> QED
      BY <1>1, <1>2, <3>1, <3>3 DEF CustomerInv, CustomerNumbersDistinct
  <2> QED
    BY <1>1, <1>2, <2>1, <2>2, <2>4 DEF NumbersInv, NumberRows
<1>3. ASSUME Drawn(w), Leave(w), UNCHANGED customerNumberSeq,
             customers' = Append(customers, writer[w].number) \/ customers' = customers
      PROVE  NumbersInv'
  <2> DEFINE n == writer[w].number
  <2>1. /\ writer' \in [Writers -> Written] /\ writer'[w].step = "away"
        /\ \A v \in Writers : v # w => writer'[v] = writer[v]
    BY <1>1, <1>3, RequestLeaves
  <2>2. InvoiceInv' /\ TicketInv' /\ QueueInv'
    BY <1>1, <2>1, InvoicesStay, TicketsStay, QueueStays DEF Elsewhere
  <2>3. n \in Nat /\ n <= customerNumberSeq /\ \A i \in 1 .. Len(customers) : customers[i] # n
    BY <1>1, <1>3 DEF NumberRows, Written, CustomerInv
  <2>4. \A v \in Writers : Drawn(v)' => v # w /\ Drawn(v) /\ writer'[v] = writer[v] /\ writer[v].number # n
    BY <1>1, <1>3, <2>1 DEF Drawn, CustomerInv
  <2>5. CustomerInv' /\ customers' \in Seq(Nat)
    <3>1. CASE customers' = customers
      BY <1>1, <1>3, <2>4, <3>1 DEF CustomerInv, CustomerNumbersDistinct, NumberRows
    <3>2. CASE customers' = Append(customers, n)
      <4> HIDE DEF n
      <4>1. /\ customers' \in Seq(Nat) /\ Len(customers') = Len(customers) + 1
            /\ customers'[Len(customers) + 1] = n
            /\ \A i \in 1 .. Len(customers) : customers'[i] = customers[i]
        BY <1>1, <2>3, <3>2 DEF NumberRows
      <4>2. CustomerNumbersDistinct' /\ \A i \in 1 .. Len(customers') : customers'[i] <= customerNumberSeq'
        <5>1. \A i \in 1 .. Len(customers') :
                 /\ i = Len(customers) + 1 \/ i \in 1 .. Len(customers)
                 /\ i # Len(customers) + 1 => customers'[i] = customers[i] /\ customers[i] # n
          BY <1>1, <2>3, <4>1
        <5>2. \A i, j \in 1 .. Len(customers) : customers[i] = customers[j] => i = j
          BY <1>1 DEF CustomerInv, CustomerNumbersDistinct
        <5>3. CustomerNumbersDistinct'
          BY <4>1, <5>1, <5>2 DEF CustomerNumbersDistinct
        <5>4. \A i \in 1 .. Len(customers') : customers'[i] <= customerNumberSeq'
          BY <1>1, <1>3, <2>3, <4>1, <5>1 DEF CustomerInv
        <5> QED
          BY <5>3, <5>4
      <4>3. \A v \in Writers : Drawn(v)' =>
              /\ writer'[v].number <= customerNumberSeq'
              /\ \A i \in 1 .. Len(customers') : customers'[i] # writer'[v].number
              /\ \A u \in Writers : Drawn(u)' /\ writer'[u].number = writer'[v].number => u = v
        BY <1>1, <1>3, <2>4, <4>1 DEF CustomerInv
      <4> QED
        BY <4>1, <4>2, <4>3 DEF CustomerInv
    <3> QED
      BY <1>3, <3>1, <3>2
  <2> QED
    BY <1>1, <1>3, <2>1, <2>2, <2>5 DEF NumbersInv, NumberRows
<1> QED
  BY <1>2, <1>3 DEF NextCustomerNumber, CreateCustomer, ImportLine, EndLine, Drawn

(* Leaving takes one entry out and keeps the order of the others.          *)
LEMMA EntryLeaves ==
  ASSUME NEW s \in Seq(Nat), NEW i \in 1 .. Len(s)
  PROVE  LET rest == SubSeq(s, 1, i - 1) \o SubSeq(s, i + 1, Len(s)) IN
         /\ rest \in Seq(Nat) /\ Len(rest) = Len(s) - 1
         /\ \A j \in 1 .. Len(s) - 1 : rest[j] = IF j < i THEN s[j] ELSE s[j + 1]
<1> DEFINE a == SubSeq(s, 1, i - 1)
           b == SubSeq(s, i + 1, Len(s))
<1>1. Len(s) \in Nat /\ i \in Nat /\ 1 <= i /\ i <= Len(s)
  OBVIOUS
<1>2. a \in Seq(Nat) /\ Len(a) = i - 1 /\ \A j \in 1 .. i - 1 : a[j] = s[j]
  BY <1>1
<1>3. b \in Seq(Nat) /\ Len(b) = Len(s) - i /\ \A j \in 1 .. Len(s) - i : b[j] = s[i + j]
  <2>1. \A j \in i + 1 .. Len(s) : s[j] \in Nat
    BY <1>1
  <2>2. /\ b \in Seq(Nat) /\ Len(b) = IF i + 1 <= Len(s) THEN Len(s) - (i + 1) + 1 ELSE 0
        /\ \A j \in 1 .. Len(s) - (i + 1) + 1 : b[j] = s[(i + 1) + j - 1]
    BY <1>1, <2>1, SubSeqProperties
  <2> HIDE DEF b
  <2>3. Len(b) = Len(s) - i
    BY <1>1, <2>2
  <2>4. \A j \in 1 .. Len(s) - i : (i + 1) + j - 1 = i + j /\ j \in 1 .. Len(s) - (i + 1) + 1
    BY <1>1
  <2> QED
    BY <2>2, <2>3, <2>4
<1> HIDE DEF a, b
<1>4. /\ a \o b \in Seq(Nat) /\ Len(a \o b) = Len(a) + Len(b)
      /\ \A j \in 1 .. Len(a) + Len(b) : (a \o b)[j] = IF j <= Len(a) THEN a[j] ELSE b[j - Len(a)]
  BY <1>2, <1>3, ConcatProperties
<1>5. Len(a) + Len(b) = Len(s) - 1
  BY <1>1, <1>2, <1>3
<1>6. ASSUME NEW j \in 1 .. Len(s) - 1 PROVE (a \o b)[j] = IF j < i THEN s[j] ELSE s[j + 1]
  <2>1. CASE j < i
    BY <1>1, <1>2, <1>4, <1>5, <2>1
  <2>2. CASE ~ j < i
    <3>1. (a \o b)[j] = b[j - (i - 1)]
      <4>1. Len(a) = i - 1 /\ j \in 1 .. Len(a) + Len(b) /\ ~ j <= Len(a)
        BY <1>1, <1>2, <1>5, <2>2
      <4> QED
        BY <1>4, <4>1
    <3>2. j - (i - 1) \in 1 .. Len(s) - i /\ i + (j - (i - 1)) = j + 1
      BY <1>1, <2>2
    <3> QED
      BY <1>3, <2>2, <3>1, <3>2
  <2> QED
    BY <2>1, <2>2
<1> QED
  BY <1>4, <1>5, <1>6 DEF a, b

(* A place on the waiting list comes after the highest that waits.         *)
LEMMA QueueSteps ==
  ASSUME JoinsOverlap = FALSE, NumbersInv, NEW w \in Writers, Join(w) \/ CreateEntry(w)
  PROVE  NumbersInv'
<1>1. NumberRows /\ Len(queue) \in Nat /\ InvoiceInv /\ TicketInv /\ CustomerInv /\ QueueInv
      /\ (\A i \in 1 .. Len(queue) : queue[i] \in Nat) /\ NobodyOvertaken
      /\ UNCHANGED <<invoiceNumberSeq, invoices, customerNumberSeq, customers, tickets>>
  BY DEF NumbersInv, NumberRows, QueueInv, Join, CreateEntry
<1>2. CASE Join(w)
  <2> DEFINE n == Highest(queue) + 1
  <2>1. Highest(queue) \in Nat /\ \A i \in 1 .. Len(queue) : queue[i] <= Highest(queue)
    BY <1>1, HighestIsLast DEF NobodyOvertaken, NumberRows
  <2>2. n \in Nat /\ \A i \in 1 .. Len(queue) : queue[i] < n
    BY <1>1, <2>1
  <2>3. Draw(w, "join", n) /\ UNCHANGED queue /\ \A v \in Writers : writer[v].step # "join"
    BY <1>2 DEF Join, AfterTheLast
  <2> HIDE DEF n
  <2>4. /\ writer' \in [Writers -> Written] /\ writer'[w].step = "join" /\ writer'[w].number = n
        /\ \A v \in Writers : v # w => writer'[v] = writer[v]
    BY <1>1, <2>2, <2>3, RequestDrawn DEF Steps
  <2>5. InvoiceInv' /\ TicketInv' /\ CustomerInv'
    BY <1>1, <2>4, InvoicesStay, TicketsStay, CustomersStay DEF Elsewhere
  <2>6. QueueInv'
    BY <1>1, <2>2, <2>3, <2>4 DEF QueueInv, NobodyOvertaken
  <2> QED
    BY <1>1, <2>3, <2>4, <2>5, <2>6 DEF NumbersInv, NumberRows
<1>3. CASE CreateEntry(w)
  <2> DEFINE n == writer[w].number
  <2>1. writer[w].step = "join" /\ Leave(w) /\ queue' = Append(queue, n)
    BY <1>3 DEF CreateEntry
  <2>2. /\ n \in Nat /\ \A i \in 1 .. Len(queue) : queue[i] < n
        /\ \A v \in Writers : v # w => writer[v].step # "join"
    BY <1>1, <2>1 DEF QueueInv, NumberRows, Written
  <2> HIDE DEF n
  <2>3. /\ writer' \in [Writers -> Written] /\ writer'[w].step = "away"
        /\ \A v \in Writers : v # w => writer'[v] = writer[v]
    BY <1>1, <2>1, RequestLeaves
  <2>4. /\ queue' \in Seq(Nat) /\ Len(queue') = Len(queue) + 1 /\ queue'[Len(queue) + 1] = n
        /\ \A i \in 1 .. Len(queue) : queue'[i] = queue[i]
    BY <1>1, <2>1, <2>2 DEF NumberRows
  <2>5. NobodyOvertaken'
    <3>1. Len(queue) \in Nat /\ \A i, j \in 1 .. Len(queue) : i < j => queue[i] < queue[j]
      BY <1>1 DEF NumberRows, QueueInv, NobodyOvertaken
    <3>2. SUFFICES ASSUME NEW i \in 1 .. Len(queue) + 1, NEW j \in 1 .. Len(queue) + 1, i < j
                   PROVE  queue'[i] < queue'[j]
      BY <2>4 DEF NobodyOvertaken
    <3>3. i \in 1 .. Len(queue) /\ queue'[i] = queue[i]
      BY <2>4, <3>1, <3>2
    <3>4. CASE j = Len(queue) + 1
      BY <2>2, <2>4, <3>3, <3>4
    <3>5. CASE j # Len(queue) + 1
      <4>1. j \in 1 .. Len(queue) /\ queue'[j] = queue[j]
        BY <2>4, <3>1, <3>5
      <4> QED
        BY <3>1, <3>2, <3>3, <4>1
    <3> QED
      BY <3>4, <3>5
  <2>6. QueueInv'
    BY <2>2, <2>3, <2>5 DEF QueueInv
  <2>7. InvoiceInv' /\ TicketInv' /\ CustomerInv'
    BY <1>1, <2>3, InvoicesStay, TicketsStay, CustomersStay DEF Elsewhere
  <2> QED
    BY <1>1, <2>3, <2>4, <2>6, <2>7 DEF NumbersInv, NumberRows
<1> QED
  BY <1>2, <1>3

(* Who leaves the list takes his place with him; the others keep theirs.   *)
LEMMA LeaveQueueStep ==
  ASSUME NumbersInv, NEW i \in 1 .. Len(queue), LeaveQueue(i)
  PROVE  NumbersInv'
<1>1. UNCHANGED <<invoiceNumberSeq, customerNumberSeq, invoices, customers, tickets, writer, aborts>>
      /\ queue \in Seq(Nat) /\ Len(queue) \in Nat
  BY DEF LeaveQueue, NumbersInv, NumberRows
<1>2. /\ queue' \in Seq(Nat) /\ Len(queue') = Len(queue) - 1
      /\ \A j \in 1 .. Len(queue) - 1 : queue'[j] = IF j < i THEN queue[j] ELSE queue[j + 1]
  <2>1. queue' = SubSeq(queue, 1, i - 1) \o SubSeq(queue, i + 1, Len(queue))
    BY DEF LeaveQueue
  <2> QED
    BY <1>1, <2>1, EntryLeaves
<1>3. PICK was \in [1 .. Len(queue) - 1 -> 1 .. Len(queue)] :
         /\ \A j \in 1 .. Len(queue) - 1 : queue'[j] = queue[was[j]]
         /\ \A j, k \in 1 .. Len(queue) - 1 : j < k => was[j] < was[k]
  <2> DEFINE f == [j \in 1 .. Len(queue) - 1 |-> IF j < i THEN j ELSE j + 1]
  <2>1. f \in [1 .. Len(queue) - 1 -> 1 .. Len(queue)]
    BY <1>1
  <2>2. \A j \in 1 .. Len(queue) - 1 : queue'[j] = queue[f[j]]
    BY <1>1, <1>2
  <2>3. \A j, k \in 1 .. Len(queue) - 1 : j < k => f[j] < f[k]
    BY <1>1
  <2> HIDE DEF f
  <2> QED
    BY <2>1, <2>2, <2>3
<1>4. QueueInv'
  <2>1. NobodyOvertaken'
    <3>1. \A j, k \in 1 .. Len(queue) : j < k => queue[j] < queue[k]
      BY DEF NumbersInv, QueueInv, NobodyOvertaken
    <3>2. ASSUME NEW j \in 1 .. Len(queue) - 1, NEW k \in 1 .. Len(queue) - 1, j < k
          PROVE  queue'[j] < queue'[k]
      <4>1. was[j] \in 1 .. Len(queue) /\ was[k] \in 1 .. Len(queue) /\ was[j] < was[k]
        BY <1>3, <3>2
      <4>2. queue'[j] = queue[was[j]] /\ queue'[k] = queue[was[k]]
        BY <1>3
      <4> QED
        BY <3>1, <4>1, <4>2
    <3> QED
      BY <1>2, <3>2 DEF NobodyOvertaken
  <2>2. \A w \in Writers : writer[w].step = "join" => \A j \in 1 .. Len(queue) - 1 : queue'[j] < writer[w].number
    BY <1>3 DEF NumbersInv, QueueInv
  <2> QED
    BY <1>1, <1>2, <2>1, <2>2 DEF NumbersInv, QueueInv
<1>5. NumberRows' /\ InvoiceInv' /\ TicketInv' /\ CustomerInv'
  BY <1>1, <1>2 DEF NumbersInv, NumberRows, InvoiceInv, InvoicesConsecutive, TicketInv, TicketsConsecutive,
     Consecutive, CustomerInv, CustomerNumbersDistinct, Drawn
<1> QED
  BY <1>4, <1>5 DEF NumbersInv

(* While customers join the waiting list one at a time, invoices and       *)
(* maintenance tickets are numbered 1, 2, 3 ... in the order of their      *)
(* rows, no two customers have one number, and who joined the waiting list *)
(* later stands behind who was there before, whichever requests overlap    *)
(* and die.                                                                *)
THEOREM NumbersStayInOrder ==
  ASSUME JoinsOverlap = FALSE PROVE NumbersSpec => []NumberedInOrder
<1>1. NumbersInv /\ [NumbersNext]_numberVars => NumbersInv'
  <2> SUFFICES ASSUME NumbersInv, [NumbersNext]_numberVars PROVE NumbersInv'
    OBVIOUS
  <2>1. ASSUME NEW w \in Writers,
               \/ IssueInvoice(w) \/ CommitInvoice(w)
               \/ NextCustomerNumber(w) \/ CreateCustomer(w) \/ ImportLine(w) \/ EndLine(w)
               \/ OpenTicket(w) \/ CreateTicket(w) \/ Join(w) \/ CreateEntry(w)
        PROVE  NumbersInv'
    BY <2>1, InvoiceSteps, CustomerSteps, TicketSteps, QueueSteps
  <2>2. ASSUME NEW w \in Writers, Die(w) PROVE NumbersInv'
    <3>1. NumberRows /\ InvoiceInv /\ TicketInv /\ CustomerInv /\ QueueInv
      BY DEF NumbersInv
    <3>2. Leave(w) /\ UNCHANGED <<invoiceNumberSeq, customerNumberSeq, invoices, customers, tickets, queue>>
      BY <2>2 DEF Die
    <3>3. /\ writer' \in [Writers -> Written] /\ writer'[w].step = "away"
          /\ \A v \in Writers : v # w => writer'[v] = writer[v]
      BY <3>1, <3>2, RequestLeaves
    <3>4. InvoiceInv' /\ TicketInv' /\ CustomerInv' /\ QueueInv'
      BY <3>1, <3>2, <3>3, InvoicesStay, TicketsStay, CustomersStay, QueueStays DEF Elsewhere
    <3> QED
      BY <3>1, <3>2, <3>3, <3>4 DEF NumbersInv, NumberRows
  <2>3. ASSUME NEW i \in 1 .. Len(queue), LeaveQueue(i) PROVE NumbersInv'
    BY <2>3, LeaveQueueStep
  <2>4. CASE UNCHANGED numberVars
    BY <2>4 DEF numberVars, NumbersInv, NumberRows, InvoiceInv, InvoicesConsecutive, TicketInv, TicketsConsecutive,
       Consecutive, CustomerInv, CustomerNumbersDistinct, Drawn, QueueInv, NobodyOvertaken
  <2> QED
    BY <2>1, <2>2, <2>3, <2>4 DEF NumbersNext
<1>2. NumbersInv => NumberedInOrder
  BY DEF NumbersInv, InvoiceInv, TicketInv, CustomerInv, QueueInv, NumberedInOrder
<1> QED
  BY <1>1, <1>2, NumbersStart, PTL DEF NumbersSpec

-------------------------------------------------------------------------------
(* Bootstrap.  What is left of a program tells what it has written.        *)

Names == Keyed \cup {"room", "group", "customer", "ledger", "catalog", "register"}
StatementRow == [op : {"upsert", "insert", "strip", "grant"}, row : Names]

(* What the statements of a program have in common: the roles are granted  *)
(* before the branch is made, the branch before the owner, and his role is *)
(* next.                                                                   *)
Fits(k, s) ==
  /\ s.op = "strip" => (k = 4 /\ s.row = "OWNER") \/ (k = 7 /\ s.row = "CASHIER")
  /\ s.op = "grant" => k = 5 \/ k = 8
  /\ s.op = "insert" => k >= 10
  /\ k = 3 => s = Upsert("OWNER")
  /\ k = 5 => s = Statement("grant", "OWNER")
  /\ k = 6 => s = Upsert("CASHIER")
  /\ k = 8 => s = Statement("grant", "CASHIER")
  /\ k = 9 => s = Upsert("branch")
  /\ k = 10 => s \in {Insert("owner"), Upsert("owner")}
  /\ k = 11 => s \in {Insert("ownerRole"), Upsert("ownerRole")}
  /\ s.row = "owner" => k = 10

InOrder(prog) ==
  /\ prog \in Seq(StatementRow) /\ Len(prog) \in Nat /\ Len(prog) >= 11
  /\ \A k \in 1 .. Len(prog) : Fits(k, prog[k])

LeftFrom(k, prog) == SubSeq(prog, k, Len(prog))

(* The statement at which a program is.                                    *)
Place(work) == Len(Statements(work.tenant)) - Len(work.left) + 1
OnItsWay(work) ==
  /\ Place(work) \in 1 .. Len(Statements(work.tenant))
  /\ work.left = LeftFrom(Place(work), Statements(work.tenant))
GrantAt(key) == IF key = "OWNER" THEN 5 ELSE 8

(* What a program is past is there; what is stripped will be granted again *)
(* by a program that works, and the owner's role is there or next.         *)
Lasting(t) ==
  /\ \A r \in {"branch", "owner", "ownerRole"} : rows[t][r] <= 1
  /\ rows[t]["owner"] > 0 => rows[t]["branch"] > 0
  /\ \A p \in Programs : Works(p, t) /\ Place(program[p]) > 9 => rows[t]["branch"] > 0
Granted(t, key) ==
  rows[t]["owner"] > 0 \/ (\E p \in Programs : Works(p, t) /\ Place(program[p]) > GrantAt(key)) =>
    key \in granted[t] \/ \E p \in Programs : Works(p, t) /\ Place(program[p]) <= GrantAt(key)
Appointed(t) ==
  rows[t]["owner"] > 0 =>
    rows[t]["ownerRole"] > 0 \/ \E p \in Programs : Works(p, t) /\ Place(program[p]) = 11

BootstrapRows ==
  /\ rows \in [Tenants -> [AllRows -> Nat]]
  /\ granted \in [Tenants -> SUBSET RoleKeys]
  /\ program \in [Programs -> [tenant : Tenants, left : Seq(StatementRow)]]
  /\ \A p \in Programs : Running(p) => OnItsWay(program[p])
BootstrapInv ==
  /\ BootstrapRows
  /\ \A t \in Tenants :
       Lasting(t) /\ (t \notin cut => Appointed(t) /\ \A key \in RoleKeys : Granted(t, key))

(* The statements as rows.                                                 *)
LEMMA StatementRows ==
  ASSUME NEW record \in Names
  PROVE  /\ Upsert(record) \in StatementRow /\ Insert(record) \in StatementRow
         /\ Statement("strip", record) \in StatementRow /\ Statement("grant", record) \in StatementRow
BY DEF Upsert, Insert, Statement, StatementRow

(* The parts of a sequence that was put together.                          *)
LEMMA Joined ==
  ASSUME NEW S, NEW s \in Seq(S), NEW t \in Seq(S)
  PROVE  /\ s \o t \in Seq(S) /\ Len(s \o t) = Len(s) + Len(t)
         /\ \A i \in 1 .. Len(s) : (s \o t)[i] = s[i]
         /\ \A i \in 1 .. Len(t) : (s \o t)[Len(s) + i] = t[i]
<1> DEFINE m == Len(s)
           n == Len(t)
<1>1. m \in Nat /\ n \in Nat
  BY LenProperties
<1>2. /\ s \o t \in Seq(S) /\ Len(s \o t) = m + n
      /\ \A i \in 1 .. m + n : (s \o t)[i] = IF i <= m THEN s[i] ELSE t[i - m]
  BY ConcatProperties
<1> HIDE DEF m, n
<1>3. ASSUME NEW i \in 1 .. m PROVE (s \o t)[i] = s[i]
  BY <1>1, <1>2
<1>4. ASSUME NEW i \in 1 .. n PROVE (s \o t)[m + i] = t[i]
  <2>1. m + i \in 1 .. m + n /\ ~ (m + i <= m) /\ (m + i) - m = i
    BY <1>1
  <2> QED
    BY <1>2, <2>1
<1> QED
  BY <1>2, <1>3, <1>4 DEF m, n

(* Sequences that are written out.                                         *)
LEMMA One ==
  ASSUME NEW S, NEW a \in S
  PROVE  <<a>> \in Seq(S) /\ Len(<<a>>) = 1 /\ <<a>>[1] = a
OBVIOUS

(* Likewise.                                                               *)
LEMMA Two ==
  ASSUME NEW S, NEW a \in S, NEW b \in S
  PROVE  <<a, b>> \in Seq(S) /\ Len(<<a, b>>) = 2 /\ <<a, b>>[1] = a /\ <<a, b>>[2] = b
OBVIOUS

(* Likewise.                                                               *)
LEMMA Three ==
  ASSUME NEW S, NEW a \in S, NEW b \in S, NEW c \in S
  PROVE  /\ <<a, b, c>> \in Seq(S) /\ Len(<<a, b, c>>) = 3
         /\ <<a, b, c>>[1] = a /\ <<a, b, c>>[2] = b /\ <<a, b, c>>[3] = c
OBVIOUS

(* Likewise.                                                               *)
LEMMA Four ==
  ASSUME NEW S, NEW a \in S, NEW b \in S, NEW c \in S, NEW d \in S
  PROVE  /\ <<a, b, c, d>> \in Seq(S) /\ Len(<<a, b, c, d>>) = 4
         /\ <<a, b, c, d>>[1] = a /\ <<a, b, c, d>>[2] = b
         /\ <<a, b, c, d>>[3] = c /\ <<a, b, c, d>>[4] = d
OBVIOUS

(* What both programs begin with, statement by statement.                  *)
LEMMA OrganizationRows ==
  /\ Organization \in Seq(StatementRow) /\ Len(Organization) = 9
  /\ Organization[1] = Upsert("permissions") /\ Organization[2] = Upsert("tenant")
  /\ Organization[3] = Upsert("OWNER")
  /\ Organization[4] = Statement("strip", "OWNER") /\ Organization[5] = Statement("grant", "OWNER")
  /\ Organization[6] = Upsert("CASHIER")
  /\ Organization[7] = Statement("strip", "CASHIER") /\ Organization[8] = Statement("grant", "CASHIER")
  /\ Organization[9] = Upsert("branch")
<1> DEFINE a == << Upsert("permissions"), Upsert("tenant") >>
           b == RoleWithPermissions("OWNER")
           c == RoleWithPermissions("CASHIER")
           d == << Upsert("branch") >>
<1>1. a \in Seq(StatementRow) /\ Len(a) = 2 /\ a[1] = Upsert("permissions") /\ a[2] = Upsert("tenant")
  <2>1. Upsert("permissions") \in StatementRow /\ Upsert("tenant") \in StatementRow
    BY StatementRows DEF Names, Keyed
  <2> QED
    BY <2>1, Two
<1>2. ASSUME NEW key \in Names
      PROVE  /\ RoleWithPermissions(key) \in Seq(StatementRow) /\ Len(RoleWithPermissions(key)) = 3
             /\ RoleWithPermissions(key)[1] = Upsert(key)
             /\ RoleWithPermissions(key)[2] = Statement("strip", key)
             /\ RoleWithPermissions(key)[3] = Statement("grant", key)
  BY StatementRows, Three DEF RoleWithPermissions
<1>3. d \in Seq(StatementRow) /\ Len(d) = 1 /\ d[1] = Upsert("branch")
  <2>1. Upsert("branch") \in StatementRow
    BY StatementRows DEF Names, Keyed
  <2> QED
    BY <2>1, One
<1>4. Organization = ((a \o b) \o c) \o d
  BY DEF Organization
<1>5. /\ b \in Seq(StatementRow) /\ Len(b) = 3 /\ b[1] = Upsert("OWNER")
      /\ b[2] = Statement("strip", "OWNER") /\ b[3] = Statement("grant", "OWNER")
  <2>1. "OWNER" \in Names
    BY DEF Names, Keyed, RoleKeys
  <2> QED
    BY <1>2, <2>1
<1>6. /\ c \in Seq(StatementRow) /\ Len(c) = 3 /\ c[1] = Upsert("CASHIER")
      /\ c[2] = Statement("strip", "CASHIER") /\ c[3] = Statement("grant", "CASHIER")
  <2>1. "CASHIER" \in Names
    BY DEF Names, Keyed, RoleKeys
  <2> QED
    BY <1>2, <2>1
<1> HIDE DEF a, b, c, d
<1> DEFINE ab == a \o b
           abc == ab \o c
           all == abc \o d
<1>7. /\ ab \in Seq(StatementRow) /\ Len(ab) = 5
      /\ ab[1] = a[1] /\ ab[2] = a[2] /\ ab[3] = b[1] /\ ab[4] = b[2] /\ ab[5] = b[3]
  <2>1. /\ ab \in Seq(StatementRow) /\ Len(ab) = Len(a) + Len(b)
        /\ \A i \in 1 .. Len(a) : ab[i] = a[i]
        /\ \A i \in 1 .. Len(b) : ab[Len(a) + i] = b[i]
    <3>1. a \in Seq(StatementRow) /\ b \in Seq(StatementRow)
      BY <1>1, <1>5
    <3> QED
      BY <3>1, Joined
  <2> HIDE DEF ab
  <2>2. ab[1] = a[1] /\ ab[2] = a[2] /\ ab[2 + 1] = b[1] /\ ab[2 + 2] = b[2] /\ ab[2 + 3] = b[3]
    BY <1>1, <1>5, <2>1
  <2> QED
    BY <1>1, <1>5, <2>1, <2>2
<1> HIDE DEF ab
<1>8. /\ abc \in Seq(StatementRow) /\ Len(abc) = 8
      /\ abc[1] = ab[1] /\ abc[2] = ab[2] /\ abc[3] = ab[3] /\ abc[4] = ab[4] /\ abc[5] = ab[5]
      /\ abc[6] = c[1] /\ abc[7] = c[2] /\ abc[8] = c[3]
  <2>1. /\ abc \in Seq(StatementRow) /\ Len(abc) = Len(ab) + Len(c)
        /\ \A i \in 1 .. Len(ab) : abc[i] = ab[i]
        /\ \A i \in 1 .. Len(c) : abc[Len(ab) + i] = c[i]
    <3>1. ab \in Seq(StatementRow) /\ c \in Seq(StatementRow)
      BY <1>6, <1>7
    <3> QED
      BY <3>1, Joined
  <2> HIDE DEF abc
  <2>2. /\ abc[1] = ab[1] /\ abc[2] = ab[2] /\ abc[3] = ab[3] /\ abc[4] = ab[4] /\ abc[5] = ab[5]
        /\ abc[5 + 1] = c[1] /\ abc[5 + 2] = c[2] /\ abc[5 + 3] = c[3]
    BY <1>6, <1>7, <2>1
  <2> QED
    BY <1>6, <1>7, <2>1, <2>2
<1> HIDE DEF abc
<1>9. /\ all \in Seq(StatementRow) /\ Len(all) = 9
      /\ \A i \in 1 .. 8 : all[i] = abc[i]
      /\ all[9] = d[1]
  <2>1. /\ all \in Seq(StatementRow) /\ Len(all) = Len(abc) + Len(d)
        /\ \A i \in 1 .. Len(abc) : all[i] = abc[i]
        /\ \A i \in 1 .. Len(d) : all[Len(abc) + i] = d[i]
    <3>1. abc \in Seq(StatementRow) /\ d \in Seq(StatementRow)
      BY <1>3, <1>8
    <3> QED
      BY <3>1, Joined
  <2> HIDE DEF all
  <2>2. all[8 + 1] = d[1]
    BY <1>3, <1>8, <2>1
  <2> QED
    BY <1>3, <1>8, <2>1, <2>2
<1> HIDE DEF all
<1>10. Organization = all
  BY <1>4 DEF all, abc, ab
<1>11. /\ all[1] = a[1] /\ all[2] = a[2] /\ all[3] = b[1] /\ all[4] = b[2] /\ all[5] = b[3]
       /\ all[6] = c[1] /\ all[7] = c[2] /\ all[8] = c[3]
  BY <1>7, <1>8, <1>9
<1> QED
  BY <1>1, <1>3, <1>5, <1>6, <1>9, <1>10, <1>11

(* A program goes on in order when what follows only makes rows other than *)
(* the owner's.                                                            *)
LEMMA OrderKept ==
  ASSUME NEW prog, InOrder(prog), NEW rest \in Seq(StatementRow),
         \A i \in 1 .. Len(rest) : rest[i].op \in {"insert", "upsert"} /\ rest[i].row # "owner"
  PROVE  InOrder(prog \o rest)
<1> DEFINE all == prog \o rest
<1>1. prog \in Seq(StatementRow) /\ Len(prog) \in Nat /\ Len(rest) \in Nat /\ Len(prog) >= 11
  BY DEF InOrder
<1>2. /\ all \in Seq(StatementRow) /\ Len(all) = Len(prog) + Len(rest)
      /\ \A k \in 1 .. Len(prog) : all[k] = prog[k]
      /\ \A k \in 1 .. Len(rest) : all[Len(prog) + k] = rest[k]
  BY <1>1, Joined
<1> HIDE DEF all
<1>3. ASSUME NEW k \in 1 .. Len(all)
      PROVE  \/ k \in 1 .. Len(prog) /\ all[k] = prog[k]
             \/ k > 11 /\ all[k].op \in {"insert", "upsert"} /\ all[k].row # "owner"
  <2>1. CASE k <= Len(prog)
    BY <1>1, <1>2, <2>1
  <2>2. CASE k > Len(prog)
    <3>1. k - Len(prog) \in 1 .. Len(rest) /\ Len(prog) + (k - Len(prog)) = k /\ k > 11
      BY <1>1, <1>2, <2>2
    <3>2. all[k] = rest[k - Len(prog)]
      BY <1>2, <3>1
    <3> QED
      BY <3>1, <3>2
  <2> QED
    BY <1>1, <2>1, <2>2
<1>4. InOrder(all)
  <2> SUFFICES ASSUME NEW k \in 1 .. Len(all) PROVE Fits(k, all[k])
    BY <1>1, <1>2 DEF InOrder
  <2>1. CASE k \in 1 .. Len(prog) /\ all[k] = prog[k]
    BY <2>1 DEF InOrder
  <2>2. CASE k > 11 /\ all[k].op \in {"insert", "upsert"} /\ all[k].row # "owner"
    BY <2>2 DEF Fits
  <2> QED
    BY <1>3, <2>1, <2>2
<1> QED
  BY <1>4 DEF all

(* The organization, and then the owner and his role.                      *)
LEMMA OrderBegins ==
  ASSUME NEW rest \in Seq(StatementRow), Len(rest) >= 2, rest[1] \in {Insert("owner"), Upsert("owner")},
         rest[2] \in {Insert("ownerRole"), Upsert("ownerRole")},
         \A i \in 2 .. Len(rest) : rest[i].op \in {"insert", "upsert"} /\ rest[i].row # "owner"
  PROVE  InOrder(Organization \o rest)
<1> DEFINE o == Organization
           all == o \o rest
<1>1. o \in Seq(StatementRow) /\ Len(o) = 9 /\ Len(rest) \in Nat
  BY OrganizationRows
<1>2. \A s \in {Insert("owner"), Upsert("owner")} : s.row = "owner" /\ s.op \in {"insert", "upsert"}
  BY DEF Insert, Upsert, Statement
<1>3. \A k \in 1 .. 9 : Fits(k, o[k]) /\ o[k].row # "owner"
  <2> SUFFICES ASSUME NEW k \in 1 .. 9 PROVE Fits(k, o[k]) /\ o[k].row # "owner"
    OBVIOUS
  <2>1. \/ k = 1 /\ o[k] = Upsert("permissions")
        \/ k = 2 /\ o[k] = Upsert("tenant")
        \/ k = 3 /\ o[k] = Upsert("OWNER")
        \/ k = 4 /\ o[k] = Statement("strip", "OWNER")
        \/ k = 5 /\ o[k] = Statement("grant", "OWNER")
        \/ k = 6 /\ o[k] = Upsert("CASHIER")
        \/ k = 7 /\ o[k] = Statement("strip", "CASHIER")
        \/ k = 8 /\ o[k] = Statement("grant", "CASHIER")
        \/ k = 9 /\ o[k] = Upsert("branch")
    <3>1. k = 1 \/ k = 2 \/ k = 3 \/ k = 4 \/ k = 5 \/ k = 6 \/ k = 7 \/ k = 8 \/ k = 9
      OBVIOUS
    <3> QED
      BY <3>1, OrganizationRows
  <2> HIDE DEF o
  <2> QED
    BY <2>1 DEF Upsert, Statement, Fits
<1> HIDE DEF o
<1>4. /\ all \in Seq(StatementRow) /\ Len(all) = 9 + Len(rest)
      /\ \A k \in 1 .. 9 : all[k] = o[k]
      /\ \A k \in 1 .. Len(rest) : all[9 + k] = rest[k]
  <2>1. /\ all \in Seq(StatementRow) /\ Len(all) = Len(o) + Len(rest)
        /\ \A k \in 1 .. Len(o) : all[k] = o[k]
        /\ \A k \in 1 .. Len(rest) : all[Len(o) + k] = rest[k]
    <3>1. o \in Seq(StatementRow) /\ rest \in Seq(StatementRow)
      BY <1>1
    <3> QED
      BY <3>1, Joined
  <2> HIDE DEF all
  <2> QED
    BY <1>1, <2>1
<1> HIDE DEF all
<1>5. ASSUME NEW k \in 1 .. Len(all)
      PROVE  \/ k \in 1 .. 9 /\ all[k] = o[k]
             \/ k = 10 /\ all[k] \in {Insert("owner"), Upsert("owner")}
             \/ /\ k > 10 /\ all[k].op \in {"insert", "upsert"} /\ all[k].row # "owner"
                /\ k = 11 => all[k] \in {Insert("ownerRole"), Upsert("ownerRole")}
  <2>1. CASE k <= 9
    BY <1>1, <1>4, <2>1
  <2>2. CASE k > 9
    <3>1. k - 9 \in 1 .. Len(rest) /\ 9 + (k - 9) = k
      BY <1>1, <1>4, <2>2
    <3>2. all[k] = rest[k - 9]
      BY <1>4, <3>1
    <3>3. CASE k = 10
      <4>1. k - 9 = 1
        BY <3>3
      <4> QED
        BY <3>2, <3>3, <4>1
    <3>4. CASE k > 10
      <4>1. k - 9 \in 2 .. Len(rest) /\ (k = 11 => k - 9 = 2)
        BY <1>1, <3>1, <3>4
      <4> QED
        BY <3>2, <3>4, <4>1
    <3> QED
      BY <2>2, <3>3, <3>4
  <2> QED
    BY <2>1, <2>2
<1>6. InOrder(all)
  <2> SUFFICES ASSUME NEW k \in 1 .. Len(all) PROVE Fits(k, all[k])
    <3>1. all \in Seq(StatementRow) /\ Len(all) \in Nat /\ Len(all) >= 11
      BY <1>1, <1>4
    <3> QED
      BY <3>1 DEF InOrder
  <2>1. CASE k \in 1 .. 9 /\ all[k] = o[k]
    BY <1>3, <2>1
  <2>2. CASE k = 10 /\ all[k] \in {Insert("owner"), Upsert("owner")}
    BY <1>2, <2>2 DEF Fits
  <2>3. CASE /\ k > 10 /\ all[k].op \in {"insert", "upsert"} /\ all[k].row # "owner"
             /\ k = 11 => all[k] \in {Insert("ownerRole"), Upsert("ownerRole")}
    BY <2>3 DEF Fits
  <2> QED
    BY <1>5, <2>1, <2>2, <2>3
<1> QED
  BY <1>6 DEF all, o

(* Both programs.                                                          *)
LEMMA ProgramsInOrder == \A t \in Tenants : InOrder(Statements(t))
<1>1. InOrder(BootProgram)
  <2> DEFINE rest == << Insert("owner"), Insert("ownerRole") >>
  <2>1. /\ rest \in Seq(StatementRow) /\ Len(rest) = 2 /\ rest[1] = Insert("owner")
        /\ rest[2] = Insert("ownerRole") /\ rest[2].op = "insert" /\ rest[2].row = "ownerRole"
    <3>1. /\ rest \in Seq(StatementRow) /\ Len(rest) = 2 /\ rest[1] = Insert("owner")
          /\ rest[2] = Insert("ownerRole")
      <4>1. Insert("owner") \in StatementRow /\ Insert("ownerRole") \in StatementRow
        BY StatementRows DEF Names, Keyed
      <4> QED
        BY <4>1, Two
    <3> HIDE DEF rest
    <3> QED
      BY <3>1 DEF Insert, Statement
  <2>2. BootProgram = Organization \o rest
    BY DEF BootProgram
  <2> HIDE DEF rest
  <2>3. \A i \in 2 .. Len(rest) : rest[i].op \in {"insert", "upsert"} /\ rest[i].row # "owner"
    <3>1. \A i \in 2 .. 2 : i = 2
      OBVIOUS
    <3> QED
      BY <2>1, <3>1
  <2>4. /\ Len(rest) >= 2 /\ rest[1] \in {Insert("owner"), Upsert("owner")}
        /\ rest[2] \in {Insert("ownerRole"), Upsert("ownerRole")}
    BY <2>1
  <2> QED
    BY <2>1, <2>2, <2>3, <2>4, OrderBegins
<1>2. InOrder(SeedProgram)
  <2> DEFINE e == SeedEmployees
             r == SeedRooms
             c == SeedCustomer
  <2>1. /\ e \in Seq(StatementRow) /\ Len(e) = 4 /\ e[1] = Upsert("owner")
        /\ e[2] = Upsert("ownerRole") /\ e[3] = Upsert("cashier") /\ e[4] = Upsert("cashierRole")
    <3>1. {Upsert("owner"), Upsert("ownerRole"), Upsert("cashier"), Upsert("cashierRole")} \subseteq StatementRow
      BY StatementRows DEF Names, Keyed
    <3> QED
      BY <3>1, Four DEF SeedEmployees
  <2>2. /\ r \in Seq(StatementRow) /\ Len(r) = 3
        /\ r[1] = Insert("room") /\ r[2] = Insert("group") /\ r[3] = Insert("computers")
    <3>1. {Insert("room"), Insert("group"), Insert("computers")} \subseteq StatementRow
      BY StatementRows DEF Names, Keyed
    <3> QED
      BY <3>1, Three DEF SeedRooms
  <2>3. /\ c \in Seq(StatementRow) /\ Len(c) = 4 /\ c[1] = Insert("customer") /\ c[2] = Insert("ledger")
        /\ c[3] = Insert("catalog") /\ c[4] = Insert("register")
    <3>1. {Insert("customer"), Insert("ledger"), Insert("catalog"), Insert("register")} \subseteq StatementRow
      BY StatementRows DEF Names, Keyed
    <3> QED
      BY <3>1, Four DEF SeedCustomer
  <2>4. SeedProgram = ((Organization \o e) \o r) \o c
    BY DEF SeedProgram
  <2> HIDE DEF e, r, c
  <2>5. \A i \in 2 .. Len(e) : e[i].op \in {"insert", "upsert"} /\ e[i].row # "owner"
    <3>1. \A i \in 2 .. 4 : i = 2 \/ i = 3 \/ i = 4
      OBVIOUS
    <3> QED
      BY <2>1, <3>1 DEF Upsert, Statement
  <2>6. \A i \in 1 .. Len(r) : r[i].op \in {"insert", "upsert"} /\ r[i].row # "owner"
    <3>1. \A i \in 1 .. 3 : i = 1 \/ i = 2 \/ i = 3
      OBVIOUS
    <3> QED
      BY <2>2, <3>1 DEF Insert, Statement
  <2>7. \A i \in 1 .. Len(c) : c[i].op \in {"insert", "upsert"} /\ c[i].row # "owner"
    <3>1. \A i \in 1 .. 4 : i = 1 \/ i = 2 \/ i = 3 \/ i = 4
      OBVIOUS
    <3> QED
      BY <2>3, <3>1 DEF Insert, Statement
  <2>8. InOrder(Organization \o e)
    <3>1. /\ Len(e) >= 2 /\ e[1] \in {Insert("owner"), Upsert("owner")}
          /\ e[2] \in {Insert("ownerRole"), Upsert("ownerRole")}
      BY <2>1
    <3> QED
      BY <2>1, <2>5, <3>1, OrderBegins
  <2>9. InOrder((Organization \o e) \o r)
    BY <2>2, <2>6, <2>8, OrderKept
  <2>10. InOrder(((Organization \o e) \o r) \o c)
    BY <2>3, <2>7, <2>9, OrderKept
  <2> QED
    BY <2>4, <2>10
<1> QED
  BY <1>1, <1>2 DEF Statements, Tenants

(* The rows that are counted are those the statements name.                *)
LEMMA RowNames ==
  /\ {"owner", "branch", "ownerRole"} \subseteq AllRows
  /\ \A t \in Tenants : \A k \in 1 .. Len(Statements(t)) : Statements(t)[k].row \in AllRows
<1>1. \A t \in Tenants : \A k \in 1 .. Len(Statements(t)) : Statements(t)[k].row \in AllRows
  <2>1. \A t \in Tenants : DOMAIN Statements(t) = 1 .. Len(Statements(t))
    BY ProgramsInOrder DEF InOrder
  <2>2. \A k \in DOMAIN BootProgram : BootProgram[k].row \in AllRows
    BY DEF AllRows
  <2>3. \A k \in DOMAIN SeedProgram : SeedProgram[k].row \in AllRows
    BY DEF AllRows
  <2> QED
    BY <2>1, <2>2, <2>3 DEF Statements, Tenants
<1>2. "main" \in Tenants
  BY DEF Tenants
<1>3. /\ Len(Statements("main")) >= 11 /\ Len(Statements("main")) \in Nat
      /\ Statements("main")[9] = Upsert("branch")
      /\ Statements("main")[10] \in {Insert("owner"), Upsert("owner")}
      /\ Statements("main")[11] \in {Insert("ownerRole"), Upsert("ownerRole")}
  <2>1. InOrder(Statements("main"))
    BY <1>2, ProgramsInOrder
  <2> QED
    BY <2>1 DEF InOrder, Fits
<1>4. Statements("main")[9].row = "branch" /\ Statements("main")[10].row = "owner"
      /\ Statements("main")[11].row = "ownerRole"
  BY <1>3 DEF Upsert, Insert, Statement
<1>5. 9 \in 1 .. Len(Statements("main")) /\ 10 \in 1 .. Len(Statements("main"))
      /\ 11 \in 1 .. Len(Statements("main"))
  BY <1>3
<1> QED
  BY <1>1, <1>2, <1>4, <1>5

(* What is left of a program from its k-th statement on.                   *)
LEMMA StatementLeft ==
  ASSUME NEW prog, InOrder(prog), NEW k \in 1 .. Len(prog)
  PROVE  /\ LeftFrom(k, prog) \in Seq(StatementRow) /\ LeftFrom(k, prog) # << >>
         /\ Head(LeftFrom(k, prog)) = prog[k] /\ Len(LeftFrom(k, prog)) = Len(prog) - k + 1
         /\ \A i \in 1 .. Len(prog) - k + 1 : LeftFrom(k, prog)[i] = prog[k + i - 1]
         /\ IF k = Len(prog) THEN Tail(LeftFrom(k, prog)) = << >>
            ELSE Tail(LeftFrom(k, prog)) = LeftFrom(k + 1, prog)
<1> DEFINE n == Len(prog)
           l == LeftFrom(k, prog)
<1>1. prog \in Seq(StatementRow) /\ n \in Nat /\ k \in 1 .. n /\ n = Len(prog)
  BY DEF InOrder
<1>2. l \in Seq(StatementRow) /\ Len(l) = n - k + 1 /\ \A i \in 1 .. n - k + 1 : l[i] = prog[k + i - 1]
  BY <1>1, SubSeqProperties DEF LeftFrom
<1> HIDE DEF l, n
<1>3. l # << >> /\ Head(l) = prog[k]
  <2>1. Len(l) > 0 /\ 1 \in 1 .. n - k + 1 /\ k + 1 - 1 = k
    BY <1>1, <1>2
  <2>2. l[1] = prog[k]
    BY <1>2, <2>1
  <2> QED
    BY <1>2, <2>1, <2>2
<1>4. Tail(l) \in Seq(StatementRow) /\ Len(Tail(l)) = n - k /\ \A i \in 1 .. n - k : Tail(l)[i] = l[i + 1]
  <2>1. /\ Tail(l) \in Seq(StatementRow) /\ Len(Tail(l)) = Len(l) - 1
        /\ \A i \in 1 .. Len(Tail(l)) : Tail(l)[i] = l[i + 1]
    BY <1>2, <1>3, HeadTailProperties
  <2>2. Len(l) - 1 = n - k
    BY <1>1, <1>2
  <2> QED
    BY <2>1, <2>2
<1>5. CASE k = n
  <2>1. Len(Tail(l)) = 0
    BY <1>1, <1>4, <1>5
  <2>2. Tail(l) = << >>
    BY <1>4, <2>1, EmptySeq
  <2> QED
    BY <1>2, <1>3, <1>5, <2>2 DEF l, n
<1>6. CASE k # n
  <2> DEFINE m == LeftFrom(k + 1, prog)
  <2>1. m \in Seq(StatementRow) /\ Len(m) = n - k /\ \A i \in 1 .. n - k : m[i] = prog[k + i]
    BY <1>1, <1>6, SubSeqProperties DEF LeftFrom
  <2> HIDE DEF m
  <2>2. \A i \in 1 .. n - k : Tail(l)[i] = m[i]
    <3> SUFFICES ASSUME NEW i \in 1 .. n - k PROVE Tail(l)[i] = m[i]
      OBVIOUS
    <3>1. i + 1 \in 1 .. n - k + 1 /\ k + (i + 1) - 1 = k + i
      BY <1>1
    <3>2. l[i + 1] = prog[k + (i + 1) - 1]
      BY <1>2, <3>1
    <3> QED
      BY <1>4, <2>1, <3>1, <3>2
  <2>3. Tail(l) = m
    BY <1>4, <2>1, <2>2, SeqEqual
  <2> QED
    BY <1>2, <1>3, <1>6, <2>3 DEF l, n, m
<1> QED
  BY <1>2, <1>3, <1>5, <1>6 DEF l, n

(* Where a program that runs is.                                           *)
LEMMA AtItsPlace ==
  ASSUME BootstrapRows, NEW p \in Programs, Running(p),
         NEW t, t = program[p].tenant, NEW prog, prog = Statements(t),
         NEW k, k = Place(program[p])
  PROVE  /\ t \in Tenants /\ InOrder(prog) /\ Len(prog) \in Nat /\ Len(prog) >= 11
         /\ k \in 1 .. Len(prog) /\ k \in Nat /\ program[p].left = LeftFrom(k, prog)
         /\ prog[k].row \in AllRows /\ Works(p, t)
<1>1. t \in Tenants /\ InOrder(prog) /\ Works(p, t)
  BY ProgramsInOrder DEF BootstrapRows, Works
<1>2. k \in 1 .. Len(prog) /\ program[p].left = LeftFrom(k, prog)
  BY DEF BootstrapRows, OnItsWay
<1>3. Len(prog) \in Nat /\ Len(prog) >= 11
  BY <1>1 DEF InOrder
<1> QED
  BY <1>1, <1>2, <1>3, RowNames

(* A statement is executed, or fails on a row that is there.               *)
LEMMA ExecuteStep ==
  ASSUME BootstrapInv, NEW p \in Programs, Execute(p),
         NEW t, t = program[p].tenant, NEW prog, prog = Statements(t),
         NEW k, k = Place(program[p]), NEW s, s = prog[k]
  PROVE  BootstrapInv'
<1>1. /\ Running(p) /\ t \in Tenants /\ InOrder(prog) /\ Len(prog) \in Nat /\ Len(prog) >= 11
      /\ k \in 1 .. Len(prog) /\ k \in Nat /\ program[p].left = LeftFrom(k, prog)
      /\ s.row \in AllRows /\ Works(p, t)
  <2>1. Running(p) /\ BootstrapRows
    BY DEF Execute, BootstrapInv
  <2> QED
    BY <2>1, AtItsPlace
<1>2. Head(program[p].left) = s
  BY <1>1, StatementLeft
<1>3. /\ rows' = (IF Adds(t, s) THEN [rows EXCEPT ![t][s.row] = rows[t][s.row] + 1] ELSE rows)
      /\ granted' = [granted EXCEPT ![t] = GrantedAfter(granted[t], s)]
      /\ program' = [program EXCEPT ![p] = IF Clashes(t, s) THEN NotRunning
                                           ELSE [tenant |-> t, left |-> Tail(program[p].left)]]
      /\ cut' = cut
  BY <1>2 DEF Execute
<1>4. /\ s.op \in {"upsert", "insert", "strip", "grant"}
      /\ s.op = "strip" => (k = 4 /\ s.row = "OWNER") \/ (k = 7 /\ s.row = "CASHIER")
      /\ s.op = "insert" => k >= 10
      /\ s.op = "grant" => s.row \in RoleKeys
      /\ k = 5 => s.op = "grant" /\ s.row = "OWNER"
      /\ k = 8 => s.op = "grant" /\ s.row = "CASHIER"
      /\ k = 9 => s.op = "upsert" /\ s.row = "branch"
      /\ k = 11 => s.op \in {"insert", "upsert"} /\ s.row = "ownerRole"
      /\ s.row = "owner" => k = 10
  <2>1. s \in StatementRow /\ Fits(k, s)
    BY <1>1 DEF InOrder
  <2> QED
    BY <2>1 DEF Fits, StatementRow, Insert, Upsert, Statement, RoleKeys
<1>5. /\ rows[t] \in [AllRows -> Nat] /\ granted[t] \subseteq RoleKeys
      /\ {"owner", "branch", "ownerRole"} \subseteq AllRows
  BY <1>1, RowNames DEF BootstrapInv, BootstrapRows
<1> DEFINE there == rows'[t]
           roles == GrantedAfter(granted[t], s)
<1>6. /\ rows' \in [Tenants -> [AllRows -> Nat]] /\ \A u \in Tenants : u # t => rows'[u] = rows[u]
      /\ \A r \in AllRows : there[r] = IF r = s.row /\ Adds(t, s) THEN rows[t][r] + 1 ELSE rows[t][r]
  <2>1. rows \in [Tenants -> [AllRows -> Nat]] /\ t \in Tenants /\ s.row \in AllRows
    BY <1>1 DEF BootstrapInv, BootstrapRows
  <2>2. rows' = (IF Adds(t, s) THEN [rows EXCEPT ![t][s.row] = rows[t][s.row] + 1] ELSE rows)
    BY <1>3
  <2>3. CASE Adds(t, s)
    BY <2>1, <2>2, <2>3
  <2>4. CASE ~ Adds(t, s)
    BY <2>1, <2>2, <2>4
  <2> QED
    BY <2>3, <2>4
<1>7. /\ roles \subseteq RoleKeys
      /\ s.op = "strip" => roles = granted[t] \ {s.row}
      /\ s.op = "grant" => roles = granted[t] \cup {s.row}
      /\ s.op \in {"insert", "upsert"} => roles = granted[t]
  BY <1>4, <1>5 DEF GrantedAfter
<1>8. /\ granted' \in [Tenants -> SUBSET RoleKeys] /\ granted'[t] = roles
      /\ \A u \in Tenants : u # t => granted'[u] = granted[u]
  BY <1>1, <1>3, <1>7 DEF BootstrapInv, BootstrapRows
<1>9. /\ s.op = "upsert" => (Adds(t, s) <=> rows[t][s.row] = 0)
      /\ s.op = "insert" /\ s.row \in Keyed => (Adds(t, s) <=> rows[t][s.row] = 0)
      /\ Adds(t, s) => s.op \in {"insert", "upsert"}
      /\ Clashes(t, s) => s.op = "insert"
  <2>1. rows[t][s.row] \in Nat
    BY <1>1, <1>5
  <2> QED
    BY <2>1 DEF Adds, Clashes, Has
<1> DEFINE q == IF Clashes(t, s) THEN NotRunning ELSE [tenant |-> t, left |-> Tail(program[p].left)]
<1>10. /\ q \in [tenant : Tenants, left : Seq(StatementRow)]
       /\ \/ q.left = << >> /\ k >= 10 /\ (Clashes(t, s) \/ k = Len(prog))
          \/ /\ q.left # << >> /\ q.tenant = t /\ Place(q) = k + 1
             /\ k + 1 \in 1 .. Len(prog) /\ q.left = LeftFrom(k + 1, prog)
  <2>1. NotRunning \in [tenant : Tenants, left : Seq(StatementRow)] /\ NotRunning.left = << >>
    BY DEF NotRunning, Tenants
  <2>2. CASE Clashes(t, s)
    BY <1>4, <1>9, <2>1, <2>2
  <2>3. CASE ~ Clashes(t, s)
    <3>1. q = [tenant |-> t, left |-> Tail(LeftFrom(k, prog))]
      BY <1>1, <2>3
    <3> HIDE DEF q
    <3>2. CASE k = Len(prog)
      <4>1. q = [tenant |-> t, left |-> << >>]
        BY <1>1, <3>1, <3>2, StatementLeft
      <4> QED
        BY <1>1, <3>2, <4>1
    <3>3. CASE k # Len(prog)
      <4>1. k + 1 \in 1 .. Len(prog) /\ q = [tenant |-> t, left |-> LeftFrom(k + 1, prog)]
        <5>1. Tail(LeftFrom(k, prog)) = LeftFrom(k + 1, prog)
          BY <1>1, <3>3, StatementLeft
        <5>2. k + 1 \in 1 .. Len(prog)
          BY <1>1, <3>3
        <5>3. q = [tenant |-> t, left |-> LeftFrom(k + 1, prog)]
          BY <3>1, <5>1
        <5> QED
          BY <5>2, <5>3
      <4>2. /\ LeftFrom(k + 1, prog) \in Seq(StatementRow) /\ LeftFrom(k + 1, prog) # << >>
            /\ Len(LeftFrom(k + 1, prog)) = Len(prog) - (k + 1) + 1
        BY <1>1, <4>1, StatementLeft
      <4>3. q.tenant = t /\ q.left = LeftFrom(k + 1, prog) /\ q \in [tenant : Tenants, left : Seq(StatementRow)]
        BY <1>1, <4>1, <4>2
      <4>4. Place(q) = Len(prog) - (Len(prog) - (k + 1) + 1) + 1
        BY <4>2, <4>3 DEF Place
      <4>5. Place(q) = k + 1
        BY <1>1, <4>4
      <4> QED
        BY <4>1, <4>2, <4>3, <4>5
    <3> QED
      BY <3>2, <3>3
  <2> QED
    BY <2>2, <2>3
<1>11. /\ program' \in [Programs -> [tenant : Tenants, left : Seq(StatementRow)]]
       /\ program'[p] = q /\ \A o \in Programs : o # p => program'[o] = program[o]
  <2>1. program' = [program EXCEPT ![p] = q]
    BY <1>3
  <2> HIDE DEF q
  <2> QED
    BY <1>10, <2>1 DEF BootstrapInv, BootstrapRows
<1> HIDE DEF q, there, roles
<1>12. BootstrapRows'
  <2>1. ASSUME NEW o \in Programs, program'[o].left # << >> PROVE OnItsWay(program'[o])
    <3>1. CASE o = p
      BY <1>10, <1>11, <2>1, <3>1 DEF OnItsWay
    <3>2. CASE o # p
      BY <1>11, <2>1, <3>2 DEF BootstrapInv, BootstrapRows, Running
    <3> QED
      BY <3>1, <3>2
  <2> QED
    BY <1>6, <1>8, <1>11, <2>1 DEF BootstrapRows, Running
<1>13. /\ \A o \in Programs, u \in Tenants : o # p => (Works(o, u)' <=> Works(o, u)) /\ program'[o] = program[o]
       /\ \A u \in Tenants : Works(p, u)' => u = t /\ Place(program'[p]) = k + 1
       /\ \A u \in Tenants : Works(p, u) => u = t
       /\ k < 10 => Works(p, t)' /\ Place(program'[p]) = k + 1
  BY <1>1, <1>10, <1>11 DEF Works, Running
<1>14. Works(p, t) /\ k = Place(program[p]) /\ k \in Nat /\ t \in Tenants
  BY <1>1
<1>15. Lasting(t) /\ (t \notin cut => Appointed(t) /\ \A key \in RoleKeys : Granted(t, key))
  BY <1>14 DEF BootstrapInv
<1>16. Lasting(t)'
  <2>1. \A r \in {"branch", "owner", "ownerRole"} :
          /\ r \in AllRows /\ r \in Keyed /\ rows[t][r] \in Nat /\ rows[t][r] <= 1
          /\ there[r] \in Nat /\ there[r] <= 1 /\ there[r] >= rows[t][r]
    <3> SUFFICES ASSUME NEW r \in {"branch", "owner", "ownerRole"}
                 PROVE  /\ r \in AllRows /\ r \in Keyed /\ rows[t][r] \in Nat /\ rows[t][r] <= 1
                        /\ there[r] \in Nat /\ there[r] <= 1 /\ there[r] >= rows[t][r]
      OBVIOUS
    <3>1. r \in AllRows /\ r \in Keyed /\ rows[t][r] \in Nat /\ rows[t][r] <= 1
      BY <1>5, <1>15 DEF Lasting, Keyed
    <3>2. r = s.row /\ Adds(t, s) => rows[t][r] = 0
      BY <1>9, <3>1
    <3>3. there[r] = IF r = s.row /\ Adds(t, s) THEN rows[t][r] + 1 ELSE rows[t][r]
      BY <1>6, <3>1
    <3> QED
      BY <3>1, <3>2, <3>3
  <2>2. k >= 9 => there["branch"] > 0
    <3>1. CASE k = 9
      BY <1>4, <1>5, <1>6, <1>9, <2>1, <3>1
    <3>2. CASE k > 9
      BY <1>14, <1>15, <2>1, <3>2 DEF Lasting
    <3> QED
      BY <1>14, <3>1, <3>2
  <2>3. there["owner"] > 0 => there["branch"] > 0
    <3>1. CASE k = 10
      BY <2>2, <3>1
    <3>2. CASE k # 10
      <4>1. there["owner"] = rows[t]["owner"]
        BY <1>4, <1>5, <1>6, <3>2
      <4> QED
        BY <1>15, <2>1, <4>1 DEF Lasting
    <3> QED
      BY <3>1, <3>2
  <2>4. ASSUME NEW o \in Programs, Works(o, t)', Place(program'[o]) > 9 PROVE there["branch"] > 0
    <3>1. CASE o = p
      BY <1>13, <1>14, <2>2, <2>4, <3>1
    <3>2. CASE o # p
      <4>1. Works(o, t) /\ Place(program[o]) > 9
        BY <1>13, <1>14, <2>4, <3>2
      <4>2. rows[t]["branch"] > 0
        BY <1>15, <4>1 DEF Lasting
      <4> QED
        BY <2>1, <4>2
    <3> QED
      BY <3>1, <3>2
  <2>5. /\ \A r \in {"branch", "owner", "ownerRole"} : there[r] <= 1
        /\ there["owner"] > 0 => there["branch"] > 0
        /\ \A o \in Programs : Works(o, t)' /\ Place(program'[o]) > 9 => there["branch"] > 0
    BY <2>1, <2>3, <2>4
  <2> QED
    BY <2>5 DEF Lasting, there
<1>17. Appointed(t)' \/ t \in cut
  <2> SUFFICES ASSUME t \notin cut, there["owner"] > 0
               PROVE  there["ownerRole"] > 0 \/ \E o \in Programs : Works(o, t)' /\ Place(program'[o]) = 11
    BY DEF Appointed, there
  <2>1. "ownerRole" \in AllRows /\ "owner" \in AllRows /\ "ownerRole" \in Keyed
        /\ rows[t]["ownerRole"] \in Nat /\ rows[t]["owner"] \in Nat
    BY <1>5 DEF Keyed
  <2>2. CASE k = 11
    BY <1>4, <1>6, <1>9, <2>1, <2>2
  <2>3. CASE k # 11 /\ rows[t]["owner"] > 0
    <3>1. rows[t]["ownerRole"] > 0 \/ \E o \in Programs : Works(o, t) /\ Place(program[o]) = 11
      BY <1>15, <2>3 DEF Appointed
    <3>2. CASE rows[t]["ownerRole"] > 0
      BY <1>6, <2>1, <3>2
    <3>3. CASE \E o \in Programs : Works(o, t) /\ Place(program[o]) = 11
      BY <1>13, <1>14, <2>3, <3>3
    <3> QED
      BY <3>1, <3>2, <3>3
  <2>4. CASE k # 11 /\ ~ (rows[t]["owner"] > 0)
    <3>1. s.row = "owner" /\ Adds(t, s) /\ k = 10
      BY <1>4, <1>6, <2>1, <2>4
    <3>2. ~ Clashes(t, s)
      BY <2>4, <3>1 DEF Clashes, Has
    <3>3. Works(p, t)' /\ Place(program'[p]) = 11
      <4>1. q.left # << >> /\ q.tenant = t /\ Place(q) = 11
        <5>1. k # Len(prog) /\ k + 1 = 11
          <6>1. k = 10
            BY <3>1, Zenon
          <6>2. \A n, m : n = 10 /\ m \in Nat /\ m >= 11 => n # m /\ n + 1 = 11
            OBVIOUS
          <6>3. Len(prog) \in Nat /\ Len(prog) >= 11
            BY <1>1
          <6> QED
            BY <6>1, <6>2, <6>3, Zenon
        <5>2. q.left # << >> /\ q.tenant = t /\ Place(q) = k + 1
          BY <1>10, <3>2, <5>1, Zenon
        <5> QED
          BY <5>1, <5>2, Zenon
      <4>2. program'[p] = q
        BY <1>11
      <4> QED
        BY <4>1, <4>2 DEF Works, Running
    <3> QED
      BY <3>3
  <2> QED
    BY <2>2, <2>3, <2>4
<1>18. ASSUME NEW key \in RoleKeys, t \notin cut PROVE Granted(t, key)'
  <2> DEFINE g == GrantAt(key)
  <2>1. /\ g \in Nat /\ g < 9 /\ (k = g => s.op = "grant" /\ s.row = key)
        /\ (s.op = "strip" /\ s.row = key => k < g)
    BY <1>4, <1>18 DEF GrantAt, RoleKeys
  <2> HIDE DEF g
  <2>2. CASE k = g
    BY <1>7, <1>8, <2>1, <2>2 DEF Granted
  <2>3. CASE k < g
    <3>1. Works(p, t)' /\ Place(program'[p]) <= g
      BY <1>13, <1>14, <2>1, <2>3
    <3> QED
      BY <3>1 DEF Granted, g
  <2>4. CASE k > g
    <3>1. key \in granted[t] \/ \E o \in Programs : Works(o, t) /\ Place(program[o]) <= g
      BY <1>14, <1>15, <1>18, <2>4 DEF Granted, g
    <3>2. CASE key \in granted[t]
      <4>1. key \in roles
        BY <1>4, <1>7, <2>1, <2>4, <3>2
      <4> QED
        BY <1>8, <4>1 DEF Granted
    <3>3. CASE \E o \in Programs : Works(o, t) /\ Place(program[o]) <= g
      <4>1. PICK o \in Programs : Works(o, t) /\ Place(program[o]) <= g
        BY <3>3
      <4>2. o # p
        BY <1>14, <2>1, <2>4, <4>1
      <4>3. Works(o, t)' /\ Place(program'[o]) <= g
        BY <1>13, <1>14, <4>1, <4>2
      <4> QED
        BY <4>3 DEF Granted, g
    <3> QED
      BY <3>1, <3>2, <3>3
  <2> QED
    BY <1>14, <2>1, <2>2, <2>3, <2>4
<1>19. ASSUME NEW u \in Tenants, u # t
       PROVE  /\ Lasting(u)'
              /\ u \notin cut => Appointed(u)' /\ \A key \in RoleKeys : Granted(u, key)'
  <2>1. rows'[u] = rows[u] /\ granted'[u] = granted[u]
    BY <1>6, <1>8, <1>19
  <2>2. \A o \in Programs :
          (Works(o, u)' <=> Works(o, u)) /\ (Works(o, u) => Place(program'[o]) = Place(program[o]))
    BY <1>13, <1>19
  <2>3. Lasting(u) /\ (u \notin cut => Appointed(u) /\ \A key \in RoleKeys : Granted(u, key))
    BY DEF BootstrapInv
  <2> QED
    BY <2>1, <2>2, <2>3 DEF Lasting, Appointed, Granted
<1>20. cut' = cut
  BY <1>3
<1> QED
  BY <1>12, <1>16, <1>17, <1>18, <1>19, <1>20 DEF BootstrapInv

(* A program that starts has everything left.                              *)
LEMMA FirstStatement ==
  ASSUME NEW w, InOrder(w)
  PROVE  /\ w \in Seq(StatementRow) /\ Len(w) \in Nat /\ 1 \in 1 .. Len(w)
         /\ w = LeftFrom(1, w)
<1>1. w \in Seq(StatementRow) /\ Len(w) \in Nat /\ 1 \in 1 .. Len(w)
  BY DEF InOrder
<1> DEFINE l == LeftFrom(1, w)
<1>2. l \in Seq(StatementRow) /\ Len(l) = Len(w) /\ \A i \in 1 .. Len(w) : l[i] = w[i]
  BY <1>1, SubSeqProperties DEF LeftFrom
<1> HIDE DEF l
<1>3. l = w
  BY <1>1, <1>2, SeqEqual
<1> QED
  BY <1>1, <1>3 DEF l

(* A program starts, whatever others are at.                               *)
LEMMA StartStep ==
  ASSUME BootstrapInv, NEW p \in Programs, NEW t \in Tenants, Start(p, t)
  PROVE  BootstrapInv'
<1> DEFINE prog == Statements(t)
           q == [tenant |-> t, left |-> prog]
<1>1. ~ Running(p) /\ program' = [program EXCEPT ![p] = q] /\ UNCHANGED <<rows, granted, cut>>
  BY DEF Start
<1>2. InOrder(prog) /\ prog \in Seq(StatementRow) /\ Len(prog) \in Nat /\ 1 \in 1 .. Len(prog)
  BY ProgramsInOrder, FirstStatement
<1>3. prog = LeftFrom(1, prog)
  BY <1>2, FirstStatement
<1>4. q \in [tenant : Tenants, left : Seq(StatementRow)] /\ q.tenant = t /\ q.left = prog
  BY <1>2
<1> HIDE DEF q, prog
<1>5. Place(q) = 1 /\ OnItsWay(q)
  <2>1. Place(q) = Len(prog) - Len(prog) + 1
    BY <1>4 DEF Place, prog
  <2>2. Place(q) = 1
    BY <1>2, <2>1
  <2> QED
    BY <1>2, <1>3, <1>4, <2>2 DEF OnItsWay, prog
<1>6. /\ program' \in [Programs -> [tenant : Tenants, left : Seq(StatementRow)]]
      /\ program'[p] = q /\ \A o \in Programs : o # p => program'[o] = program[o]
  BY <1>1, <1>4 DEF BootstrapInv, BootstrapRows
<1>7. BootstrapRows'
  BY <1>1, <1>5, <1>6 DEF BootstrapInv, BootstrapRows, Running
<1>8. /\ \A o \in Programs, u \in Tenants : Works(o, u) => o # p /\ Works(o, u)' /\ program'[o] = program[o]
      /\ \A o \in Programs, u \in Tenants :
           Works(o, u)' => Place(program'[o]) = 1 \/ (Works(o, u) /\ program'[o] = program[o])
  BY <1>1, <1>5, <1>6 DEF Works, Running
<1>9. ASSUME NEW u \in Tenants
      PROVE  Lasting(u)' /\ (u \notin cut => Appointed(u)' /\ \A key \in RoleKeys : Granted(u, key)')
  <2>1. Lasting(u) /\ (u \notin cut => Appointed(u) /\ \A key \in RoleKeys : Granted(u, key))
    BY DEF BootstrapInv
  <2>2. Lasting(u)'
    BY <1>1, <1>8, <2>1 DEF Lasting
  <2>3. Appointed(u) => Appointed(u)'
    BY <1>1, <1>8 DEF Appointed
  <2>4. ASSUME NEW key \in RoleKeys, Granted(u, key) PROVE Granted(u, key)'
    <3>1. GrantAt(key) \in Nat /\ GrantAt(key) > 1
      BY DEF GrantAt
    <3> QED
      BY <1>1, <1>8, <2>4, <3>1 DEF Granted
  <2> QED
    BY <2>1, <2>2, <2>3, <2>4
<1> QED
  BY <1>1, <1>7, <1>9 DEF BootstrapInv

(* A program dies: not late, so its organization has no owner or it is     *)
(* past his role, and nobody else works for it.                            *)
LEMMA DiesStep ==
  ASSUME BootstrapInv, NEW p \in Programs, ProgramDies(p),
         NEW t, t = program[p].tenant, NEW prog, prog = Statements(t),
         NEW k, k = Place(program[p])
  PROVE  BootstrapInv'
<1>1. /\ Running(p) /\ program' = [program EXCEPT ![p] = NotRunning] /\ UNCHANGED <<rows, granted>>
      /\ cut' = IF DiesLate(p) THEN cut \cup {t} ELSE cut
  BY DEF ProgramDies
<1>2. /\ t \in Tenants /\ InOrder(prog) /\ Len(prog) \in Nat /\ Len(prog) >= 11
      /\ k \in 1 .. Len(prog) /\ k \in Nat /\ program[p].left = LeftFrom(k, prog) /\ Works(p, t)
  BY <1>1, AtItsPlace DEF BootstrapInv
<1>3. NotRunning \in [tenant : Tenants, left : Seq(StatementRow)] /\ NotRunning.left = << >>
  BY DEF NotRunning, Tenants
<1>4. /\ program' \in [Programs -> [tenant : Tenants, left : Seq(StatementRow)]]
      /\ program'[p] = NotRunning /\ \A o \in Programs : o # p => program'[o] = program[o]
  BY <1>1, <1>3 DEF BootstrapInv, BootstrapRows
<1>5. BootstrapRows'
  BY <1>1, <1>3, <1>4 DEF BootstrapInv, BootstrapRows, Running
<1>6. /\ \A o \in Programs, u \in Tenants : Works(o, u)' <=> o # p /\ Works(o, u)
      /\ \A o \in Programs, u \in Tenants : Works(o, u)' => program'[o] = program[o]
      /\ \A u \in Tenants : Works(p, u) => u = t
  BY <1>3, <1>4 DEF Works, Running
<1>7. \A u \in Tenants : Lasting(u)'
  BY <1>1, <1>6 DEF BootstrapInv, Lasting
<1>8. ASSUME NEW u \in Tenants, u \notin cut', u # t
      PROVE  Appointed(u)' /\ \A key \in RoleKeys : Granted(u, key)'
  <2>1. Appointed(u) /\ \A key \in RoleKeys : Granted(u, key)
    BY <1>1, <1>8 DEF BootstrapInv
  <2>2. \A o \in Programs : (Works(o, u)' <=> Works(o, u)) /\ (Works(o, u) => program'[o] = program[o])
    BY <1>6, <1>8
  <2> QED
    BY <1>1, <2>1, <2>2 DEF Appointed, Granted
<1>9. ASSUME t \notin cut'
      PROVE  Appointed(t)' /\ \A key \in RoleKeys : Granted(t, key)'
  <2>1. t \notin cut /\ ~ DiesLate(p)
    <3>1. CASE DiesLate(p)
      BY <1>1, <1>9, <3>1
    <3>2. CASE ~ DiesLate(p)
      BY <1>1, <1>9, <3>2
    <3> QED
      BY <3>1, <3>2
  <2>2. \A o \in Programs : ~ Works(o, t)'
    <3>1. t \in Tenants /\ \A o \in Programs \ {p} : ~ Works(o, t)
      BY <1>2, <2>1 DEF DiesLate
    <3> QED
      BY <1>6, <3>1
  <2>3. rows[t]["owner"] > 0 => k > 11
    <3> SUFFICES ASSUME rows[t]["owner"] > 0, k <= 11 PROVE FALSE
      BY <1>2
    <3>1. /\ Head(program[p].left).row # "ownerRole"
          /\ \A i \in DOMAIN program[p].left : program[p].left[i].row # "owner"
      BY <2>1 DEF DiesLate, Has
    <3>2. /\ Head(program[p].left) = prog[k]
          /\ program[p].left \in Seq(StatementRow) /\ Len(program[p].left) = Len(prog) - k + 1
          /\ \A i \in 1 .. Len(prog) - k + 1 : program[p].left[i] = prog[k + i - 1]
      <4>1. /\ Head(LeftFrom(k, prog)) = prog[k]
            /\ LeftFrom(k, prog) \in Seq(StatementRow) /\ Len(LeftFrom(k, prog)) = Len(prog) - k + 1
            /\ \A i \in 1 .. Len(prog) - k + 1 : LeftFrom(k, prog)[i] = prog[k + i - 1]
        BY <1>2, StatementLeft
      <4>2. program[p].left = LeftFrom(k, prog)
        BY <1>2
      <4> QED
        BY <4>1, <4>2
    <3>3. prog[10].row = "owner" /\ prog[11].row = "ownerRole"
      <4>1. Fits(10, prog[10]) /\ Fits(11, prog[11])
        BY <1>2 DEF InOrder
      <4> QED
        BY <4>1 DEF Fits, Insert, Upsert, Statement
    <3>4. CASE k = 11
      BY <3>1, <3>2, <3>3, <3>4
    <3>5. CASE k <= 10
      <4> DEFINE i == 11 - k
      <4>1. i \in 1 .. Len(prog) - k + 1 /\ k + i - 1 = 10
        BY <1>2, <3>5
      <4>2. DOMAIN program[p].left = 1 .. Len(prog) - k + 1
        BY <3>2
      <4> HIDE DEF i
      <4>3. program[p].left[i] = prog[k + i - 1] /\ i \in DOMAIN program[p].left
        BY <3>2, <4>1, <4>2
      <4>4. program[p].left[i].row = "owner"
        BY <3>3, <4>1, <4>3
      <4> QED
        BY <3>1, <4>3, <4>4
    <3> QED
      BY <1>2, <3>4, <3>5
  <2>4. Appointed(t) /\ \A key \in RoleKeys : Granted(t, key)
    <3>1. t \in Tenants
      BY <1>2
    <3> QED
      BY <2>1, <3>1 DEF BootstrapInv
  <2>5. \A o \in Programs : Works(o, t) => o = p
    <3>1. t \in Tenants
      BY <1>2
    <3> QED
      BY <1>6, <2>2, <3>1
  <2>6. Appointed(t)'
    BY <1>1, <1>2, <2>3, <2>4, <2>5 DEF Appointed
  <2>7. ASSUME NEW key \in RoleKeys PROVE Granted(t, key)'
    <3>1. GrantAt(key) \in Nat /\ GrantAt(key) < 9
      BY DEF GrantAt
    <3>2. rows[t]["owner"] > 0 => key \in granted[t]
      BY <1>2, <2>3, <2>4, <2>5, <3>1 DEF Granted
    <3> QED
      BY <1>1, <2>2, <3>2 DEF Granted
  <2> QED
    BY <2>6, <2>7
<1>10. \A u \in Tenants : u \notin cut' => Appointed(u)' /\ \A key \in RoleKeys : Granted(u, key)'
  BY <1>8, <1>9
<1> QED
  BY <1>5, <1>7, <1>10 DEF BootstrapInv

(* Boots and seeds that overlap, that are run again and that die, leave an *)
(* organization that has its owner with one of him, his role and the       *)
(* branch, and with the permissions of all roles, unless a program of it   *)
(* died late (BootstrapService, the seed).                                 *)
THEOREM TheOwnerComesLast == BootstrapSpec => []OwnerComesLast
<1>1. BootstrapInit => BootstrapInv
  <2> SUFFICES ASSUME BootstrapInit PROVE BootstrapInv
    OBVIOUS
  <2>1. NotRunning \in [tenant : Tenants, left : Seq(StatementRow)] /\ NotRunning.left = << >>
    BY DEF NotRunning, Tenants
  <2>2. BootstrapRows /\ \A p \in Programs : ~ Running(p)
    BY <2>1 DEF BootstrapInit, BootstrapRows, Running
  <2>3. \A t \in Tenants : \A r \in {"branch", "owner", "ownerRole"} : rows[t][r] = 0
    BY RowNames DEF BootstrapInit
  <2> QED
    BY <2>2, <2>3 DEF BootstrapInv, Lasting, Appointed, Granted, Works
<1>2. BootstrapInv /\ [BootstrapNext]_bootstrapVars => BootstrapInv'
  <2> SUFFICES ASSUME BootstrapInv, [BootstrapNext]_bootstrapVars PROVE BootstrapInv'
    OBVIOUS
  <2>1. CASE UNCHANGED bootstrapVars
    BY <2>1 DEF bootstrapVars, BootstrapInv, BootstrapRows, Lasting, Appointed, Granted, Works, Running
  <2>2. ASSUME NEW p \in Programs, Execute(p) PROVE BootstrapInv'
    BY <2>2, ExecuteStep
  <2>3. ASSUME NEW p \in Programs, ProgramDies(p) PROVE BootstrapInv'
    BY <2>3, DiesStep
  <2> QED
    BY <2>1, <2>2, <2>3, StartStep DEF BootstrapNext
<1>3. BootstrapInv => OwnerComesLast
  <2> SUFFICES ASSUME BootstrapInv, NEW t \in Tenants \ cut, Has(t, "owner"),
                      \A p \in Programs : ~ Works(p, t)
               PROVE  granted[t] = RoleKeys /\ \A r \in {"branch", "owner", "ownerRole"} : rows[t][r] = 1
    BY DEF OwnerComesLast
  <2>1. Lasting(t) /\ Appointed(t) /\ \A key \in RoleKeys : Granted(t, key)
    BY DEF BootstrapInv
  <2>2. granted[t] \subseteq RoleKeys /\ \A r \in {"branch", "owner", "ownerRole"} : rows[t][r] \in Nat
    BY RowNames DEF BootstrapInv, BootstrapRows
  <2>3. rows[t]["owner"] > 0
    BY DEF Has
  <2>4. RoleKeys \subseteq granted[t]
    BY <2>1, <2>3 DEF Granted
  <2>5. rows[t]["branch"] > 0 /\ rows[t]["ownerRole"] > 0
    BY <2>1, <2>3 DEF Lasting, Appointed
  <2>6. \A r \in {"branch", "owner", "ownerRole"} : rows[t][r] <= 1 /\ rows[t][r] > 0
    BY <2>1, <2>3, <2>5 DEF Lasting
  <2> QED
    BY <2>2, <2>4, <2>6
<1> QED
  BY <1>1, <1>2, <1>3, PTL DEF BootstrapSpec

-------------------------------------------------------------------------------
(* Meter: the properties of the bill, for all rates a manager may set and  *)
(* sessions of any length.                                                 *)

(* The bill covers the use, or the minimum time, up to the half units that *)
(* rounding may take away, and exceeds it by less than a whole unit unless *)
(* the minimum charge applies.                                             *)
THEOREM BillBounds ==
  ASSUME NEW s \in Nat, NEW p \in Pricings
  PROVE  LET cost == ExactCost(Larger(s, p.minMinutes * 60), p)
             bill == ComputeSessionCharge(s, p) * CostScale
         IN  /\ 2 * bill + CostScale + 2 * Slack(p.roundingRule) >= 2 * cost
             /\ ComputeSessionCharge(s, p) > p.minChargeMinor =>
                  CASE p.roundingRule = "NONE"    -> 2 * bill <= 2 * cost + CostScale
                    [] p.roundingRule = "UP"      -> bill < cost + MinorPerUnit * CostScale
                    [] p.roundingRule = "NEAREST" -> 2 * bill <= 2 * cost + 101 * CostScale
<1> DEFINE used == Larger(s, p.minMinutes * 60)
           cost == ExactCost(used, p)
           raw == SegmentCharge(used, p)
           rounded == RoundMinor(raw, p.roundingRule)
           quoted == ComputeSessionCharge(s, p)
<1>1. p.minMinutes \in Nat /\ p.minChargeMinor \in Nat /\ p.roundingRule \in RoundingRules
  BY DEF Pricings
<1>2. used \in Nat /\ used <= used
  BY <1>1 DEF Larger
<1> HIDE DEF used
<1>3. cost \in Nat
  BY <1>2, CostMonotone
<1>4. /\ raw \in Nat
      /\ 2 * cost - CostScale < 2 * CostScale * raw
      /\ 2 * CostScale * raw <= 2 * cost + CostScale
  BY <1>2, SegmentBounds
<1> HIDE DEF raw, cost
<1>5. /\ rounded \in Nat
      /\ p.roundingRule = "NONE" => rounded = raw
      /\ p.roundingRule = "UP" => raw <= rounded /\ rounded < raw + MinorPerUnit
      /\ p.roundingRule = "NEAREST" =>
           2 * raw - MinorPerUnit < 2 * rounded /\ 2 * rounded <= 2 * raw + MinorPerUnit
  BY <1>1, <1>4, RoundMinorBounds
<1> HIDE DEF rounded
<1>6. quoted = Larger(rounded, p.minChargeMinor)
  BY DEF ComputeSessionCharge, rounded, raw, used
<1> HIDE DEF quoted
<1>7. quoted \in Nat /\ rounded <= quoted
      /\ (quoted > p.minChargeMinor => quoted = rounded)
  BY <1>1, <1>5, <1>6 DEF Larger
<1>8. 2 * (quoted * CostScale) + CostScale + 2 * Slack(p.roundingRule) >= 2 * cost
  <2>1. CASE p.roundingRule = "NONE"
    BY <2>1, <1>3, <1>4, <1>5, <1>7 DEF Slack, CostScale, RatioScale
  <2>2. CASE p.roundingRule = "UP"
    BY <2>2, <1>3, <1>4, <1>5, <1>7 DEF Slack, CostScale, RatioScale
  <2>3. CASE p.roundingRule = "NEAREST"
    BY <2>3, <1>3, <1>4, <1>5, <1>7 DEF Slack, CostScale, RatioScale, MinorPerUnit
  <2> QED
    BY <2>1, <2>2, <2>3, <1>1 DEF RoundingRules
<1>9. ASSUME quoted > p.minChargeMinor
      PROVE  CASE p.roundingRule = "NONE"    -> 2 * (quoted * CostScale) <= 2 * cost + CostScale
               [] p.roundingRule = "UP"      -> quoted * CostScale < cost + MinorPerUnit * CostScale
               [] p.roundingRule = "NEAREST" -> 2 * (quoted * CostScale) <= 2 * cost + 101 * CostScale
  <2>1. CASE p.roundingRule = "NONE"
    BY <2>1, <1>3, <1>4, <1>5, <1>7, <1>9 DEF CostScale, RatioScale
  <2>2. CASE p.roundingRule = "UP"
    BY <2>2, <1>3, <1>4, <1>5, <1>7, <1>9 DEF CostScale, RatioScale, MinorPerUnit
  <2>3. CASE p.roundingRule = "NEAREST"
    BY <2>3, <1>3, <1>4, <1>5, <1>7, <1>9 DEF CostScale, RatioScale, MinorPerUnit
  <2> QED
    BY <2>1, <2>2, <2>3, <1>1 DEF RoundingRules
<1> QED
  BY <1>8, <1>9 DEF quoted, cost, used

(* The meter shows the bill of the time that has run.                      *)
Shows ==
  /\ pricing \in Pricings
  /\ seconds \in Nat
  /\ quote = ComputeSessionCharge(seconds, pricing)

LEMMA ShowsInvariant == MeterSpec => []Shows
<1>1. MeterInit => Shows
  BY RatesAssumption DEF MeterInit, Tariffs, Shows, Pricings
<1>2. Shows /\ [TimeRuns]_meterVars => Shows'
  <2> SUFFICES ASSUME Shows, [TimeRuns]_meterVars PROVE Shows'
    OBVIOUS
  <2>1. CASE TimeRuns
    BY <2>1, StepAssumption DEF TimeRuns, Shows
  <2>2. CASE UNCHANGED meterVars
    BY <2>2 DEF meterVars, Shows
  <2> QED
    BY <2>1, <2>2
<1> QED
  BY <1>1, <1>2, PTL DEF MeterSpec

(* The bill is exact up to rounding and minimum, for all rates and times.  *)
THEOREM MeterIsExact == MeterSpec => []BillIsExact
<1>1. Shows => BillIsExact
  BY BillBounds DEF Shows, BillIsExact, Billable
<1> QED
  BY <1>1, ShowsInvariant, PTL

(* Pausing and moving change a bill by one agora per segment at most.      *)
THEOREM MeterSplits == MeterSpec => []SplittingIsNeutral
<1>1. Shows => SplittingIsNeutral
  <2> HAVE Shows
  <2>1. ASSUME NEW first \in 0 .. seconds
        PROVE  SegmentCharge(first, pricing) + SegmentCharge(seconds - first, pricing)
                 - SegmentCharge(seconds, pricing) \in -1 .. 1
    <3>1. first \in Nat /\ seconds - first \in Nat /\ first + (seconds - first) = seconds
      BY DEF Shows
    <3> QED
      BY <3>1, SplitIsNeutral DEF Shows
  <2> QED
    BY <2>1, Zenon DEF SplittingIsNeutral
<1> QED
  BY <1>1, ShowsInvariant, PTL

(* The bill never falls while the session goes on.                         *)
THEOREM MeterRises == MeterSpec => MoreUseNeverCostsLess
<1>1. Shows /\ [TimeRuns]_meterVars => [quote' >= quote]_meterVars
  <2> SUFFICES ASSUME Shows, TimeRuns PROVE quote' >= quote
    OBVIOUS
  <2>1. seconds' \in Nat /\ seconds <= seconds' /\ pricing' = pricing
    BY StepAssumption DEF TimeRuns, Shows
  <2>2. quote' = ComputeSessionCharge(seconds', pricing)
    BY DEF TimeRuns
  <2>3. seconds \in Nat /\ pricing \in Pricings /\ quote = ComputeSessionCharge(seconds, pricing)
    BY DEF Shows
  <2>4. seconds' <= seconds'
    BY <2>1
  <2>5. quote \in Nat /\ quote' \in Nat /\ quote <= quote'
    BY <2>1, <2>2, <2>3, <2>4, ChargeMonotone
  <2> QED
    BY <2>5
<1> QED
  BY <1>1, ShowsInvariant, PTL DEF MeterSpec, MoreUseNeverCostsLess

-------------------------------------------------------------------------------
(* Types.  They hold whatever the flags are: an operation that finds old   *)
(* rows, or overlaps another, still writes what belongs where it writes.   *)

(* Numbers up to a bound have a highest.                                   *)
LEMMA MaxOfBounded ==
  ASSUME NEW m \in Nat, NEW S \in SUBSET (0 .. m), S # {}
  PROVE  Max(S) \in 0 .. m
<1>1. PICK x \in S : \A y \in S : x >= y
  <2> SUFFICES ASSUME \A x \in S : \E y \in S : ~ (x >= y) PROVE FALSE
    OBVIOUS
  <2> DEFINE U == {n \in 0 .. m : \A y \in S : y <= m - n}
  <2>1. 0 \in U
    OBVIOUS
  <2>2. ASSUME NEW n \in 1 .. m, n - 1 \in U PROVE n \in U
    <3>1. \A y \in S : y \in 0 .. m /\ y <= m - n + 1
      BY <2>2
    <3>2. m - n + 1 \notin S
      BY <3>1
    <3>3. \A y \in S : y <= m - n
      BY <3>1, <3>2
    <3> QED
      BY <3>3
  <2>3. m \in U
    <3> HIDE DEF U
    <3>1. \A n \in 0 .. m : n \in U
      BY <2>1, <2>2, UpTo
    <3> QED
      BY <3>1
  <2>4. \A y \in S : y \in 0 .. m /\ y <= m - m
    BY <2>3
  <2>5. PICK x \in S : TRUE
    OBVIOUS
  <2> HIDE DEF U
  <2>6. \A y \in S : y = 0
    BY <2>4
  <2>7. \A y \in S : x >= y
    BY <2>5, <2>6
  <2> QED
    BY <2>5, <2>7
<1>2. Max(S) \in S
  BY <1>1 DEF Max
<1> QED
  BY <1>2

(* Consents: a version is one of those that may be created.                *)
Versions == 1 .. MaxVersions

ConsentTypes ==
  /\ documents \in Seq(Versions) /\ signed \in Seq(Versions)
  /\ request \in [Requests -> [step : {"none", "create", "sign"}, version : 0 .. MaxVersions]]
  /\ \A r \in Requests : request[r].step # "none" => request[r].version # 0

(* Versions are numbered within the bound.                                 *)
LEMMA ConsentsTyped == ConsentsSpec => []ConsentsTypeOK
<1>1. /\ NoRequest \in [step : {"none", "create", "sign"}, version : 0 .. MaxVersions]
      /\ NoRequest.step = "none"
  BY ConsentsAssumption DEF NoRequest
<1>2. ConsentsInit => ConsentTypes
  BY <1>1 DEF ConsentsInit, ConsentTypes
<1>3. ConsentTypes /\ [ConsentsNext]_consentVars => ConsentTypes'
  <2> SUFFICES ASSUME ConsentTypes, [ConsentsNext]_consentVars PROVE ConsentTypes'
    OBVIOUS
  <2>1. Active \in 0 .. MaxVersions /\ MaxVersions \in Nat
    <3> DEFINE S == {0} \cup {documents[i] : i \in DOMAIN documents}
    <3>1. \A x \in S : x \in 0 .. MaxVersions
      <4>1. \A i \in DOMAIN documents : documents[i] \in Versions
        BY DEF ConsentTypes
      <4> QED
        BY <4>1, ConsentsAssumption DEF Versions
    <3>2. S # {} /\ MaxVersions \in Nat
      BY ConsentsAssumption
    <3> HIDE DEF S
    <3>3. Max(S) \in 0 .. MaxVersions
      BY <3>1, <3>2, MaxOfBounded
    <3> QED
      BY <3>2, <3>3 DEF Active, S
  <2>2. ASSUME NEW r \in Requests, NEW step \in {"create", "sign"}, NEW version \in 1 .. MaxVersions,
               Reads(r, step, version)
        PROVE  ConsentTypes'
    BY <2>1, <2>2 DEF Reads, ConsentTypes
  <2>3. ASSUME NEW r \in Requests, CreateVersion(r) \/ ActiveFor(r) PROVE ConsentTypes'
    <3>1. Active + 1 \in 1 .. MaxVersions \/ Active >= MaxVersions
      BY <2>1
    <3>2. Active \in 1 .. MaxVersions \/ Active = 0
      BY <2>1
    <3> QED
      BY <2>1, <2>2, <2>3, <3>1, <3>2 DEF CreateVersion, ActiveFor
  <2>4. ASSUME NEW r \in Requests, documents' \in Seq(Versions), signed' \in Seq(Versions), Ends(r)
        PROVE  ConsentTypes'
    BY <1>1, <2>4 DEF Ends, ConsentTypes
  <2>5. ASSUME NEW r \in Requests, InsertVersion(r) PROVE ConsentTypes'
    <3>1. request[r].version \in Versions
      BY <2>1, <2>5 DEF InsertVersion, ConsentTypes, Versions
    <3>2. documents' = documents \/ documents' = Append(documents, request[r].version)
      BY <2>5 DEF InsertVersion
    <3>3. documents' \in Seq(Versions)
      <4>1. documents \in Seq(Versions)
        BY DEF ConsentTypes
      <4>2. Append(documents, request[r].version) \in Seq(Versions)
        BY <3>1, <4>1, AppendProperties
      <4> QED
        BY <3>2, <4>1, <4>2
    <3> QED
      BY <2>4, <2>5, <3>3 DEF InsertVersion, ConsentTypes
  <2>6. ASSUME NEW r \in Requests, Sign(r) \/ RequestDies(r) PROVE ConsentTypes'
    <3>1. documents' \in Seq(Versions) /\ Ends(r)
      BY <2>6 DEF Sign, RequestDies, ConsentTypes
    <3>2. request[r].step = "sign" => request[r].version \in Versions
      BY <2>1 DEF ConsentTypes, Versions
    <3>3. signed' \in Seq(Versions)
      <4>1. signed \in Seq(Versions)
        BY DEF ConsentTypes
      <4>2. CASE Sign(r)
        <5>1. Append(signed, request[r].version) \in Seq(Versions)
          BY <3>2, <4>1, <4>2, AppendProperties DEF Sign
        <5> QED
          BY <4>2, <5>1 DEF Sign
      <4>3. CASE RequestDies(r)
        BY <4>1, <4>3 DEF RequestDies
      <4> QED
        BY <2>6, <4>2, <4>3
    <3> QED
      BY <2>4, <3>1, <3>3
  <2>7. CASE UNCHANGED consentVars
    BY <2>7 DEF consentVars, ConsentTypes
  <2> QED
    BY <2>3, <2>5, <2>6, <2>7 DEF ConsentsNext
<1>4. ConsentTypes => ConsentsTypeOK
  <2>1. ConsentTypes => /\ \A i \in DOMAIN documents : documents[i] \in Versions
                        /\ \A i \in DOMAIN signed : signed[i] \in Versions
    BY DEF ConsentTypes
  <2> QED
    BY <2>1 DEF ConsentTypes, ConsentsTypeOK, Versions
<1> QED
  BY <1>2, <1>3, <1>4, PTL DEF ConsentsSpec

(* Reports: a report is of branches there are, and of the figures it still *)
(* has to read.                                                            *)
ReportTypes == ReportsTypeOK /\ {"left", "branches"} \subseteq DOMAIN report

(* Whatever rows come and whatever is asked for.                           *)
LEMMA ReportsTyped == ReportsInit /\ [][ReportsNext]_reportVars => []ReportsTypeOK
<1>1. ReportsInit => ReportTypes
  BY ReportsAssumption DEF ReportsInit, ReportTypes, ReportsTypeOK, NoReport
<1>2. ReportTypes /\ [ReportsNext]_reportVars => ReportTypes'
  <2> SUFFICES ASSUME ReportTypes, [ReportsNext]_reportVars PROVE ReportTypes'
    OBVIOUS
  <2>1. CASE UNCHANGED <<moment, report>>
    BY <2>1 DEF ReportTypes, ReportsTypeOK
  <2>2. CASE TimePasses
    BY <2>2, ReportsAssumption DEF TimePasses, ReportTypes, ReportsTypeOK
  <2>3. ASSUME NEW preset, NEW queries \in SUBSET Figures, AskFor(preset, queries) PROVE ReportTypes'
    <3>1. PICK branches \in {{}} \cup {{b} : b \in Branches} :
            report' = [NoReport EXCEPT !.preset = preset, !.asked = moment, !.branches = branches,
                                       !.left = queries]
      BY <2>3 DEF AskFor
    <3>2. {"left", "branches"} \subseteq DOMAIN report' /\ report'.left = queries /\ report'.branches = branches
      BY <3>1 DEF NoReport
    <3> QED
      BY <2>3, <3>2 DEF AskFor, ReportTypes, ReportsTypeOK
  <2>4. ASSUME NEW f, NEW sum, Read(f, sum) PROVE ReportTypes'
    BY <2>4 DEF Read, ReportTypes, ReportsTypeOK
  <2>5. (\E preset \in Presets : AskRevenue(preset)) \/ AskMetrics => ReportTypes'
    BY <2>3 DEF AskRevenue, AskMetrics, Figures
  <2>6. ReadUsage \/ ReadSales \/ ReadRefunds => ReportTypes'
    BY <2>4 DEF ReadUsage, ReadSales, ReadRefunds
  <2>7. UNCHANGED reportVars => UNCHANGED <<moment, report>>
    BY DEF reportVars
  <2>8. ASSUME NEW p, NEW amount, NEW b,
               \/ PayNow(amount) \/ PrepareCard(amount) \/ RefundSale(p, amount)
               \/ EndSession(b, amount) \/ SettleCard(p)
        PROVE  UNCHANGED <<moment, report>>
    BY <2>8 DEF PayNow, PrepareCard, RefundSale, EndSession, SettleCard
  <2> QED
    BY <2>1, <2>2, <2>5, <2>6, <2>7, <2>8 DEF ReportsNext
<1>3. ReportTypes => ReportsTypeOK
  BY DEF ReportTypes
<1> QED
  BY <1>1, <1>2, <1>3, PTL

(* Bootstrap: a role that has permissions is there, however many programs  *)
(* run at once and wherever they die, since no row is ever taken away.     *)
Made(k, there) == (k > 3 => there["OWNER"] > 0) /\ (k > 6 => there["CASHIER"] > 0)

BootstrapTypes ==
  /\ rows \in [Tenants -> [AllRows -> Nat]]
  /\ granted \in [Tenants -> SUBSET RoleKeys]
  /\ program \in [Programs -> [tenant : Tenants, left : Seq(StatementRow)]]
  /\ runs \in 0 .. MaxRuns
  /\ \A t \in Tenants : \A key \in granted[t] : rows[t][key] > 0
  /\ \A p \in Programs : Running(p) =>
       \E k \in 1 .. Len(Statements(program[p].tenant)) :
         /\ program[p].left = LeftFrom(k, Statements(program[p].tenant))
         /\ Made(k, rows[program[p].tenant])

(* Roles have rows.                                                       *)
LEMMA RoleRows == RoleKeys \subseteq AllRows
<1>1. "main" \in Tenants
  BY DEF Tenants
<1>2. /\ Len(Statements("main")) >= 10 /\ Len(Statements("main")) \in Nat
      /\ Statements("main")[3] = Upsert("OWNER") /\ Statements("main")[6] = Upsert("CASHIER")
  <2>1. InOrder(Statements("main"))
    BY <1>1, ProgramsInOrder
  <2> QED
    BY <2>1 DEF InOrder, Fits
<1>3. Statements("main")[3].row = "OWNER" /\ Statements("main")[6].row = "CASHIER"
  BY <1>2 DEF Upsert, Statement
<1>4. 3 \in 1 .. Len(Statements("main")) /\ 6 \in 1 .. Len(Statements("main"))
  BY <1>2
<1> QED
  BY <1>1, <1>3, <1>4, RowNames DEF RoleKeys

(* A program goes on, or has ended, and no row is gone.                    *)
LEMMA ProgramGoesOn ==
  ASSUME BootstrapTypes, NEW p \in Programs, NEW q \in [tenant : Tenants, left : Seq(StatementRow)],
         program' = [program EXCEPT ![p] = q], runs' \in 0 .. MaxRuns,
         rows' \in [Tenants -> [AllRows -> Nat]], granted' \in [Tenants -> SUBSET RoleKeys],
         \A t \in Tenants : \A r \in AllRows : rows'[t][r] >= rows[t][r],
         \A t \in Tenants : \A key \in granted'[t] : rows'[t][key] > 0,
         \/ q.left = << >>
         \/ \E k \in 1 .. Len(Statements(q.tenant)) :
              q.left = LeftFrom(k, Statements(q.tenant)) /\ Made(k, rows'[q.tenant])
  PROVE  BootstrapTypes'
<1>1. /\ program' \in [Programs -> [tenant : Tenants, left : Seq(StatementRow)]]
      /\ program'[p] = q /\ \A o \in Programs : o # p => program'[o] = program[o]
  BY DEF BootstrapTypes
<1>2. ASSUME NEW o \in Programs, program'[o].left # << >>
      PROVE  \E k \in 1 .. Len(Statements(program'[o].tenant)) :
               /\ program'[o].left = LeftFrom(k, Statements(program'[o].tenant))
               /\ Made(k, rows'[program'[o].tenant])
  <2>1. CASE o = p
    BY <1>1, <1>2, <2>1
  <2>2. CASE o # p
    <3>1. program'[o] = program[o] /\ Running(o) /\ program[o].tenant \in Tenants
      BY <1>1, <1>2, <2>2 DEF Running, BootstrapTypes
    <3>2. PICK k \in 1 .. Len(Statements(program[o].tenant)) :
            /\ program[o].left = LeftFrom(k, Statements(program[o].tenant))
            /\ Made(k, rows[program[o].tenant])
      BY <3>1 DEF BootstrapTypes
    <3>3. \A r \in RoleKeys :
            /\ rows[program[o].tenant][r] \in Nat /\ rows'[program[o].tenant][r] \in Nat
            /\ rows'[program[o].tenant][r] >= rows[program[o].tenant][r]
      BY <3>1, RoleRows DEF BootstrapTypes
    <3>4. Made(k, rows'[program[o].tenant])
      <4>1. "OWNER" \in RoleKeys /\ "CASHIER" \in RoleKeys
        BY DEF RoleKeys
      <4>2. \A r \in RoleKeys : rows[program[o].tenant][r] > 0 => rows'[program[o].tenant][r] > 0
        BY <3>3
      <4> QED
        BY <3>2, <4>1, <4>2 DEF Made
    <3> QED
      BY <3>1, <3>2, <3>4
  <2> QED
    BY <2>1, <2>2
<1> QED
  BY <1>1, <1>2 DEF BootstrapTypes, Running

(* Whoever starts, and however often.                                      *)
LEMMA BootstrapTyped == BootstrapSpec => []BootstrapTypeOK
<1> USE BootstrapAssumption
<1>1. NotRunning \in [tenant : Tenants, left : Seq(StatementRow)] /\ NotRunning.left = << >>
  BY DEF NotRunning, Tenants
<1>2. BootstrapInit => BootstrapTypes
  BY <1>1 DEF BootstrapInit, BootstrapTypes, Running
<1>3. ASSUME BootstrapTypes, NEW p \in Programs, NEW t \in Tenants, Start(p, t) PROVE BootstrapTypes'
  <2>1. PICK q : q = [tenant |-> t, left |-> Statements(t)]
    OBVIOUS
  <2>2. program' = [program EXCEPT ![p] = q] /\ UNCHANGED <<rows, granted>> /\ runs' \in 0 .. MaxRuns
    BY <1>3, <2>1 DEF Start, BootstrapTypes
  <2>3. /\ Statements(t) \in Seq(StatementRow) /\ Len(Statements(t)) \in Nat /\ 1 \in 1 .. Len(Statements(t))
        /\ Statements(t) = LeftFrom(1, Statements(t))
    BY ProgramsInOrder, FirstStatement
  <2>4. Made(1, rows'[t])
    BY DEF Made
  <2>5. q.tenant = t /\ q.left = Statements(t) /\ q \in [tenant : Tenants, left : Seq(StatementRow)]
    BY <2>1, <2>3
  <2>6. /\ rows' \in [Tenants -> [AllRows -> Nat]] /\ granted' \in [Tenants -> SUBSET RoleKeys]
        /\ \A u \in Tenants : \A r \in AllRows : rows'[u][r] >= rows[u][r]
        /\ \A u \in Tenants : \A key \in granted'[u] : rows'[u][key] > 0
    BY <1>3, <2>2 DEF BootstrapTypes
  <2>7. \E k \in 1 .. Len(Statements(q.tenant)) :
              q.left = LeftFrom(k, Statements(q.tenant)) /\ Made(k, rows'[q.tenant])
    BY <2>3, <2>4, <2>5
  <2> QED
    BY <1>3, <2>2, <2>5, <2>6, <2>7, ProgramGoesOn
<1>4. ASSUME BootstrapTypes, NEW p \in Programs, Execute(p) PROVE BootstrapTypes'
  <2> DEFINE t == program[p].tenant
             prog == Statements(t)
  <2>1. Running(p) /\ t \in Tenants /\ InOrder(prog)
    BY <1>4, ProgramsInOrder DEF Execute, BootstrapTypes
  <2>2. PICK k \in 1 .. Len(prog) : program[p].left = LeftFrom(k, prog) /\ Made(k, rows[t])
    BY <1>4, <2>1 DEF BootstrapTypes
  <2>3. PICK s : s = prog[k]
    OBVIOUS
  <2>4. Head(program[p].left) = s
    BY <2>1, <2>2, <2>3, StatementLeft
  <2>5. /\ rows' = (IF Adds(t, s) THEN [rows EXCEPT ![t][s.row] = rows[t][s.row] + 1] ELSE rows)
        /\ granted' = [granted EXCEPT ![t] = GrantedAfter(granted[t], s)]
        /\ program' = [program EXCEPT ![p] = IF Clashes(t, s) THEN NotRunning
                                             ELSE [tenant |-> t, left |-> Tail(program[p].left)]]
        /\ runs' = runs
    BY <1>4, <2>4 DEF Execute
  <2>6. /\ s \in StatementRow /\ s.row \in AllRows /\ k \in Nat
        /\ s.op = "grant" => (k = 5 /\ s.row = "OWNER") \/ (k = 8 /\ s.row = "CASHIER")
        /\ k = 3 => s.op = "upsert" /\ s.row = "OWNER"
        /\ k = 6 => s.op = "upsert" /\ s.row = "CASHIER"
    BY <2>1, <2>3, RowNames DEF InOrder, Fits, Upsert, Statement
  <2>7. PICK roles : roles = GrantedAfter(granted[t], s)
    OBVIOUS
  <2>8. PICK there : there = rows'[t]
    OBVIOUS
  <2>9. /\ granted[t] \subseteq RoleKeys /\ rows[t] \in [AllRows -> Nat]
        /\ \A key \in granted[t] : rows[t][key] > 0
    BY <1>4, <2>1 DEF BootstrapTypes
  <2>10. roles \subseteq granted[t] \/ (s.op = "grant" /\ roles = granted[t] \cup {s.row})
    BY <2>7 DEF GrantedAfter
  <2>11. /\ rows' \in [Tenants -> [AllRows -> Nat]] /\ \A u \in Tenants : u # t => rows'[u] = rows[u]
         /\ \A r \in AllRows : there[r] = IF r = s.row /\ Adds(t, s) THEN rows[t][r] + 1 ELSE rows[t][r]
    <3>1. rows \in [Tenants -> [AllRows -> Nat]] /\ t \in Tenants /\ s.row \in AllRows
      BY <1>4, <2>1, <2>6 DEF BootstrapTypes
    <3>2. rows' = (IF Adds(t, s) THEN [rows EXCEPT ![t][s.row] = rows[t][s.row] + 1] ELSE rows)
      BY <2>5
    <3> HIDE DEF t
    <3>3. CASE Adds(t, s)
      BY <2>8, <3>1, <3>2, <3>3
    <3>4. CASE ~ Adds(t, s)
      BY <2>8, <3>1, <3>2, <3>4
    <3> QED
      BY <3>3, <3>4
  <2>12. s.op = "upsert" /\ rows[t][s.row] = 0 => Adds(t, s)
    BY <2>6, <2>9 DEF Adds, Has
  <2>13. \A u \in Tenants : \A r \in AllRows : rows'[u][r] >= rows[u][r]
    <3> SUFFICES ASSUME NEW u \in Tenants, NEW r \in AllRows PROVE rows'[u][r] >= rows[u][r]
      OBVIOUS
    <3>1. rows[u][r] \in Nat /\ rows'[u][r] \in Nat
      BY <1>4, <2>11 DEF BootstrapTypes
    <3>2. CASE u = t
      BY <2>8, <2>11, <3>1, <3>2
    <3>3. CASE u # t
      BY <2>11, <3>1, <3>3
    <3> QED
      BY <3>2, <3>3
  <2> HIDE DEF t, prog
  <2>14. {"OWNER", "CASHIER"} \subseteq AllRows
    BY RoleRows DEF RoleKeys
  <2>15. Made(k + 1, there)
    <3>1. k + 1 > 3 => there["OWNER"] > 0
      BY <2>2, <2>6, <2>9, <2>11, <2>12, <2>14 DEF Made
    <3>2. k + 1 > 6 => there["CASHIER"] > 0
      BY <2>2, <2>6, <2>9, <2>11, <2>12, <2>14 DEF Made
    <3> QED
      BY <3>1, <3>2 DEF Made
  <2>16. /\ granted' \in [Tenants -> SUBSET RoleKeys]
         /\ granted'[t] = roles /\ \A u \in Tenants : u # t => granted'[u] = granted[u]
    <3>1. roles \in SUBSET RoleKeys /\ granted \in [Tenants -> SUBSET RoleKeys]
      BY <1>4, <2>6, <2>9, <2>10 DEF RoleKeys, BootstrapTypes
    <3> QED
      BY <2>1, <2>5, <2>7, <3>1
  <2>17. \A u \in Tenants : \A key \in granted'[u] : rows'[u][key] > 0
    <3> SUFFICES ASSUME NEW u \in Tenants, NEW key \in granted'[u] PROVE rows'[u][key] > 0
      OBVIOUS
    <3>1. CASE u # t
      BY <1>4, <2>11, <2>16, <3>1 DEF BootstrapTypes
    <3>2. CASE u = t /\ key \in granted[t]
      <4>1. key \in AllRows /\ rows[t][key] > 0 /\ rows[t][key] \in Nat /\ there[key] >= rows[t][key] /\ there[key] \in Nat
        BY <2>1, <2>8, <2>9, <2>11, <2>13, <3>2, RoleRows
      <4> QED
        BY <2>8, <3>2, <4>1
    <3>3. CASE u = t /\ key \notin granted[t]
      <4>1. s.op = "grant" /\ key = s.row
        BY <2>10, <2>16, <3>3
      <4> QED
        BY <2>2, <2>6, <2>8, <2>15, <3>3, <4>1 DEF Made
    <3> QED
      BY <3>1, <3>2, <3>3
  <2>18. PICK q : q = IF Clashes(t, s) THEN NotRunning ELSE [tenant |-> t, left |-> Tail(program[p].left)]
    OBVIOUS
  <2>19. /\ program[p] \in [tenant : Tenants, left : Seq(StatementRow)] /\ program[p].left # << >>
         /\ Tail(program[p].left) \in Seq(StatementRow)
    <3>1. program[p] \in [tenant : Tenants, left : Seq(StatementRow)] /\ program[p].left # << >>
      BY <1>4, <2>1 DEF BootstrapTypes, Running
    <3> QED
      BY <3>1, HeadTailProperties
  <2>20. /\ q \in [tenant : Tenants, left : Seq(StatementRow)]
         /\ q.left = << >> \/ (q.tenant = t /\ q.left = Tail(program[p].left))
    BY <1>1, <2>1, <2>18, <2>19
  <2>21. program' = [program EXCEPT ![p] = q] /\ runs' \in 0 .. MaxRuns
    BY <1>4, <2>5, <2>18 DEF BootstrapTypes
  <2>22. q.left # << >> =>
           \E i \in 1 .. Len(Statements(q.tenant)) :
             q.left = LeftFrom(i, Statements(q.tenant)) /\ Made(i, rows'[q.tenant])
    <3> SUFFICES ASSUME q.left # << >>
                 PROVE  \E i \in 1 .. Len(Statements(q.tenant)) :
                          q.left = LeftFrom(i, Statements(q.tenant)) /\ Made(i, rows'[q.tenant])
      OBVIOUS
    <3>1. q.tenant = t /\ q.left = Tail(LeftFrom(k, prog)) /\ Len(prog) \in Nat
      BY <2>1, <2>2, <2>20 DEF InOrder
    <3>2. k # Len(prog) /\ q.left = LeftFrom(k + 1, prog)
      BY <2>1, <2>2, <3>1, StatementLeft
    <3>3. k + 1 \in 1 .. Len(Statements(t)) /\ prog = Statements(t)
      BY <2>2, <3>1, <3>2 DEF prog
    <3> QED
      BY <2>8, <2>15, <3>1, <3>2, <3>3
  <2> QED
    BY <1>4, <2>11, <2>13, <2>16, <2>17, <2>20, <2>21, <2>22, ProgramGoesOn
<1>5. ASSUME BootstrapTypes, NEW p \in Programs, ProgramDies(p) PROVE BootstrapTypes'
  <2>1. program' = [program EXCEPT ![p] = NotRunning] /\ UNCHANGED <<rows, granted, runs>>
    BY <1>5 DEF ProgramDies
  <2>2. /\ rows' \in [Tenants -> [AllRows -> Nat]] /\ granted' \in [Tenants -> SUBSET RoleKeys]
        /\ \A u \in Tenants : \A r \in AllRows : rows'[u][r] >= rows[u][r]
        /\ \A u \in Tenants : \A key \in granted'[u] : rows'[u][key] > 0
        /\ runs' \in 0 .. MaxRuns
    BY <1>5, <2>1 DEF BootstrapTypes
  <2> QED
    BY <1>1, <1>5, <2>1, <2>2, ProgramGoesOn
<1>6. BootstrapTypes /\ UNCHANGED bootstrapVars => BootstrapTypes'
  BY DEF BootstrapTypes, bootstrapVars, Running
<1>7. BootstrapTypes /\ [BootstrapNext]_bootstrapVars => BootstrapTypes'
  BY <1>3, <1>4, <1>5, <1>6 DEF BootstrapNext
<1>8. BootstrapTypes => BootstrapTypeOK
  BY DEF BootstrapTypes, BootstrapTypeOK, Has
<1> QED
  BY <1>2, <1>7, <1>8, PTL DEF BootstrapSpec

(* Numbers: whatever is drawn, and by however many at once, is one of the  *)
(* numbers there are.                                                      *)
Numerals == 1 .. MaxNumber

NumberTypes ==
  /\ {invoiceNumberSeq, customerNumberSeq, aborts} \subseteq Nat
  /\ invoices \in Seq(Numerals) /\ customers \in Seq(Numerals)
  /\ tickets \in Seq(Numerals) /\ queue \in Seq(Numerals)
  /\ writer \in [Writers -> Written]
  /\ \A w \in Writers : writer[w].step # "away" => writer[w].number \in Numerals

(* Numbers that were drawn have a highest.                                 *)
LEMMA HighestDrawn ==
  ASSUME NEW numbers \in Seq(Numerals) PROVE Highest(numbers) \in Nat
<1> DEFINE S == {0} \cup {numbers[i] : i \in 1 .. Len(numbers)}
<1>1. \A x \in S : x \in 0 .. MaxNumber
  <2>1. \A i \in 1 .. Len(numbers) : numbers[i] \in Numerals
    OBVIOUS
  <2> QED
    BY <2>1, NumbersAssumption DEF Numerals
<1>2. S # {} /\ MaxNumber \in Nat
  BY NumbersAssumption
<1> HIDE DEF S
<1>3. Max(S) \in 0 .. MaxNumber
  BY <1>1, <1>2, MaxOfBounded
<1> QED
  BY <1>2, <1>3 DEF Highest, S

(* Whoever draws and whoever leaves.                                       *)
LEMMA NumbersTyped == NumbersSpec => []NumbersTypeOK
<1> USE NumbersAssumption
<1>1. NumbersInit => NumberTypes
  BY DEF NumbersInit, NumberTypes, Away, Written, Steps
<1>2. NumberTypes /\ [NumbersNext]_numberVars => NumberTypes'
  <2> SUFFICES ASSUME NumberTypes, [NumbersNext]_numberVars PROVE NumberTypes'
    OBVIOUS
  <2>1. ASSUME NEW w \in Writers, NEW step \in Steps, NEW number \in Nat, number # 0, Draw(w, step, number)
        PROVE  /\ writer' \in [Writers -> Written]
               /\ \A v \in Writers : writer'[v].step # "away" => writer'[v].number \in Numerals
    <3>1. number \in Numerals /\ [step |-> step, number |-> number] \in Written
      BY <2>1 DEF Draw, Numerals, Written
    <3>2. writer' = [writer EXCEPT ![w] = [step |-> step, number |-> number]]
      BY <2>1 DEF Draw
    <3> QED
      BY <3>1, <3>2 DEF NumberTypes
  <2>2. ASSUME NEW w \in Writers, Leave(w)
        PROVE  /\ writer' \in [Writers -> Written]
               /\ \A v \in Writers : writer'[v].step # "away" => writer'[v].number \in Numerals
    <3>1. Away \in Written /\ Away.step = "away" /\ writer' = [writer EXCEPT ![w] = Away]
      BY <2>2 DEF Leave, Away, Written, Steps
    <3> QED
      BY <3>1 DEF NumberTypes
  <2>3. ASSUME NEW numbers \in Seq(Numerals), NEW w \in Writers, writer[w].step # "away"
        PROVE  Append(numbers, writer[w].number) \in Seq(Numerals)
    <3>1. writer[w].number \in Numerals
      BY <2>3 DEF NumberTypes
    <3> QED
      BY <3>1
  <2>4. ASSUME NEW w \in Writers, IssueInvoice(w) \/ NextCustomerNumber(w) \/ ImportLine(w)
        PROVE  NumberTypes'
    <3>1. PICK step \in Steps, number \in Nat : number # 0 /\ Draw(w, step, number)
      <4>1. invoiceNumberSeq + 1 \in Nat /\ customerNumberSeq + 1 \in Nat
            /\ invoiceNumberSeq + 1 # 0 /\ customerNumberSeq + 1 # 0
        BY DEF NumberTypes
      <4> QED
        BY <2>4, <4>1 DEF IssueInvoice, NextCustomerNumber, ImportLine, Steps
    <3>2. /\ writer' \in [Writers -> Written]
          /\ \A v \in Writers : writer'[v].step # "away" => writer'[v].number \in Numerals
      BY <2>1, <3>1
    <3> QED
      BY <2>4, <3>2 DEF IssueInvoice, NextCustomerNumber, ImportLine, NumberTypes
  <2>5. ASSUME NEW w \in Writers, OpenTicket(w) \/ Join(w)
        PROVE  NumberTypes'
    <3>1. PICK step \in Steps, number \in Nat : number # 0 /\ Draw(w, step, number)
      <4>1. Highest(tickets) \in Nat /\ Highest(queue) \in Nat
        BY HighestDrawn DEF NumberTypes
      <4>2. Highest(tickets) + 1 \in Nat /\ Highest(tickets) + 1 # 0 /\ AfterTheLast \in Nat /\ AfterTheLast # 0
        BY <4>1 DEF AfterTheLast
      <4> QED
        BY <2>5, <4>2 DEF OpenTicket, Join, Steps
    <3>2. /\ writer' \in [Writers -> Written]
          /\ \A v \in Writers : writer'[v].step # "away" => writer'[v].number \in Numerals
      BY <2>1, <3>1
    <3> QED
      BY <2>5, <3>2 DEF OpenTicket, Join, NumberTypes
  <2>6. ASSUME NEW w \in Writers,
               CommitInvoice(w) \/ CreateCustomer(w) \/ EndLine(w) \/ CreateTicket(w) \/ CreateEntry(w)
        PROVE  NumberTypes'
    <3>1. writer[w].step # "away" /\ Leave(w)
      BY <2>6 DEF CommitInvoice, CreateCustomer, EndLine, CreateTicket, CreateEntry
    <3>2. /\ writer' \in [Writers -> Written]
          /\ \A v \in Writers : writer'[v].step # "away" => writer'[v].number \in Numerals
      BY <2>2, <3>1
    <3>3. /\ Append(invoices, writer[w].number) \in Seq(Numerals)
          /\ Append(customers, writer[w].number) \in Seq(Numerals)
          /\ Append(tickets, writer[w].number) \in Seq(Numerals)
          /\ Append(queue, writer[w].number) \in Seq(Numerals)
      BY <2>3, <3>1 DEF NumberTypes
    <3>4. writer[w].number \in Nat
      BY DEF NumberTypes, Written
    <3>5. /\ invoices' \in {invoices, Append(invoices, writer[w].number)}
          /\ customers' \in {customers, Append(customers, writer[w].number)}
          /\ tickets' \in {tickets, Append(tickets, writer[w].number)}
          /\ queue' \in {queue, Append(queue, writer[w].number)}
          /\ invoiceNumberSeq' \in {invoiceNumberSeq, writer[w].number}
          /\ UNCHANGED <<customerNumberSeq, aborts>>
      BY <2>6 DEF CommitInvoice, CreateCustomer, EndLine, CreateTicket, CreateEntry
    <3> QED
      BY <3>2, <3>3, <3>4, <3>5 DEF NumberTypes
  <2>7. ASSUME NEW w \in Writers, Die(w) PROVE NumberTypes'
    <3>1. /\ Leave(w) /\ aborts' \in Nat
          /\ UNCHANGED <<invoiceNumberSeq, customerNumberSeq, invoices, customers, tickets, queue>>
      BY <2>7 DEF Die, NumberTypes
    <3>2. /\ writer' \in [Writers -> Written]
          /\ \A v \in Writers : writer'[v].step # "away" => writer'[v].number \in Numerals
      BY <2>2, <3>1
    <3> QED
      BY <3>1, <3>2 DEF NumberTypes
  <2>8. ASSUME NEW i \in 1 .. Len(queue), LeaveQueue(i) PROVE NumberTypes'
    <3>1. queue \in Seq(Nat) /\ \A j \in 1 .. Len(queue) : queue[j] \in Numerals
      <4>1. queue \in Seq(Numerals) /\ Numerals \subseteq Nat
        BY DEF NumberTypes, Numerals
      <4>2. \A j \in 1 .. Len(queue) : queue[j] \in Numerals
        BY <4>1
      <4>3. \A j \in 1 .. Len(queue) : queue[j] \in Nat
        BY <4>2 DEF Numerals
      <4> QED
        BY <4>1, <4>2, <4>3
    <3>2. PICK rest : rest = SubSeq(queue, 1, i - 1) \o SubSeq(queue, i + 1, Len(queue))
      OBVIOUS
    <3>3. /\ rest \in Seq(Nat) /\ Len(rest) = Len(queue) - 1
          /\ \A j \in 1 .. Len(queue) - 1 : rest[j] = IF j < i THEN queue[j] ELSE queue[j + 1]
      BY <3>1, <3>2, EntryLeaves
    <3>4. \A j \in 1 .. Len(rest) : rest[j] \in Numerals
      <4>1. Len(queue) \in Nat
        BY <3>1
      <4> SUFFICES ASSUME NEW j \in 1 .. Len(queue) - 1 PROVE rest[j] \in Numerals
        BY <3>3, <4>1
      <4>2. j \in 1 .. Len(queue) /\ j + 1 \in 1 .. Len(queue)
        BY <4>1
      <4> QED
        BY <3>1, <3>3, <4>2
    <3>5. rest \in Seq(Numerals)
      <4>1. DOMAIN rest = 1 .. Len(rest) /\ Len(rest) \in Nat /\ rest = [j \in 1 .. Len(rest) |-> rest[j]]
        BY <3>1, <3>3
      <4> QED
        BY <3>4, <4>1
    <3> QED
      BY <2>8, <3>2, <3>5 DEF LeaveQueue, NumberTypes
  <2>9. CASE UNCHANGED numberVars
    BY <2>9 DEF numberVars, NumberTypes
  <2> QED
    BY <2>4, <2>5, <2>6, <2>7, <2>8, <2>9 DEF NumbersNext
<1>3. NumberTypes => NumbersTypeOK
  <2> SUFFICES ASSUME NumberTypes PROVE NumbersTypeOK
    OBVIOUS
  <2>1. ASSUME NEW s \in Seq(Numerals) PROVE s \in Seq(Nat \ {0})
    <3>1. \A i \in 1 .. Len(s) : s[i] \in Numerals
      OBVIOUS
    <3>2. \A i \in 1 .. Len(s) : s[i] \in Nat \ {0}
      BY <3>1 DEF Numerals
    <3> QED
      BY <3>2
  <2>2. {invoices, customers, tickets, queue} \subseteq Seq(Nat \ {0})
    BY <2>1 DEF NumberTypes
  <2> QED
    BY <2>2 DEF NumberTypes, NumbersTypeOK, Written, Steps
<1> QED
  BY <1>1, <1>2, <1>3, PTL DEF NumbersSpec

EntryRows == [shift : Nat, kind : Kinds, amount : Int, while : BOOLEAN]
DeskRows == [step : {"free", "create", "close"} \cup MovementTypes, till : Registers \cup {"none"},
             shift : Nat, amount : Int, expected : Int]

CashRows ==
  /\ shifts \in Seq(Shift) /\ entries \in Seq(EntryRows) /\ desk \in [Clerks -> DeskRows]
  /\ \A i \in 1 .. Len(entries) : entries[i].shift \in Shifts

(* The sums as sums of what each entry counts for.                         *)
Share(s) == [e \in EntryRows |-> IF e.shift = s THEN Signed(e) ELSE 0]
ShareOf(s, kind) == [e \in EntryRows |-> IF e.shift = s /\ e.kind = kind /\ e.while THEN e.amount ELSE 0]

(* What an entry counts for, by its kind.                                  *)
LEMMA SignedAmount ==
  ASSUME NEW e \in EntryRows
  PROVE  /\ Signed(e) \in Int
         /\ e.kind \in {"OPENING_FLOAT", "DEPOSIT", "CASH_SALE"} => Signed(e) = e.amount
         /\ e.kind \in {"PAYOUT", "DROP", "REFUND"} => Signed(e) = - e.amount
         /\ e.kind = "COUNT" => Signed(e) = 0
BY DEF EntryRows, Kinds, MovementTypes, Signed

(* The sums of the model are sums of what each entry counts for.           *)
LEMMA SumsAreMapped ==
  ASSUME NEW q \in Seq(EntryRows), NEW s
  PROVE  /\ Share(s) \in [EntryRows -> Int]
         /\ [n \in 1 .. Len(q) |-> IF q[n].shift = s THEN Signed(q[n]) ELSE 0] = Mapped(Share(s), q)
         /\ \A kind \in Kinds :
              /\ ShareOf(s, kind) \in [EntryRows -> Int]
              /\ [n \in 1 .. Len(q) |-> IF q[n].shift = s /\ q[n].kind = kind /\ q[n].while
                                        THEN q[n].amount ELSE 0]
                 = Mapped(ShareOf(s, kind), q)
<1>1. \A e \in EntryRows : Signed(e) \in Int
  BY SignedAmount
<1>2. \A e \in EntryRows : e.amount \in Int
  BY DEF EntryRows
<1>3. Len(q) \in Nat /\ \A n \in 1 .. Len(q) : q[n] \in EntryRows
  OBVIOUS
<1>4. Share(s) \in [EntryRows -> Int]
  BY <1>1 DEF Share
<1>5. ASSUME NEW kind \in Kinds PROVE ShareOf(s, kind) \in [EntryRows -> Int]
  BY <1>2 DEF ShareOf
<1>6. \A n \in 1 .. Len(q) : Share(s)[q[n]] = IF q[n].shift = s THEN Signed(q[n]) ELSE 0
  BY <1>3 DEF Share
<1>7. \A kind \in Kinds : \A n \in 1 .. Len(q) :
        ShareOf(s, kind)[q[n]] = IF q[n].shift = s /\ q[n].kind = kind /\ q[n].while THEN q[n].amount ELSE 0
  BY <1>3 DEF ShareOf
<1>8. [n \in 1 .. Len(q) |-> IF q[n].shift = s THEN Signed(q[n]) ELSE 0] = Mapped(Share(s), q)
  BY <1>6, Zenon DEF Mapped
<1>9. ASSUME NEW kind \in Kinds
      PROVE  [n \in 1 .. Len(q) |-> IF q[n].shift = s /\ q[n].kind = kind /\ q[n].while
                                    THEN q[n].amount ELSE 0]
             = Mapped(ShareOf(s, kind), q)
  BY <1>7, Zenon DEF Mapped
<1> QED
  BY <1>4, <1>5, <1>8, <1>9, Zenon

(* The sums of a shift after another entry.                                *)
LEMMA SumsGrow ==
  ASSUME CashRows, NEW e \in EntryRows, NEW s
  PROVE  /\ ExpectedCash(s) \in Int /\ \A kind \in Kinds : SumOfKind(s, kind) \in Int
         /\ entries' = Append(entries, e) =>
              /\ ExpectedCash(s)' = ExpectedCash(s) + IF e.shift = s THEN Signed(e) ELSE 0
              /\ \A kind \in Kinds :
                   SumOfKind(s, kind)' =
                     SumOfKind(s, kind) + IF e.shift = s /\ e.kind = kind /\ e.while THEN e.amount ELSE 0
<1>1. entries \in Seq(EntryRows)
  BY DEF CashRows
<1>2. Append(entries, e) \in Seq(EntryRows)
  BY <1>1, AppendProperties
<1>3. Share(s) \in [EntryRows -> Int] /\ \A kind \in Kinds : ShareOf(s, kind) \in [EntryRows -> Int]
  BY <1>1, SumsAreMapped
<1>4. ExpectedCash(s) = SumOf(Mapped(Share(s), entries))
      /\ \A kind \in Kinds : SumOfKind(s, kind) = SumOf(Mapped(ShareOf(s, kind), entries))
  BY <1>1, SumsAreMapped, Zenon DEF ExpectedCash, SumOfKind
<1>5. SumOf(Mapped(Share(s), entries)) \in Int
      /\ SumOf(Mapped(Share(s), Append(entries, e))) = SumOf(Mapped(Share(s), entries)) + Share(s)[e]
  BY <1>1, <1>3, SumMapped
<1>6. ASSUME NEW kind \in Kinds
      PROVE  /\ SumOf(Mapped(ShareOf(s, kind), entries)) \in Int
             /\ SumOf(Mapped(ShareOf(s, kind), Append(entries, e)))
                  = SumOf(Mapped(ShareOf(s, kind), entries)) + ShareOf(s, kind)[e]
  BY <1>1, <1>3, SumMapped
<1>7. Share(s)[e] = (IF e.shift = s THEN Signed(e) ELSE 0)
      /\ \A kind \in Kinds :
           ShareOf(s, kind)[e] = IF e.shift = s /\ e.kind = kind /\ e.while THEN e.amount ELSE 0
  BY DEF Share, ShareOf
<1>8. ASSUME entries' = Append(entries, e)
      PROVE  /\ ExpectedCash(s)' = SumOf(Mapped(Share(s), Append(entries, e)))
             /\ \A kind \in Kinds :
                  SumOfKind(s, kind)' = SumOf(Mapped(ShareOf(s, kind), Append(entries, e)))
  <2>1. entries' \in Seq(EntryRows)
    BY <1>2, <1>8
  <2>2. /\ ExpectedCash(s)' = SumOf(Mapped(Share(s), entries'))
        /\ \A kind \in Kinds : SumOfKind(s, kind)' = SumOf(Mapped(ShareOf(s, kind), entries'))
    BY <2>1, SumsAreMapped, Zenon DEF ExpectedCash, SumOfKind
  <2> QED
    BY <1>8, <2>2
<1>9. ExpectedCash(s) \in Int /\ \A kind \in Kinds : SumOfKind(s, kind) \in Int
  BY <1>4, <1>5, <1>6, Zenon
<1>10. ASSUME entries' = Append(entries, e)
       PROVE  ExpectedCash(s)' = ExpectedCash(s) + IF e.shift = s THEN Signed(e) ELSE 0
  BY <1>4, <1>5, <1>7, <1>8, <1>10, Zenon
<1>11. ASSUME entries' = Append(entries, e), NEW kind \in Kinds
       PROVE  SumOfKind(s, kind)' =
                SumOfKind(s, kind) + IF e.shift = s /\ e.kind = kind /\ e.while THEN e.amount ELSE 0
  BY <1>4, <1>6, <1>7, <1>8, <1>11, Zenon
<1> QED
  BY <1>9, <1>10, <1>11, Zenon

(* The sums are numbers.                                                   *)
LEMMA CashTyped ==
  ASSUME CashRows, NEW s
  PROVE  ExpectedCash(s) \in Int /\ \A kind \in Kinds : SumOfKind(s, kind) \in Int
<1> DEFINE e == [shift |-> 0, kind |-> "COUNT", amount |-> 0, while |-> TRUE]
<1>1. e \in EntryRows
  BY DEF EntryRows, Kinds, MovementTypes
<1> HIDE DEF e
<1> QED
  BY <1>1, SumsGrow

(* The rows one by one.                                                    *)
LEMMA RowsOfShifts ==
  ASSUME CashRows
  PROVE  /\ Len(shifts) \in Nat /\ Len(entries) \in Nat
         /\ \A s \in Shifts : shifts[s] \in Shift /\ shifts[s].register \in Registers /\ s \in Nat
         /\ \A c \in Clerks : desk[c] \in DeskRows
<1>1. shifts \in Seq(Shift) /\ entries \in Seq(EntryRows) /\ desk \in [Clerks -> DeskRows]
  BY DEF CashRows
<1>2. ASSUME NEW s \in Shifts PROVE shifts[s] \in Shift /\ s \in Nat
  BY <1>1 DEF Shifts
<1>3. \A record \in Shift : record.register \in Registers
  BY DEF Shift
<1> QED
  BY <1>1, <1>2, <1>3

(* The drawer: a request is for a shift there is, whether or not another   *)
(* has closed it meanwhile.                                                *)
Placed(req, n) ==
  /\ req.shift \in 0 .. n
  /\ req.step \in MovementTypes \cup {"close"} => req.shift # 0
  /\ req.step = "create" => req.till \in Registers

CashTypes == CashRows /\ \A c \in Clerks : Placed(desk[c], Len(shifts))

(* What a step may write: shifts become more, an entry is of one of them,  *)
(* and so is the request of the clerk who took the step.                   *)
LEMMA CashWritten ==
  ASSUME CashTypes, NEW c \in Clerks, NEW req \in DeskRows, NEW e \in EntryRows,
         shifts' \in Seq(Shift), Len(shifts') >= Len(shifts),
         entries' = entries \/ (entries' = Append(entries, e) /\ e.shift \in 1 .. Len(shifts')),
         desk' = [desk EXCEPT ![c] = req] \/ desk' = desk, Placed(req, Len(shifts'))
  PROVE  CashTypes'
<1>1. /\ entries \in Seq(EntryRows) /\ Len(entries) \in Nat /\ desk \in [Clerks -> DeskRows]
      /\ Len(shifts) \in Nat /\ Len(shifts') \in Nat
      /\ \A i \in 1 .. Len(entries) : entries[i].shift \in 1 .. Len(shifts')
  <2>1. /\ entries \in Seq(EntryRows) /\ desk \in [Clerks -> DeskRows] /\ shifts \in Seq(Shift)
        /\ \A i \in 1 .. Len(entries) : entries[i].shift \in 1 .. Len(shifts)
    BY DEF CashTypes, CashRows, Shifts
  <2>2. Len(entries) \in Nat /\ Len(shifts) \in Nat /\ Len(shifts') \in Nat
    BY <2>1
  <2>3. 1 .. Len(shifts) \subseteq 1 .. Len(shifts')
    BY <2>2
  <2> QED
    BY <2>1, <2>2, <2>3
<1>2. desk' \in [Clerks -> DeskRows] /\ \A d \in Clerks : desk'[d] = desk[d] \/ desk'[d] = req
  BY <1>1
<1>3. ASSUME NEW d \in Clerks PROVE Placed(desk'[d], Len(shifts'))
  <2>1. Placed(desk[d], Len(shifts'))
    BY <1>1 DEF CashTypes, Placed
  <2> QED
    BY <1>2, <2>1
<1>4. entries' \in Seq(EntryRows) /\ \A i \in 1 .. Len(entries') : entries'[i].shift \in 1 .. Len(shifts')
  <2>1. CASE entries' = entries
    BY <1>1, <2>1
  <2>2. CASE entries' = Append(entries, e) /\ e.shift \in 1 .. Len(shifts')
    <3>1. /\ entries' \in Seq(EntryRows) /\ Len(entries') = Len(entries) + 1 /\ entries'[Len(entries) + 1] = e
          /\ \A i \in 1 .. Len(entries) : entries'[i] = entries[i]
      BY <1>1, <2>2, AppendProperties
    <3>2. \A i \in 1 .. Len(entries') : i \in 1 .. Len(entries) \/ i = Len(entries) + 1
      BY <1>1, <3>1
    <3> QED
      BY <1>1, <2>2, <3>1, <3>2
  <2> QED
    BY <2>1, <2>2
<1> QED
  BY <1>2, <1>3, <1>4 DEF CashTypes, CashRows, Shifts

(* Whatever is done at a register, and by however many.                    *)
LEMMA DrawerTyped == CashSpec => []CashTypeOK
<1> USE CashAssumption
<1>1. AtDesk \in DeskRows /\ AtDesk.shift = 0 /\ \A n \in Nat : Placed(AtDesk, n)
  BY DEF AtDesk, DeskRows, Placed, MovementTypes
<1>2. CashInit => CashTypes
  <2> SUFFICES ASSUME CashInit PROVE CashTypes
    OBVIOUS
  <2>1. shifts \in Seq(Shift) /\ entries \in Seq(EntryRows) /\ Len(shifts) \in Nat /\ Len(entries) = 0
    BY DEF CashInit
  <2> QED
    BY <1>1, <2>1 DEF CashInit, CashTypes, CashRows
<1>3. CashTypes /\ [CashNext]_cashVars => CashTypes'
  <2> SUFFICES ASSUME CashTypes, [CashNext]_cashVars PROVE CashTypes'
    OBVIOUS
  <2>1. /\ CashRows /\ shifts \in Seq(Shift) /\ Len(shifts) \in Nat
        /\ \A s \in Shifts : shifts[s] \in Shift /\ shifts[s].register \in Registers /\ s \in Nat
        /\ \A c \in Clerks : desk[c] \in DeskRows /\ Placed(desk[c], Len(shifts))
    BY RowsOfShifts DEF CashTypes, CashRows
  <2>2. \A x : IsOpen(x) \in BOOLEAN
    BY DEF IsOpen
  <2>3. PICK none \in EntryRows : TRUE
    <3>1. [shift |-> 0, kind |-> "COUNT", amount |-> 0, while |-> TRUE] \in EntryRows
      BY DEF EntryRows, Kinds, MovementTypes
    <3> QED
      BY <3>1
  <2>4. ASSUME NEW c \in Clerks, NEW r \in Registers, NEW req \in DeskRows, Placed(req, Len(shifts)),
               Begin(c, r, req), UNCHANGED <<shifts, entries>>
        PROVE  CashTypes'
    <3>1. PICK at : at = [req EXCEPT !.till = r]
      OBVIOUS
    <3>2. /\ at \in DeskRows /\ at.shift = req.shift /\ at.step = req.step /\ at.till = r
          /\ desk' = [desk EXCEPT ![c] = at]
      BY <2>4, <3>1 DEF DeskRows, Begin
    <3>3. Placed(at, Len(shifts))
      BY <2>4, <3>2 DEF Placed
    <3>4. /\ shifts' \in Seq(Shift) /\ Len(shifts') >= Len(shifts) /\ entries' = entries
          /\ Placed(at, Len(shifts'))
      BY <2>1, <2>4, <3>3
    <3> QED
      BY <2>3, <3>2, <3>4, CashWritten
  <2>13. Sums \subseteq Int
    BY DEF CashTypes
  <2>5. ASSUME NEW c \in Clerks, NEW r \in Registers, NEW amount \in Sums, OpenShift(c, r, amount)
        PROVE  CashTypes'
    <3>1. PICK req : req = [AtDesk EXCEPT !.step = "create", !.amount = amount]
      OBVIOUS
    <3>2. req \in DeskRows /\ req.step = "create" /\ req.shift = 0
      BY <1>1, <2>13, <3>1 DEF DeskRows
    <3>3. Begin(c, r, req) /\ UNCHANGED <<shifts, entries>>
      BY <2>5, <3>1 DEF OpenShift
    <3>4. PICK at : at = [req EXCEPT !.till = r]
      OBVIOUS
    <3>5. /\ at \in DeskRows /\ at.shift = 0 /\ at.step = "create" /\ at.till = r
          /\ desk' = [desk EXCEPT ![c] = at]
      BY <3>2, <3>3, <3>4 DEF DeskRows, Begin
    <3>6. Placed(at, Len(shifts))
      BY <2>1, <3>5 DEF Placed, MovementTypes
    <3>7. /\ shifts' \in Seq(Shift) /\ Len(shifts') >= Len(shifts) /\ entries' = entries
          /\ Placed(at, Len(shifts'))
      BY <2>1, <3>3, <3>6
    <3> QED
      BY <2>3, <3>5, <3>7, CashWritten
  <2>6. ASSUME NEW c \in Clerks, NEW s \in Shifts, NEW type \in MovementTypes, NEW amount \in Sums,
               Movement(c, s, type, amount)
        PROVE  CashTypes'
    <3>1. PICK req : req = [AtDesk EXCEPT !.step = type, !.shift = s, !.amount = amount]
      OBVIOUS
    <3>2. req \in DeskRows /\ req.step = type /\ req.shift = s
      <4>1. type \in {"free", "create", "close"} \cup MovementTypes /\ s \in Nat /\ amount \in Int
        BY <2>1, <2>13
      <4> QED
        BY <1>1, <3>1, <4>1 DEF DeskRows
    <3>3. Placed(req, Len(shifts))
      BY <2>1, <3>2 DEF Placed, Shifts, MovementTypes
    <3>4. Begin(c, shifts[s].register, req) /\ UNCHANGED <<shifts, entries>>
      BY <2>6, <3>1 DEF Movement
    <3> QED
      BY <2>1, <2>4, <3>2, <3>3, <3>4
  <2>7. ASSUME NEW c \in Clerks, NEW s \in Shifts, NEW counted \in Sums, CloseShift(c, s, counted)
        PROVE  CashTypes'
    <3>1. PICK expected \in Int : expected = ExpectedCash(s)
      BY <2>1, CashTyped
    <3>2. PICK req : req = [AtDesk EXCEPT !.step = "close", !.shift = s, !.amount = counted, !.expected = expected]
      OBVIOUS
    <3>3. req \in DeskRows /\ req.step = "close" /\ req.shift = s
      BY <2>1, <3>2 DEF AtDesk, DeskRows
    <3>4. Placed(req, Len(shifts))
      BY <2>1, <3>3 DEF Placed, Shifts, MovementTypes
    <3>5. Begin(c, shifts[s].register, req) /\ UNCHANGED <<shifts, entries>>
      BY <2>7, <3>1, <3>2 DEF CloseShift
    <3> QED
      BY <2>1, <2>4, <3>3, <3>4, <3>5
  <2>8. ASSUME NEW s \in Shifts, NEW kind \in {"CASH_SALE", "REFUND"}, NEW amount \in Sums,
               SaleOrRefund(s, kind, amount)
        PROVE  CashTypes'
    <3>1. PICK e : e = Entry(s, kind, amount, IsOpen(s))
      OBVIOUS
    <3>2. e \in EntryRows /\ e.shift = s
      <4>1. IsOpen(s) \in BOOLEAN /\ s \in Nat /\ amount \in Int /\ kind \in Kinds
        BY <2>1, <2>2 DEF Kinds
      <4> HIDE DEF IsOpen, Kinds
      <4> QED
        BY <3>1, <4>1 DEF Entry, EntryRows
    <3>3. /\ entries' = Append(entries, e) /\ shifts' = shifts /\ desk' = desk
      BY <2>8, <3>1 DEF SaleOrRefund
    <3>4. CASE Clerks = {}
      <4>1. entries' \in Seq(EntryRows) /\ Len(entries') = Len(entries) + 1 /\ entries'[Len(entries) + 1] = e
            /\ (\A i \in 1 .. Len(entries) : entries'[i] = entries[i]) /\ Len(entries) \in Nat
        BY <2>1, <3>2, <3>3, AppendProperties DEF CashRows
      <4>2. \A i \in 1 .. Len(entries') : i \in 1 .. Len(entries) \/ i = Len(entries) + 1
        BY <4>1
      <4> QED
        BY <2>1, <3>2, <3>3, <3>4, <4>1, <4>2 DEF CashTypes, CashRows, Shifts
    <3>5. CASE Clerks # {}
      <4>1. PICK c \in Clerks : TRUE
        BY <3>5
      <4>2. /\ shifts' \in Seq(Shift) /\ Len(shifts') >= Len(shifts) /\ e.shift \in 1 .. Len(shifts')
            /\ Placed(AtDesk, Len(shifts'))
        BY <1>1, <2>1, <3>2, <3>3 DEF Shifts
      <4> QED
        BY <1>1, <3>2, <3>3, <4>1, <4>2, CashWritten
    <3> QED
      BY <3>4, <3>5
  <2>9. ASSUME NEW c \in Clerks, CreateShift(c) PROVE CashTypes'
    <3>1. PICK record : record = [register |-> desk[c].till, status |-> "OPEN",
                                  countedMinor |-> 0, expectedMinor |-> 0, varianceMinor |-> 0]
      OBVIOUS
    <3>2. PICK e : e = Entry(Len(shifts) + 1, "OPENING_FLOAT", desk[c].amount, TRUE)
      OBVIOUS
    <3>3. desk[c].till \in Registers /\ desk[c].amount \in Int
      BY <2>1, <2>9 DEF CreateShift, Placed, DeskRows
    <3>4. record \in Shift
      BY <3>1, <3>3 DEF Shift
    <3>5. e \in EntryRows /\ e.shift = Len(shifts) + 1
      BY <2>1, <3>2, <3>3 DEF Entry, EntryRows, Kinds, MovementTypes
    <3>6. /\ shifts' = Append(shifts, record) /\ entries' = Append(entries, e)
          /\ desk' = [desk EXCEPT ![c] = AtDesk]
      BY <2>9, <3>1, <3>2 DEF CreateShift
    <3>7. shifts' \in Seq(Shift) /\ Len(shifts') = Len(shifts) + 1
      BY <2>1, <3>4, <3>6, AppendProperties
    <3>8. Len(shifts') >= Len(shifts) /\ e.shift \in 1 .. Len(shifts') /\ Placed(AtDesk, Len(shifts'))
      BY <1>1, <2>1, <3>5, <3>7
    <3> QED
      BY <1>1, <3>5, <3>6, <3>7, <3>8, CashWritten
  <2>10. ASSUME NEW c \in Clerks, CreateMovement(c) PROVE CashTypes'
    <3>1. PICK s : s = desk[c].shift
      OBVIOUS
    <3>2. s \in Shifts /\ s \in Nat /\ desk[c].amount \in Int /\ desk[c].step \in Kinds
      BY <2>1, <2>10, <3>1 DEF CreateMovement, Placed, Shifts, DeskRows, Kinds
    <3>3. PICK e : e = Entry(s, desk[c].step, desk[c].amount, IsOpen(s))
      OBVIOUS
    <3>4. e \in EntryRows /\ e.shift = s
      <4>1. IsOpen(s) \in BOOLEAN
        BY <2>2
      <4> HIDE DEF IsOpen, Kinds
      <4> QED
        BY <3>2, <3>3, <4>1 DEF Entry, EntryRows
    <3>5. shifts' = shifts /\ entries' = Append(entries, e) /\ desk' = [desk EXCEPT ![c] = AtDesk]
      BY <2>10, <3>1, <3>3 DEF CreateMovement
    <3>6. /\ shifts' \in Seq(Shift) /\ Len(shifts') >= Len(shifts) /\ e.shift \in 1 .. Len(shifts')
          /\ Placed(AtDesk, Len(shifts'))
      BY <1>1, <2>1, <3>2, <3>4, <3>5 DEF Shifts
    <3> QED
      BY <1>1, <3>4, <3>5, <3>6, CashWritten
  <2>11. ASSUME NEW c \in Clerks, StoreClose(c) PROVE CashTypes'
    <3>1. PICK s : s = desk[c].shift
      OBVIOUS
    <3>2. s \in Shifts /\ s \in Nat /\ desk[c].amount \in Int /\ desk[c].expected \in Int /\ shifts[s] \in Shift
      BY <2>1, <2>11, <3>1 DEF StoreClose, Placed, Shifts, DeskRows
    <3>3. PICK e : e = Entry(s, "COUNT", desk[c].amount, IsOpen(s))
      OBVIOUS
    <3>4. e \in EntryRows /\ e.shift = s
      <4>1. IsOpen(s) \in BOOLEAN /\ "COUNT" \in Kinds
        BY <2>2 DEF Kinds, MovementTypes
      <4> HIDE DEF IsOpen, Kinds
      <4> QED
        BY <3>2, <3>3, <4>1 DEF Entry, EntryRows
    <3>5. PICK record : record = Closed(shifts[s], desk[c].amount, desk[c].expected)
      OBVIOUS
    <3>6. record \in Shift
      <4>1. PICK before, counted, expected, variance :
              /\ before = shifts[s] /\ counted = desk[c].amount /\ expected = desk[c].expected
              /\ variance = counted - expected
        OBVIOUS
      <4>2. /\ before \in Shift /\ counted \in Int /\ expected \in Int /\ variance \in Int
            /\ record = [before EXCEPT !.status = "CLOSED", !.countedMinor = counted,
                                       !.expectedMinor = expected, !.varianceMinor = variance]
        BY <3>2, <3>5, <4>1 DEF Closed
      <4> QED
        BY <4>2 DEF Shift
    <3>7. /\ shifts' = [shifts EXCEPT ![s] = record] /\ entries' = Append(entries, e)
          /\ desk' = [desk EXCEPT ![c] = AtDesk]
      BY <2>11, <3>1, <3>3, <3>5 DEF StoreClose
    <3>8. shifts' \in Seq(Shift) /\ Len(shifts') = Len(shifts)
      BY <2>1, <3>2, <3>6, <3>7 DEF Shifts
    <3>9. Len(shifts') >= Len(shifts) /\ e.shift \in 1 .. Len(shifts') /\ Placed(AtDesk, Len(shifts'))
      BY <1>1, <2>1, <3>2, <3>4, <3>8 DEF Shifts
    <3> QED
      BY <1>1, <3>4, <3>7, <3>8, <3>9, CashWritten
  <2>12. CASE UNCHANGED cashVars
    BY <2>12 DEF cashVars, CashTypes, CashRows, Shifts
  <2> QED
    BY <2>5, <2>6, <2>7, <2>8, <2>9, <2>10, <2>11, <2>12 DEF CashNext
<1>4. CashTypes => CashTypeOK
  <2> SUFFICES ASSUME CashTypes PROVE CashTypeOK
    OBVIOUS
  <2>1. PICK S : S = [shift : Shifts, kind : Kinds, amount : Int, while : BOOLEAN]
    OBVIOUS
  <2>2. entries \in Seq(EntryRows) /\ \A i \in 1 .. Len(entries) : entries[i] \in S
    <3>1. entries \in Seq(EntryRows)
      BY DEF CashTypes, CashRows
    <3>2. ASSUME NEW i \in 1 .. Len(entries) PROVE entries[i] \in S
      <4>1. entries[i] \in EntryRows /\ entries[i].shift \in Shifts
        BY <3>1 DEF CashTypes, CashRows
      <4> HIDE DEF Shifts, Kinds
      <4> QED
        BY <2>1, <4>1 DEF EntryRows
    <3> QED
      BY <3>1, <3>2
  <2>3. entries \in Seq(S)
    BY <2>2
  <2>4. desk \in [Clerks -> [step : {"free", "create", "close"} \cup MovementTypes,
                             till : Registers \cup {"none"}, shift : Shifts \cup {0},
                             amount : Int, expected : Int]]
    <3>1. ASSUME NEW c \in Clerks
          PROVE  desk[c] \in [step : {"free", "create", "close"} \cup MovementTypes,
                              till : Registers \cup {"none"}, shift : Shifts \cup {0},
                              amount : Int, expected : Int]
      <4>1. desk[c] \in DeskRows /\ desk[c].shift \in Shifts \cup {0}
        <5>1. desk[c] \in DeskRows /\ Placed(desk[c], Len(shifts)) /\ Len(shifts) \in Nat
          BY DEF CashTypes, CashRows
        <5> QED
          BY <5>1 DEF Placed, Shifts
      <4> HIDE DEF Shifts, MovementTypes
      <4> QED
        BY <4>1 DEF DeskRows
    <3>2. desk \in [Clerks -> DeskRows]
      BY DEF CashTypes, CashRows
    <3> QED
      BY <3>1, <3>2
  <2> QED
    BY <2>1, <2>3, <2>4 DEF CashTypes, CashRows, CashTypeOK
<1> QED
  BY <1>2, <1>3, <1>4, PTL DEF CashSpec

Todos == {<< >>, BuiltIn, <<"COMPUTER_ONLY", "EMAIL_ONLY">>, <<"EMAIL_ONLY">>}
EditRow == [step : {"wait", "clear", "store", "remove", "seed"}, row : Nat, level : Levels,
            isDefault : BOOLEAN, locked : SUBSET Nat, todo : Todos]
LookRow == [step : {"none", "look", "push"}, profile : Nat, gone : SUBSET Nat]

(* A station's lookup never holds a row that was deleted before.           *)
Sees(look, ps) ==
  /\ \A r \in look.gone : r \in DOMAIN ps /\ ps[r].deleted
  /\ look.step = "push" => look.profile \notin look.gone

(* Rows are only added, and what is deleted stays so.                      *)
Keeps(before, after) == \A r \in DOMAIN before :
  r \in DOMAIN after /\ (before[r].deleted => after[r].deleted)

(* The row of an editor who does nothing.                                  *)
LEMMA WaitingRow == Waiting \in EditRow /\ Waiting.step = "wait"
BY DEF Waiting, EditRow, Levels, Todos, None

(* Profiles: what points at a row points at one there is, since rows are   *)
(* never taken away, however the edits overlap.                            *)
Within(edit, n) ==
  /\ edit.row \in 0 .. n /\ edit.locked \subseteq 1 .. n
  /\ edit.step = "remove" => edit.row # None
  /\ edit.step = "seed" => edit.todo # << >>
OnScreen(look, n) == look.profile \in 0 .. n /\ look.gone \subseteq 1 .. n

ProfileTypes ==
  /\ profiles \in Seq(Profile)
  /\ assigned \in [Guests -> Nat] /\ seat \in [Stations -> Guests \cup {Nobody}]
  /\ looking \in [Stations -> LookRow] /\ command \in [Stations -> BOOLEAN]
  /\ editing \in [Editors -> EditRow] /\ failures \in Nat
  /\ \A g \in Guests : assigned[g] \in 0 .. Len(profiles)
  /\ \A s \in Stations : OnScreen(looking[s], Len(profiles))
  /\ \A e \in Editors : Within(editing[e], Len(profiles))

(* What a step of an edit may write.                                       *)
LEMMA EditWritten ==
  ASSUME ProfileTypes, NEW e \in Editors, NEW q \in EditRow, editing' = [editing EXCEPT ![e] = q],
         profiles' \in Seq(Profile), Len(profiles') >= Len(profiles), Within(q, Len(profiles)),
         assigned' \in [Guests -> Nat], \A g \in Guests : assigned'[g] \in {0, assigned[g]},
         failures' \in Nat, UNCHANGED <<seat, looking, command>>
  PROVE  ProfileTypes'
<1> DEFINE n == Len(profiles)
           m == Len(profiles')
<1>1. n \in Nat /\ m \in Nat /\ n <= m
  BY DEF ProfileTypes
<1>2. /\ editing' \in [Editors -> EditRow]
      /\ \A f \in Editors : editing'[f] = q \/ editing'[f] = editing[f]
  BY DEF ProfileTypes
<1>3. \A f \in Editors : Within(editing'[f], n)
  BY <1>2 DEF ProfileTypes
<1> HIDE DEF n, m
<1>4. \A f \in Editors : Within(editing'[f], m)
  BY <1>1, <1>3 DEF Within
<1>5. \A s \in Stations : OnScreen(looking[s], m)
  BY <1>1 DEF ProfileTypes, OnScreen, n
<1>6. \A g \in Guests : assigned'[g] \in 0 .. m
  BY <1>1 DEF ProfileTypes, n
<1> QED
  BY <1>2, <1>4, <1>5, <1>6 DEF ProfileTypes, m

(* What a step of a station, or of who assigns a profile, may write.       *)
LEMMA StationWritten ==
  ASSUME ProfileTypes, UNCHANGED <<profiles, editing, failures>>,
         assigned' \in [Guests -> Nat], \A g \in Guests : assigned'[g] \in 0 .. Len(profiles),
         seat' \in [Stations -> Guests \cup {Nobody}], command' \in [Stations -> BOOLEAN],
         NEW q \in LookRow, OnScreen(q, Len(profiles)),
         looking' = looking \/ \E s \in Stations : looking' = [looking EXCEPT ![s] = q]
  PROVE  ProfileTypes'
<1>1. /\ looking' \in [Stations -> LookRow]
      /\ \A t \in Stations : looking'[t] = looking[t] \/ looking'[t] = q
  BY DEF ProfileTypes
<1>2. \A t \in Stations : OnScreen(looking'[t], Len(profiles))
  BY <1>1 DEF ProfileTypes
<1>3. \A e \in Editors : Within(editing'[e], Len(profiles))
  BY DEF ProfileTypes
<1> QED
  BY <1>1, <1>2, <1>3 DEF ProfileTypes

(* Whatever is edited while customers come and go.                         *)
LEMMA ProfilesTyped == ProfilesSpec => []ProfilesTypeOK
<1> USE ProfilesAssumption
<1>1. /\ Waiting \in EditRow /\ Waiting.step = "wait" /\ Waiting.row = 0 /\ Waiting.locked = {}
      /\ \A n \in Nat : Within(Waiting, n)
  <2>1. Waiting \in EditRow /\ Waiting.step = "wait" /\ Waiting.row = 0 /\ Waiting.locked = {}
    BY WaitingRow DEF Waiting, None
  <2> QED
    BY <2>1 DEF Within
<1>2. /\ NotLooking \in LookRow /\ NotLooking.step = "none" /\ NotLooking.profile = 0
      /\ \A n \in Nat : OnScreen(NotLooking, n)
  <2>1. NotLooking \in LookRow /\ NotLooking.profile = 0 /\ NotLooking.gone = {} /\ NotLooking.step = "none"
    BY DEF NotLooking, LookRow, None
  <2> QED
    BY <2>1 DEF OnScreen
<1>3. ProfilesInit => ProfileTypes
  <2> SUFFICES ASSUME ProfilesInit PROVE ProfileTypes
    OBVIOUS
  <2>1. profiles \in Seq(Profile) /\ Len(profiles) = 0
    BY DEF ProfilesInit
  <2>2. /\ assigned \in [Guests -> Nat] /\ seat \in [Stations -> Guests \cup {Nobody}]
        /\ looking \in [Stations -> LookRow] /\ command \in [Stations -> BOOLEAN]
        /\ editing \in [Editors -> EditRow] /\ failures \in Nat
    BY <1>1, <1>2 DEF ProfilesInit, None, NoCommand
  <2>3. /\ \A g \in Guests : assigned[g] \in 0 .. 0
        /\ \A s \in Stations : OnScreen(looking[s], 0)
        /\ \A e \in Editors : Within(editing[e], 0)
    BY <1>1, <1>2 DEF ProfilesInit, None
  <2> QED
    BY <2>1, <2>2, <2>3 DEF ProfileTypes
<1>4. ProfileTypes /\ [ProfilesNext]_profileVars => ProfileTypes'
  <2> SUFFICES ASSUME ProfileTypes, [ProfilesNext]_profileVars PROVE ProfileTypes'
    OBVIOUS
  <2>1. /\ profiles \in Seq(Profile) /\ Len(profiles) \in Nat /\ Rows = 1 .. Len(profiles)
        /\ DOMAIN profiles = 1 .. Len(profiles)
        /\ \A r \in 1 .. Len(profiles) : profiles[r] \in Profile
        /\ assigned \in [Guests -> Nat] /\ failures \in Nat
        /\ seat \in [Stations -> Guests \cup {Nobody}] /\ command \in [Stations -> BOOLEAN]
        /\ \A e \in Editors : editing[e] \in EditRow /\ Within(editing[e], Len(profiles))
        /\ \A s \in Stations : looking[s] \in LookRow /\ OnScreen(looking[s], Len(profiles))
        /\ \A g \in Guests : assigned[g] \in 0 .. Len(profiles)
    BY DEF ProfileTypes, Rows
  <2>2. ASSUME NEW e \in Editors, EndEdit(e), profiles' \in Seq(Profile), Len(profiles') >= Len(profiles),
               assigned' \in [Guests -> Nat], \A g \in Guests : assigned'[g] \in {0, assigned[g]},
               failures' \in Nat, UNCHANGED <<seat, looking, command>>
        PROVE  ProfileTypes'
    BY <1>1, <2>1, <2>2, EditWritten DEF EndEdit
  <2>3. ASSUME NEW e \in Editors, NEW q \in EditRow, Within(q, Len(profiles)), BeginEdit(e, q)
        PROVE  ProfileTypes'
    <3>1. /\ editing' = [editing EXCEPT ![e] = q]
          /\ UNCHANGED <<profiles, assigned, seat, looking, command, failures>>
      BY <2>3 DEF BeginEdit
    <3>2. /\ profiles' \in Seq(Profile) /\ Len(profiles') >= Len(profiles)
          /\ assigned' \in [Guests -> Nat] /\ (\A g \in Guests : assigned'[g] \in {0, assigned[g]})
          /\ failures' \in Nat /\ UNCHANGED <<seat, looking, command>>
      BY <2>1, <3>1
    <3> QED
      BY <2>3, <3>1, <3>2, EditWritten
  <2>4. ASSUME NEW e \in Editors
        PROVE  /\ Cleared(e) \in Seq(Profile) /\ Len(Cleared(e)) = Len(profiles)
               /\ DOMAIN Cleared(e) = 1 .. Len(profiles)
    <3>1. PICK c : c = Cleared(e)
      OBVIOUS
    <3>2. /\ c = [r \in 1 .. Len(profiles) |-> c[r]]
          /\ \A r \in 1 .. Len(profiles) :
               c[r] = IF r \in editing[e].locked THEN [profiles[r] EXCEPT !.isDefault = FALSE] ELSE profiles[r]
      BY <2>1, <3>1 DEF Cleared
    <3>3. \A r \in 1 .. Len(profiles) : c[r] \in Profile
      BY <2>1, <3>2 DEF Profile
    <3>4. c \in Seq(Profile) /\ Len(c) = Len(profiles) /\ DOMAIN c = 1 .. Len(profiles)
      BY <2>1, <3>2, <3>3
    <3> QED
      BY <3>1, <3>4
  <2>5. ASSUME NEW e \in Editors, NEW level \in Levels, NEW d \in BOOLEAN, Create(e, level, d)
        PROVE  ProfileTypes'
    <3>1. PICK q : q = [Waiting EXCEPT !.step = IF d THEN "clear" ELSE "store", !.level = level, !.isDefault = d]
      OBVIOUS
    <3>2. BeginEdit(e, q)
      BY <2>5, <3>1 DEF Create
    <3>3. q \in EditRow /\ q.row = 0 /\ q.locked = {} /\ q.step \in {"clear", "store"}
      BY <1>1, <3>1 DEF EditRow
    <3>4. Within(q, Len(profiles))
      BY <2>1, <3>3 DEF Within
    <3> QED
      BY <2>3, <3>2, <3>3, <3>4
  <2>6. ASSUME NEW e \in Editors, NEW r \in Rows, NEW d \in BOOLEAN, Update(e, r, d)
        PROVE  ProfileTypes'
    <3>1. PICK q : q = [Waiting EXCEPT !.step = IF d THEN "clear" ELSE "store", !.row = r, !.isDefault = d]
      OBVIOUS
    <3>2. BeginEdit(e, q)
      BY <2>6, <3>1 DEF Update
    <3>3. q \in EditRow /\ q.row = r /\ q.locked = {} /\ q.step \in {"clear", "store"} /\ r \in 1 .. Len(profiles)
      <4>1. r \in 1 .. Len(profiles) /\ r \in Nat
        BY <2>1
      <4> QED
        BY <1>1, <3>1, <4>1 DEF EditRow
    <3>4. Within(q, Len(profiles))
      BY <2>1, <3>3 DEF Within
    <3> QED
      BY <2>3, <3>2, <3>3, <3>4
  <2>7. ASSUME NEW e \in Editors, NEW r \in Rows, Remove(e, r) PROVE ProfileTypes'
    <3>1. PICK q : q = [Waiting EXCEPT !.step = "remove", !.row = r]
      OBVIOUS
    <3>2. BeginEdit(e, q)
      BY <2>7, <3>1 DEF Remove
    <3>3. q \in EditRow /\ q.row = r /\ q.locked = {} /\ q.step = "remove" /\ r \in 1 .. Len(profiles)
      <4>1. r \in 1 .. Len(profiles) /\ r \in Nat
        BY <2>1
      <4> QED
        BY <1>1, <3>1, <4>1 DEF EditRow
    <3>4. Within(q, Len(profiles))
      BY <2>1, <3>3 DEF Within, None
    <3> QED
      BY <2>3, <3>2, <3>3, <3>4
  <2>8. ASSUME NEW e \in Editors, EnsureDefaults(e) PROVE ProfileTypes'
    <3>1. PICK q : q = [Waiting EXCEPT !.step = "seed", !.todo = BuiltIn]
      OBVIOUS
    <3>2. BeginEdit(e, q)
      BY <2>8, <3>1 DEF EnsureDefaults
    <3>3. BuiltIn \in Todos /\ BuiltIn # << >>
      BY DEF Todos, BuiltIn
    <3>4. q \in EditRow /\ q.row = 0 /\ q.locked = {} /\ q.step = "seed" /\ q.todo # << >>
      BY <1>1, <3>1, <3>3 DEF EditRow
    <3>5. Within(q, Len(profiles))
      BY <2>1, <3>4 DEF Within
    <3> QED
      BY <2>3, <3>2, <3>4, <3>5
  <2>9. ASSUME NEW e \in Editors, ClearDefaults(e) PROVE ProfileTypes'
    <3>1. PICK others : others = OtherDefaults(e)
      OBVIOUS
    <3>2. others \subseteq 1 .. Len(profiles) /\ others \in SUBSET Nat
      BY <2>1, <3>1 DEF OtherDefaults
    <3>3. PICK q : q = [editing[e] EXCEPT !.step = "store", !.locked = others]
      OBVIOUS
    <3>4. /\ q \in EditRow /\ q.row = editing[e].row /\ q.locked = others /\ q.step = "store"
          /\ editing' = [editing EXCEPT ![e] = q]
          /\ UNCHANGED <<profiles, assigned, seat, looking, command, failures>>
      <4>1. editing' = [editing EXCEPT ![e].step = "store", ![e].locked = others]
            /\ UNCHANGED <<profiles, assigned, seat, looking, command, failures>>
        BY <2>9, <3>1 DEF ClearDefaults
      <4>2. editing \in [Editors -> EditRow]
        BY DEF ProfileTypes
      <4>3. q \in EditRow /\ q.row = editing[e].row /\ q.locked = others /\ q.step = "store"
        BY <2>1, <3>2, <3>3 DEF EditRow
      <4> QED
        BY <3>3, <4>1, <4>2, <4>3
    <3>5. Within(q, Len(profiles))
      BY <2>1, <3>2, <3>4 DEF Within
    <3>6. /\ profiles' \in Seq(Profile) /\ Len(profiles') >= Len(profiles)
          /\ assigned' \in [Guests -> Nat] /\ (\A g \in Guests : assigned'[g] \in {0, assigned[g]})
          /\ failures' \in Nat /\ UNCHANGED <<seat, looking, command>>
      BY <2>1, <3>4
    <3> QED
      BY <3>4, <3>5, <3>6, EditWritten
  <2>10. ASSUME NEW e \in Editors, StoreCreate(e) PROVE ProfileTypes'
    <3>1. editing[e].level \in Levels /\ editing[e].isDefault \in BOOLEAN
      BY <2>1 DEF EditRow
    <3>2. profiles' = Append(Cleared(e), NewProfile(editing[e].level, editing[e].isDefault)) /\ EndEdit(e)
          /\ UNCHANGED <<assigned, seat, looking, command, failures>>
      BY <2>10 DEF StoreCreate
    <3>3. NewProfile(editing[e].level, editing[e].isDefault) \in Profile
      BY <3>1 DEF NewProfile, Profile
    <3>4. profiles' \in Seq(Profile) /\ Len(profiles') = Len(profiles) + 1
      BY <2>1, <2>4, <3>2, <3>3, AppendProperties
    <3> QED
      BY <2>1, <2>2, <3>2, <3>4
  <2>11. ASSUME NEW e \in Editors, StoreUpdate(e) PROVE ProfileTypes'
    <3>1. PICK r, d : r = editing[e].row /\ d = editing[e].isDefault
      OBVIOUS
    <3>2. r \in 1 .. Len(profiles) /\ d \in BOOLEAN
      <4>1. r \in 0 .. Len(profiles) /\ r # 0 /\ d \in BOOLEAN
        BY <2>1, <2>11, <3>1 DEF StoreUpdate, Within, None, EditRow
      <4> QED
        BY <2>1, <4>1
    <3>3. PICK c : c = Cleared(e)
      OBVIOUS
    <3>4. c \in Seq(Profile) /\ Len(c) = Len(profiles) /\ DOMAIN c = 1 .. Len(profiles)
      BY <2>4, <3>3
    <3>5. profiles' = [c EXCEPT ![r].isDefault = d] /\ EndEdit(e)
          /\ UNCHANGED <<assigned, seat, looking, command, failures>>
      BY <2>11, <3>1, <3>3 DEF StoreUpdate
    <3>6. PICK record : record = [c[r] EXCEPT !.isDefault = d]
      OBVIOUS
    <3>7. record \in Profile
      <4>1. c[r] \in Profile
        BY <3>2, <3>4
      <4> QED
        BY <3>2, <3>6, <4>1 DEF Profile
    <3>8. profiles' = [c EXCEPT ![r] = record]
      BY <3>2, <3>4, <3>5, <3>6
    <3>9. profiles' \in Seq(Profile) /\ Len(profiles') = Len(profiles)
      BY <3>2, <3>4, <3>7, <3>8
    <3> QED
      BY <2>1, <2>2, <3>5, <3>9
  <2>12. ASSUME NEW e \in Editors, StoreRemove(e) PROVE ProfileTypes'
    <3>1. PICK r : r = editing[e].row
      OBVIOUS
    <3>2. r \in 1 .. Len(profiles)
      <4>1. r \in 0 .. Len(profiles) /\ r # 0
        BY <2>1, <2>12, <3>1 DEF StoreRemove, Within, None
      <4> QED
        BY <2>1, <4>1
    <3>3. Retired(profiles[r]) \in Profile
      BY <2>1, <3>2 DEF Retired, Profile
    <3>4. /\ assigned' = [g \in Guests |-> IF assigned[g] = r THEN 0 ELSE assigned[g]]
          /\ profiles' = [profiles EXCEPT ![r] = Retired(profiles[r])]
          /\ EndEdit(e) /\ UNCHANGED <<seat, looking, command, failures>>
      BY <2>12, <3>1 DEF StoreRemove, None
    <3>5. profiles' \in Seq(Profile) /\ Len(profiles') = Len(profiles)
      BY <2>1, <3>2, <3>3, <3>4
    <3>6. assigned' \in [Guests -> Nat] /\ \A g \in Guests : assigned'[g] \in {0, assigned[g]}
      BY <2>1, <3>4
    <3> QED
      BY <2>1, <2>2, <3>4, <3>5, <3>6
  <2>13. ASSUME NEW e \in Editors, SeedNext(e) PROVE ProfileTypes'
    <3>1. PICK todo : todo = editing[e].todo
      OBVIOUS
    <3>2. /\ profiles' = Append(profiles, NewProfile(Head(todo), Head(todo) = "FULL"))
          /\ IF Len(todo) = 1 THEN EndEdit(e) ELSE editing' = [editing EXCEPT ![e].todo = Tail(todo)]
          /\ UNCHANGED <<assigned, seat, looking, command, failures>> /\ editing[e].step = "seed"
      BY <2>13, <3>1 DEF SeedNext
    <3>3. todo \in Todos /\ todo # << >>
      BY <2>1, <3>1, <3>2 DEF Within, EditRow
    <3>4. Head(todo) \in Levels /\ (Len(todo) # 1 => Tail(todo) \in Todos /\ Tail(todo) # << >>)
      <4>1. CASE todo = BuiltIn
        BY <4>1 DEF BuiltIn, Levels, Todos
      <4>2. CASE todo = <<"COMPUTER_ONLY", "EMAIL_ONLY">>
        BY <4>2 DEF BuiltIn, Levels, Todos
      <4>3. CASE todo = <<"EMAIL_ONLY">>
        BY <4>3 DEF BuiltIn, Levels, Todos
      <4> QED
        BY <3>3, <4>1, <4>2, <4>3 DEF Todos
    <3>5. PICK d \in BOOLEAN : d = (Head(todo) = "FULL")
      OBVIOUS
    <3>6. profiles' \in Seq(Profile) /\ Len(profiles') = Len(profiles) + 1
      <4>1. NewProfile(Head(todo), d) \in Profile
        BY <3>4 DEF NewProfile, Profile
      <4> QED
        BY <2>1, <3>2, <3>5, <4>1, AppendProperties
    <3>7. CASE Len(todo) = 1
      BY <2>1, <2>2, <3>2, <3>6, <3>7
    <3>8. CASE Len(todo) # 1
      <4>1. PICK rest : rest = Tail(todo)
        OBVIOUS
      <4>2. PICK q : q = [editing[e] EXCEPT !.todo = rest]
        OBVIOUS
      <4>3. /\ q \in EditRow /\ q.row = editing[e].row /\ q.locked = editing[e].locked
            /\ q.step = "seed" /\ q.todo # << >>
        BY <2>1, <3>2, <3>4, <3>8, <4>1, <4>2 DEF EditRow
      <4>4. Within(q, Len(profiles))
        BY <2>1, <4>3 DEF Within
      <4>5. editing' = [editing EXCEPT ![e] = q]
        <5>1. editing' = [editing EXCEPT ![e].todo = rest] /\ editing \in [Editors -> EditRow]
          BY <3>2, <3>8, <4>1 DEF ProfileTypes
        <5> QED
          BY <4>2, <5>1
      <4>6. /\ profiles' \in Seq(Profile) /\ Len(profiles') >= Len(profiles)
            /\ assigned' \in [Guests -> Nat] /\ (\A g \in Guests : assigned'[g] \in {0, assigned[g]})
            /\ failures' \in Nat /\ UNCHANGED <<seat, looking, command>>
        BY <2>1, <3>2, <3>6
      <4> QED
        BY <4>3, <4>4, <4>5, <4>6, EditWritten
    <3> QED
      BY <3>7, <3>8
  <2>14. ASSUME NEW e \in Editors, CreateRefused(e) \/ SeedRefused(e) \/ EditDies(e) PROVE ProfileTypes'
    <3>1. EndEdit(e) /\ UNCHANGED <<profiles, assigned, seat, looking, command>> /\ failures' \in Nat
      BY <2>1, <2>14 DEF CreateRefused, SeedRefused, EditDies
    <3> QED
      BY <2>1, <2>2, <3>1
  <2>15. ASSUME NEW g \in Guests, NEW r \in Rows \cup {None}, AssignProfile(g, r) PROVE ProfileTypes'
    <3>1. r \in 0 .. Len(profiles) /\ r \in Nat
      BY <2>1 DEF None
    <3>2. assigned' = [assigned EXCEPT ![g] = r] /\ UNCHANGED <<profiles, seat, looking, command, editing, failures>>
      BY <2>15 DEF AssignProfile
    <3>3. assigned' \in [Guests -> Nat] /\ \A h \in Guests : assigned'[h] \in 0 .. Len(profiles)
      BY <2>1, <3>1, <3>2
    <3> QED
      BY <1>2, <2>1, <3>2, <3>3, StationWritten
  <2>16. ASSUME NEW s \in Stations, NEW g \in Guests, OpenSession(s, g) PROVE ProfileTypes'
    <3>1. PICK gone : gone = Deleted
      OBVIOUS
    <3>2. gone \subseteq 1 .. Len(profiles) /\ gone \in SUBSET Nat
      BY <2>1, <3>1 DEF Deleted
    <3>3. PICK q : q = [NotLooking EXCEPT !.step = "look", !.gone = gone]
      OBVIOUS
    <3>4. q \in LookRow /\ q.profile = 0 /\ q.gone = gone
      BY <1>2, <3>2, <3>3 DEF LookRow
    <3>5. OnScreen(q, Len(profiles))
      BY <2>1, <3>2, <3>4 DEF OnScreen
    <3>6. /\ seat' = [seat EXCEPT ![s] = g] /\ looking' = [looking EXCEPT ![s] = q]
          /\ UNCHANGED <<profiles, assigned, command, editing, failures>>
      BY <2>16, <3>1, <3>3 DEF OpenSession
    <3>7. seat' \in [Stations -> Guests \cup {Nobody}]
      BY <2>1, <3>6
    <3> QED
      BY <2>1, <3>4, <3>5, <3>6, <3>7, StationWritten
  <2>17. ASSUME NEW s \in Stations, LookUp(s) PROVE ProfileTypes'
    <3>1. PICK r : r = assigned[seat[s]]
      OBVIOUS
    <3>2. r \in 0 .. Len(profiles) /\ r \in Nat
      BY <2>1, <2>17, <3>1 DEF LookUp
    <3>3. PICK q : q = IF Enforceable(r) THEN [looking[s] EXCEPT !.step = "push", !.profile = r] ELSE NotLooking
      OBVIOUS
    <3>4. /\ looking' = [looking EXCEPT ![s] = q]
          /\ UNCHANGED <<profiles, assigned, seat, command, editing, failures>>
      BY <2>17, <3>1, <3>3 DEF LookUp
    <3>5. q \in LookRow /\ OnScreen(q, Len(profiles))
      <4>1. CASE ~ Enforceable(r)
        BY <1>2, <2>1, <3>3, <4>1
      <4>2. CASE Enforceable(r)
        <5>1. q \in LookRow /\ q.profile = r /\ q.gone = looking[s].gone
          BY <2>1, <3>2, <3>3, <4>2 DEF LookRow
        <5> QED
          BY <2>1, <3>2, <5>1 DEF OnScreen
      <4> QED
        BY <4>1, <4>2
    <3> QED
      BY <2>1, <3>4, <3>5, StationWritten
  <2>18. ASSUME NEW s \in Stations, Push(s) PROVE ProfileTypes'
    <3> DEFINE b == (looking[s].profile \in looking[s].gone)
    <3>1. b \in BOOLEAN
      OBVIOUS
    <3>2. /\ command' = [command EXCEPT ![s] = b] /\ looking' = [looking EXCEPT ![s] = NotLooking]
          /\ UNCHANGED <<profiles, assigned, seat, editing, failures>>
      BY <2>18 DEF Push
    <3> HIDE DEF b
    <3>3. command' \in [Stations -> BOOLEAN]
      BY <2>1, <3>1, <3>2
    <3> QED
      BY <1>2, <2>1, <3>2, <3>3, StationWritten
  <2>19. ASSUME NEW s \in Stations, CloseSession(s) PROVE ProfileTypes'
    <3>1. /\ seat' = [seat EXCEPT ![s] = Nobody]
          /\ UNCHANGED <<profiles, assigned, looking, command, editing, failures>>
      BY <2>19 DEF CloseSession
    <3>2. seat' \in [Stations -> Guests \cup {Nobody}]
      BY <2>1, <3>1
    <3> QED
      BY <1>2, <2>1, <3>1, <3>2, StationWritten
  <2>20. CASE UNCHANGED profileVars
    BY <2>20 DEF profileVars, ProfileTypes
  <2> QED
    BY <2>5, <2>6, <2>7, <2>8, <2>9, <2>10, <2>11, <2>12, <2>13, <2>14, <2>15, <2>16, <2>17, <2>18, <2>19, <2>20
       DEF ProfilesNext
<1>5. ProfileTypes => ProfilesTypeOK
  <2> SUFFICES ASSUME ProfileTypes PROVE ProfilesTypeOK
    OBVIOUS
  <2>1. Rows = 1 .. Len(profiles) /\ Len(profiles) \in Nat /\ Rows \cup {None} = 0 .. Len(profiles)
    <3>1. Len(profiles) \in Nat
      BY DEF ProfileTypes
    <3> QED
      BY <3>1 DEF Rows, None
  <2>2. assigned \in [Guests -> Rows \cup {None}]
    BY <2>1 DEF ProfileTypes
  <2>3. \A s \in Stations : looking[s] \in Look
    <3> SUFFICES ASSUME NEW s \in Stations PROVE looking[s] \in Look
      OBVIOUS
    <3>1. looking[s] \in LookRow /\ looking[s].profile \in Rows \cup {None} /\ looking[s].gone \in SUBSET Rows
      BY <2>1 DEF ProfileTypes, OnScreen
    <3> HIDE DEF Rows
    <3> QED
      BY <3>1 DEF LookRow, Look
  <2>4. \A e \in Editors : editing[e] \in Edit
    <3> SUFFICES ASSUME NEW e \in Editors PROVE editing[e] \in Edit
      OBVIOUS
    <3>1. editing[e] \in EditRow /\ editing[e].row \in Rows \cup {None} /\ editing[e].locked \in SUBSET Rows
      BY <2>1 DEF ProfileTypes, Within
    <3>2. editing[e].todo \in Seq(Levels)
      <4>1. editing[e].todo \in Todos
        BY <3>1 DEF EditRow
      <4>2. << >> \in Seq(Levels) /\ BuiltIn \in Seq(Levels)
            /\ <<"COMPUTER_ONLY", "EMAIL_ONLY">> \in Seq(Levels) /\ <<"EMAIL_ONLY">> \in Seq(Levels)
        BY DEF BuiltIn, Levels
      <4> QED
        BY <4>1, <4>2 DEF Todos
    <3> HIDE DEF Rows
    <3> QED
      BY <3>1, <3>2 DEF EditRow, Edit
  <2> QED
    BY <2>2, <2>3, <2>4 DEF ProfileTypes, ProfilesTypeOK
<1> QED
  BY <1>3, <1>4, <1>5, PTL DEF ProfilesSpec

(* No station is told to apply a profile that had been deleted before its  *)
(* guest sat down, however the edits overlap and whatever they leave half  *)
(* done: what a station looks up was not deleted yet, what is being sent   *)
(* was looked up after the guest sat down, and a deleted row never comes   *)
(* back (AccessProfilesService.applyToComputer).                           *)
THEOREM DeletedPoliciesAreNotSent == ProfilesSpec => []NoDeletedPolicy
<1> DEFINE Sightings == NoDeletedPolicy /\ \A s \in Stations : Sees(looking[s], profiles)
<1>1. ASSUME ProfilesInit PROVE Sightings
  <2>1. \A s \in Stations : ~ command[s] /\ looking[s].step = "none" /\ looking[s].gone = {}
    BY <1>1 DEF ProfilesInit, NotLooking, NoCommand
  <2> QED
    BY <2>1 DEF Sees, NoDeletedPolicy
<1>2. ASSUME ProfilesTypeOK, ProfilesTypeOK', Sightings, [ProfilesNext]_profileVars PROVE Sightings'
  <2>1. /\ profiles \in Seq(Profile) /\ profiles' \in Seq(Profile) /\ Len(profiles) \in Nat
        /\ Rows = 1 .. Len(profiles) /\ DOMAIN profiles = Rows
        /\ \A r \in Rows : profiles[r] \in Profile
        /\ looking \in [Stations -> Look] /\ command \in [Stations -> BOOLEAN]
        /\ editing \in [Editors -> Edit]
    BY <1>2 DEF ProfilesTypeOK, Rows
  <2>2. \A s \in Stations : ~ command[s] /\ Sees(looking[s], profiles)
    BY <1>2 DEF NoDeletedPolicy
  <2>3. ASSUME Keeps(profiles, profiles'), UNCHANGED <<looking, command>> PROVE Sightings'
    <3>1. \A s \in Stations : Sees(looking[s], profiles')
      BY <2>2, <2>3 DEF Sees, Keeps
    <3> QED
      BY <2>2, <2>3, <3>1 DEF NoDeletedPolicy
  <2>4. ASSUME NEW s \in Stations, NEW q, Sees(q, profiles), looking' = [looking EXCEPT ![s] = q],
               \A t \in Stations : ~ command'[t], UNCHANGED profiles
        PROVE  Sightings'
    <3>1. \A t \in Stations : looking'[t] = IF t = s THEN q ELSE looking[t]
      BY <2>1, <2>4
    <3> QED
      BY <2>2, <2>4, <3>1 DEF NoDeletedPolicy
  <2>5. ASSUME NEW e \in Editors, NEW c, c = Cleared(e)
        PROVE  /\ c \in Seq(Profile) /\ Len(c) = Len(profiles) /\ DOMAIN c = Rows
               /\ \A r \in Rows : c[r].deleted = profiles[r].deleted
    <3>1. /\ c = [r \in Rows |-> c[r]]
          /\ \A r \in Rows : c[r] = IF r \in editing[e].locked THEN [profiles[r] EXCEPT !.isDefault = FALSE]
                                    ELSE profiles[r]
      BY <2>5 DEF Cleared
    <3>2. \A r \in Rows : c[r] \in Profile /\ c[r].deleted = profiles[r].deleted
      BY <2>1, <3>1 DEF Profile
    <3>3. c \in Seq(Profile) /\ Len(c) = Len(profiles)
      BY <2>1, <3>1, <3>2
    <3> QED
      BY <3>1, <3>2, <3>3
  <2>6. ASSUME NEW c, c \in Seq(Profile), Len(c) = Len(profiles), DOMAIN c = Rows,
               \A r \in Rows : c[r].deleted = profiles[r].deleted,
               NEW p \in Profile, profiles' = Append(c, p)
        PROVE  Keeps(profiles, profiles')
    <3>1. DOMAIN profiles' = 1 .. Len(profiles) + 1 /\ \A r \in Rows : profiles'[r] = c[r]
      BY <2>1, <2>6
    <3> QED
      BY <2>1, <2>6, <3>1 DEF Keeps
  <2>7. ASSUME NEW e \in Editors, StoreCreate(e) PROVE Sightings'
    <3>1. PICK c : c = Cleared(e)
      OBVIOUS
    <3>2. PICK p : p = NewProfile(editing[e].level, editing[e].isDefault)
      OBVIOUS
    <3>3. p \in Profile
      BY <2>1, <3>2 DEF NewProfile, Profile, Edit
    <3>4. profiles' = Append(c, p) /\ UNCHANGED <<looking, command>>
      BY <2>7, <3>1, <3>2 DEF StoreCreate
    <3> QED
      BY <2>3, <2>5, <2>6, <3>1, <3>3, <3>4
  <2>8. ASSUME NEW e \in Editors, SeedNext(e) PROVE Sightings'
    <3>1. PICK name, d : name = Head(editing[e].todo) /\ d = (Head(editing[e].todo) = "FULL")
      OBVIOUS
    <3>2. profiles' = Append(profiles, NewProfile(name, d)) /\ UNCHANGED <<looking, command>>
      BY <2>8, <3>1 DEF SeedNext
    <3>3. DOMAIN profiles' = 1 .. Len(profiles) + 1 /\ \A r \in Rows : profiles'[r] = profiles[r]
      BY <2>1, <3>2
    <3>4. Keeps(profiles, profiles')
      BY <2>1, <3>3 DEF Keeps
    <3> QED
      BY <2>3, <3>2, <3>4
  <2>9. ASSUME NEW e \in Editors, StoreUpdate(e) PROVE Sightings'
    <3>1. PICK c : c = Cleared(e)
      OBVIOUS
    <3>2. PICK row, d : row = editing[e].row /\ d = editing[e].isDefault
      OBVIOUS
    <3>3. profiles' = [c EXCEPT ![row].isDefault = d] /\ UNCHANGED <<looking, command>>
      BY <2>9, <3>1, <3>2 DEF StoreUpdate
    <3>4. PICK record : record = [c[row] EXCEPT !.isDefault = d]
      OBVIOUS
    <3>5. c \in Seq(Profile) /\ DOMAIN c = Rows /\ \A r \in Rows : c[r] \in Profile /\ c[r].deleted = profiles[r].deleted
      BY <2>1, <2>5, <3>1
    <3>6. row \in Rows => record.deleted = c[row].deleted
      BY <3>4, <3>5 DEF Profile
    <3>7. profiles' = [c EXCEPT ![row] = record]
      BY <3>3, <3>4, <3>5
    <3>8. DOMAIN profiles' = Rows /\ \A r \in Rows : profiles'[r] = IF r = row THEN record ELSE c[r]
      BY <3>5, <3>7
    <3>9. Keeps(profiles, profiles')
      BY <2>1, <3>5, <3>6, <3>8 DEF Keeps
    <3> QED
      BY <2>3, <3>3, <3>9
  <2>10. ASSUME NEW e \in Editors, StoreRemove(e) PROVE Sightings'
    <3>1. PICK row : row = editing[e].row
      OBVIOUS
    <3>2. profiles' = [profiles EXCEPT ![row] = Retired(profiles[row])] /\ UNCHANGED <<looking, command>>
      BY <2>10, <3>1 DEF StoreRemove
    <3>3. row \in Rows => Retired(profiles[row]).deleted
      BY <2>1 DEF Retired, Profile
    <3>4. DOMAIN profiles' = Rows
          /\ \A r \in Rows : profiles'[r] = IF r = row THEN Retired(profiles[row]) ELSE profiles[r]
      BY <2>1, <3>2
    <3>5. Keeps(profiles, profiles')
      BY <2>1, <3>3, <3>4 DEF Keeps
    <3> QED
      BY <2>3, <3>2, <3>5
  <2>11. ASSUME UNCHANGED <<profiles, looking, command>> PROVE Sightings'
    <3>1. Keeps(profiles, profiles')
      BY <2>11 DEF Keeps
    <3> QED
      BY <2>3, <2>11, <3>1
  <2>12. ASSUME NEW e \in Editors,
                \/ ClearDefaults(e) \/ CreateRefused(e) \/ EnsureDefaults(e) \/ SeedRefused(e) \/ EditDies(e)
                \/ \E r \in Rows : Remove(e, r) \/ \E isDefault \in BOOLEAN : Update(e, r, isDefault)
                \/ \E level \in Levels, isDefault \in BOOLEAN : Create(e, level, isDefault)
         PROVE  Sightings'
    <3>1. UNCHANGED <<profiles, looking, command>>
      BY <2>12 DEF ClearDefaults, CreateRefused, EnsureDefaults, SeedRefused, EditDies, Remove, Update,
                   Create, BeginEdit
    <3> QED
      BY <2>11, <3>1
  <2>13. ASSUME NEW g \in Guests, NEW r \in Rows \cup {None}, AssignProfile(g, r) PROVE Sightings'
    BY <2>11, <2>13 DEF AssignProfile
  <2>14. Sees(NotLooking, profiles)
    BY DEF Sees, NotLooking
  <2>15. ASSUME NEW s \in Stations, NEW g \in Guests, OpenSession(s, g) PROVE Sightings'
    <3>1. PICK gone : gone = Deleted
      OBVIOUS
    <3>2. PICK q : q = [NotLooking EXCEPT !.step = "look", !.gone = gone]
      OBVIOUS
    <3>3. q.step = "look" /\ q.gone = gone
      BY <3>2 DEF NotLooking
    <3>4. \A r \in gone : r \in DOMAIN profiles /\ profiles[r].deleted
      BY <2>1, <3>1 DEF Deleted, Live
    <3>5. Sees(q, profiles)
      BY <3>3, <3>4 DEF Sees
    <3>6. looking' = [looking EXCEPT ![s] = q] /\ UNCHANGED <<profiles, command>>
      BY <2>15, <3>1, <3>2 DEF OpenSession
    <3> QED
      BY <2>2, <2>4, <3>5, <3>6
  <2>16. ASSUME NEW s \in Stations, LookUp(s) PROVE Sightings'
    <3>1. PICK r : r = assigned[seat[s]]
      OBVIOUS
    <3>2. PICK q : q = IF Enforceable(r) THEN [looking[s] EXCEPT !.step = "push", !.profile = r] ELSE NotLooking
      OBVIOUS
    <3>3. looking' = [looking EXCEPT ![s] = q] /\ UNCHANGED <<profiles, command>>
      BY <2>16, <3>1, <3>2 DEF LookUp
    <3>4. Sees(q, profiles)
      <4>1. CASE ~ Enforceable(r)
        BY <2>14, <3>2, <4>1
      <4>2. CASE Enforceable(r)
        <5>1. q.profile = r /\ q.gone = looking[s].gone
          BY <2>1, <3>2, <4>2 DEF Look
        <5> QED
          BY <2>2, <4>2, <5>1 DEF Sees, Enforceable
      <4> QED
        BY <4>1, <4>2
    <3> QED
      BY <2>2, <2>4, <3>3, <3>4
  <2>17. ASSUME NEW s \in Stations, Push(s) PROVE Sightings'
    <3> DEFINE b == (looking[s].profile \in looking[s].gone)
    <3>1. ~ b /\ b \in BOOLEAN
      BY <2>2, <2>17 DEF Push, Sees
    <3>2. /\ command' = [command EXCEPT ![s] = b] /\ looking' = [looking EXCEPT ![s] = NotLooking]
          /\ UNCHANGED profiles
      BY <2>17 DEF Push
    <3> HIDE DEF b
    <3>3. \A t \in Stations : ~ command'[t]
      BY <2>1, <2>2, <3>1, <3>2
    <3> QED
      BY <2>4, <2>14, <3>2, <3>3
  <2>18. ASSUME NEW s \in Stations, CloseSession(s) PROVE Sightings'
    BY <2>11, <2>18 DEF CloseSession
  <2>19. CASE UNCHANGED profileVars
    BY <2>11, <2>19 DEF profileVars
  <2> QED
    BY <1>2, <2>7, <2>8, <2>9, <2>10, <2>12, <2>13, <2>15, <2>16, <2>17, <2>18, <2>19 DEF ProfilesNext
<1>3. Sightings => NoDeletedPolicy
  OBVIOUS
<1> QED
  BY <1>1, <1>2, <1>3, ProfilesTyped, PTL DEF ProfilesSpec

(* Revoking marks the tokens it is about and leaves all else of the rows.  *)
LEMMA RevokedRows ==
  ASSUME NEW records \in Seq(RefreshToken), NEW those
  PROVE  /\ Revoked(records, those) \in Seq(RefreshToken)
         /\ Len(Revoked(records, those)) = Len(records)
         /\ \A i \in 1 .. Len(records) :
              /\ Revoked(records, those)[i].family = records[i].family
              /\ Revoked(records, those)[i].employee = records[i].employee
              /\ Revoked(records, those)[i].revoked = (records[i].revoked \/ i \in those)
<1> DEFINE after == Revoked(records, those)
<1>0. after = [i \in 1 .. Len(records) |-> IF i \in those THEN [records[i] EXCEPT !.revoked = TRUE] ELSE records[i]]
  BY DEF Revoked
<1>1. Len(records) \in Nat /\ \A i \in 1 .. Len(records) : records[i] \in RefreshToken
  OBVIOUS
<1>2. \A i \in 1 .. Len(records) : after[i] = IF i \in those THEN [records[i] EXCEPT !.revoked = TRUE] ELSE records[i]
  BY <1>0
<1>3. \A i \in 1 .. Len(records) : after[i] \in RefreshToken
  BY <1>1, <1>2 DEF RefreshToken
<1>4. after \in Seq(RefreshToken) /\ Len(after) = Len(records)
  <2>1. after \in [1 .. Len(records) -> RefreshToken]
    BY <1>0, <1>3
  <2> QED
    BY <1>1, <2>1
<1>5. \A i \in 1 .. Len(records) :
         /\ after[i].family = records[i].family
         /\ after[i].employee = records[i].employee
         /\ after[i].revoked = (records[i].revoked \/ i \in those)
  BY <1>1, <1>2 DEF RefreshToken
<1> QED
  BY <1>4, <1>5

(* Tokens: a row stems from an older one, and a request speaks of rows     *)
(* there are, however many requests of one employee overlap.               *)
Speaks(req, n) ==
  /\ req.step \in {"rotate", "endFamily"} => req.token \in 1 .. n
  /\ req.step \in {"issue", "enable"} => req.employee \in Staff

Stems(row, i) == row.parent < i /\ row.family \in 1 .. i

TokenTypes ==
  /\ tokens \in Seq(RefreshToken) /\ \A i \in 1 .. Len(tokens) : Stems(tokens[i], i)
  /\ ended \subseteq Nat /\ secrets \in Nat /\ time \in Nat
  /\ staff \in [Staff -> Employee] /\ \A e \in Staff : staff[e].secret <= secrets
  /\ confirmed \subseteq 1 .. secrets
  /\ serving \in [Handlers -> Service] /\ \A h \in Handlers : Speaks(serving[h], Len(tokens))

(* What the step of a handler may write of tokens and requests.            *)
LEMMA TokensWritten ==
  ASSUME TokenTypes, NEW h \in Handlers, NEW r \in Service,
         serving' = serving \/ serving' = [serving EXCEPT ![h] = r],
         tokens' \in Seq(RefreshToken), Len(tokens') >= Len(tokens), Speaks(r, Len(tokens)),
         \A i \in 1 .. Len(tokens') : Stems(tokens'[i], i),
         ended' \subseteq Nat, UNCHANGED <<staff, confirmed, secrets, time>>
  PROVE  TokenTypes'
<1>1. /\ serving' \in [Handlers -> Service] /\ Len(tokens) \in Nat /\ Len(tokens') \in Nat
      /\ \A g \in Handlers : serving'[g] = r \/ serving'[g] = serving[g]
  BY DEF TokenTypes
<1>2. \A g \in Handlers : Speaks(serving'[g], Len(tokens))
  BY <1>1 DEF TokenTypes
<1>3. \A g \in Handlers : Speaks(serving'[g], Len(tokens'))
  BY <1>1, <1>2 DEF Speaks
<1> QED
  BY <1>1, <1>3 DEF TokenTypes

(* What the step of a handler may write of the employees' second factors.  *)
LEMMA StaffWritten ==
  ASSUME TokenTypes, NEW h \in Handlers, NEW r \in Service,
         serving' = serving \/ serving' = [serving EXCEPT ![h] = r],
         Speaks(r, Len(tokens)), UNCHANGED <<tokens, ended, time>>,
         staff' \in [Staff -> Employee], \A e \in Staff : staff'[e].secret <= secrets',
         secrets' \in Nat, confirmed' \subseteq 1 .. secrets'
  PROVE  TokenTypes'
<1>1. /\ serving' \in [Handlers -> Service]
      /\ \A g \in Handlers : serving'[g] = r \/ serving'[g] = serving[g]
  BY DEF TokenTypes
<1>2. \A g \in Handlers : Speaks(serving'[g], Len(tokens'))
  BY <1>1 DEF TokenTypes
<1> QED
  BY <1>1, <1>2 DEF TokenTypes

(* A row added at the end.                                                 *)
LEMMA TokenAdded ==
  ASSUME NEW s \in Seq(RefreshToken), \A i \in 1 .. Len(s) : Stems(s[i], i),
         NEW row \in RefreshToken, Stems(row, Len(s) + 1), NEW after, after = Append(s, row)
  PROVE  /\ after \in Seq(RefreshToken) /\ Len(after) = Len(s) + 1
         /\ \A i \in 1 .. Len(after) : Stems(after[i], i)
<1>1. /\ after \in Seq(RefreshToken) /\ Len(after) = Len(s) + 1 /\ after[Len(s) + 1] = row /\ Len(s) \in Nat
      /\ \A i \in 1 .. Len(s) : after[i] = s[i]
  BY AppendProperties
<1>2. \A i \in 1 .. Len(after) : i \in 1 .. Len(s) \/ i = Len(s) + 1
  BY <1>1
<1> QED
  BY <1>1, <1>2

(* Rows that are revoked stem from what they stemmed from.                 *)
LEMMA RevokedStem ==
  ASSUME NEW s \in Seq(RefreshToken), \A i \in 1 .. Len(s) : Stems(s[i], i), NEW those,
         NEW after, after = Revoked(s, those)
  PROVE  /\ after \in Seq(RefreshToken) /\ Len(after) = Len(s)
         /\ \A i \in 1 .. Len(after) : Stems(after[i], i)
<1>1. after \in Seq(RefreshToken) /\ Len(after) = Len(s)
  BY RevokedRows
<1>2. \A i \in 1 .. Len(s) : after[i] = IF i \in those THEN [s[i] EXCEPT !.revoked = TRUE] ELSE s[i]
  BY DEF Revoked
<1>3. \A i \in 1 .. Len(s) : after[i].parent = s[i].parent /\ after[i].family = s[i].family
  <2>1. \A i \in 1 .. Len(s) : s[i] \in RefreshToken
    OBVIOUS
  <2> QED
    BY <1>2, <2>1 DEF RefreshToken
<1> QED
  BY <1>1, <1>3 DEF Stems

(* Whatever is asked, and by however many at once.                         *)
LEMMA TokensTyped == TokensSpec => []TokensTypeOK
<1> USE TokensAssumption
<1>1. Free \in Service /\ Free.step = "free" /\ \A n \in Nat : Speaks(Free, n)
  <2>1. Free \in Service /\ Free.step = "free"
    BY DEF Free, Service, NoSecret
  <2> QED
    BY <2>1 DEF Speaks
<1>2. TokensInit => TokenTypes
  <2> SUFFICES ASSUME TokensInit PROVE TokenTypes
    OBVIOUS
  <2>1. NewEmployee \in Employee /\ NewEmployee.secret = 0
    BY DEF NewEmployee, Employee, NoSecret
  <2>2. tokens \in Seq(RefreshToken) /\ Len(tokens) = 0
    BY DEF TokensInit
  <2>3. \A h \in Handlers : serving[h] = Free
    BY DEF TokensInit
  <2> QED
    BY <1>1, <2>1, <2>2, <2>3 DEF TokensInit, TokenTypes
<1>3. TokenTypes /\ [TokensNext]_tokenVars => TokenTypes'
  <2> SUFFICES ASSUME TokenTypes, [TokensNext]_tokenVars PROVE TokenTypes'
    OBVIOUS
  <2>1. /\ tokens \in Seq(RefreshToken) /\ Len(tokens) \in Nat /\ Issued = 1 .. Len(tokens)
        /\ \A i \in 1 .. Len(tokens) : tokens[i] \in RefreshToken /\ Stems(tokens[i], i) /\ i \in Nat
        /\ ended \subseteq Nat /\ secrets \in Nat /\ time \in Nat /\ confirmed \subseteq 1 .. secrets
        /\ staff \in [Staff -> Employee] /\ \A e \in Staff : staff[e] \in Employee /\ staff[e].secret <= secrets
        /\ \A h \in Handlers : serving[h] \in Service /\ Speaks(serving[h], Len(tokens))
    BY DEF TokenTypes, Issued
  <2>2. time + RefreshTtl \in Nat
    BY <2>1
  <2>3. ASSUME NEW h \in Handlers, NEW r \in Service, NEW step, Serve(h, step, r),
               step \in {"issue", "rotate", "endFamily", "enable"},
               step \in {"rotate", "endFamily"} => r.token \in 1 .. Len(tokens),
               step \in {"issue", "enable"} => r.employee \in Staff
        PROVE  \E q \in Service : serving' = [serving EXCEPT ![h] = q] /\ Speaks(q, Len(tokens))
    <3>1. PICK q : q = [r EXCEPT !.step = step]
      OBVIOUS
    <3>2. q \in Service /\ q.step = step /\ q.token = r.token /\ q.employee = r.employee
      BY <2>3, <3>1 DEF Service
    <3>3. serving' = [serving EXCEPT ![h] = q]
      BY <2>3, <3>1 DEF Serve
    <3> QED
      BY <2>3, <3>2, <3>3 DEF Speaks
  <2>4. ASSUME NEW h \in Handlers, NEW e \in Staff, Login(h, e) PROVE TokenTypes'
    <3>1. PICK r : r = [Free EXCEPT !.employee = e]
      OBVIOUS
    <3>2. r \in Service /\ r.employee = e
      BY <1>1, <3>1 DEF Service
    <3>3. Serve(h, "issue", r) /\ UNCHANGED <<staff, tokens, ended, confirmed, secrets, time>>
      BY <2>4, <3>1 DEF Login
    <3>4. PICK q \in Service : serving' = [serving EXCEPT ![h] = q] /\ Speaks(q, Len(tokens))
      BY <2>3, <3>2, <3>3
    <3>5. /\ tokens' \in Seq(RefreshToken) /\ Len(tokens') >= Len(tokens) /\ ended' \subseteq Nat
          /\ \A i \in 1 .. Len(tokens') : Stems(tokens'[i], i)
      BY <2>1, <3>3
    <3> QED
      BY <3>3, <3>4, <3>5, TokensWritten
  <2>5. ASSUME NEW h \in Handlers, NEW i \in Issued, Refresh(h, i) PROVE TokenTypes'
    <3>1. PICK r : r = [Free EXCEPT !.token = i]
      OBVIOUS
    <3>2. r \in Service /\ r.token = i /\ i \in 1 .. Len(tokens)
      <4>1. i \in Nat /\ i \in 1 .. Len(tokens)
        BY <2>1
      <4> QED
        BY <1>1, <3>1, <4>1 DEF Service
    <3>3. /\ Serve(h, IF Valid(i) THEN "rotate" ELSE "endFamily", r)
          /\ UNCHANGED <<staff, tokens, ended, confirmed, secrets, time>>
      BY <2>5, <3>1 DEF Refresh
    <3>4. PICK step \in {"rotate", "endFamily"} : Serve(h, step, r)
      BY <3>3
    <3>5. PICK q \in Service : serving' = [serving EXCEPT ![h] = q] /\ Speaks(q, Len(tokens))
      BY <2>3, <3>2, <3>4
    <3>6. /\ tokens' \in Seq(RefreshToken) /\ Len(tokens') >= Len(tokens) /\ ended' \subseteq Nat
          /\ \A j \in 1 .. Len(tokens') : Stems(tokens'[j], j)
      BY <2>1, <3>3
    <3> QED
      BY <3>3, <3>5, <3>6, TokensWritten
  <2>6. ASSUME NEW h \in Handlers, IssueTokens(h) PROVE TokenTypes'
    <3>1. PICK row : row = Row(serving[h].employee, Len(tokens) + 1, 0)
      OBVIOUS
    <3>2. serving[h].employee \in Staff
      BY <2>1, <2>6 DEF IssueTokens, Speaks
    <3>3. row \in RefreshToken /\ Stems(row, Len(tokens) + 1)
      BY <2>1, <2>2, <3>1, <3>2 DEF Row, RefreshToken, Stems
    <3>4. /\ tokens' = Append(tokens, row) /\ serving' = [serving EXCEPT ![h] = Free]
          /\ UNCHANGED <<staff, ended, confirmed, secrets, time>>
      BY <2>6, <3>1 DEF IssueTokens, Done
    <3>5. /\ tokens' \in Seq(RefreshToken) /\ Len(tokens') = Len(tokens) + 1
          /\ \A i \in 1 .. Len(tokens') : Stems(tokens'[i], i)
      BY <2>1, <3>3, <3>4, TokenAdded
    <3>6. Len(tokens') >= Len(tokens) /\ ended' \subseteq Nat /\ Speaks(Free, Len(tokens))
      BY <1>1, <2>1, <3>4, <3>5
    <3> QED
      BY <1>1, <3>4, <3>5, <3>6, TokensWritten
  <2>7. ASSUME NEW h \in Handlers, EndFamily(h) PROVE TokenTypes'
    <3>1. PICK i, those : i = serving[h].token /\ those = FamilyOf(i)
      OBVIOUS
    <3>2. i \in 1 .. Len(tokens)
      BY <2>1, <2>7, <3>1 DEF EndFamily, Speaks
    <3>3. /\ tokens' = Revoked(tokens, those) /\ ended' = ended \cup {tokens[i].family}
          /\ serving' = [serving EXCEPT ![h] = Free] /\ UNCHANGED <<staff, confirmed, secrets, time>>
      BY <2>7, <3>1 DEF EndFamily, Done
    <3>4. /\ tokens' \in Seq(RefreshToken) /\ Len(tokens') = Len(tokens)
          /\ \A j \in 1 .. Len(tokens') : Stems(tokens'[j], j)
      BY <2>1, <3>3, RevokedStem
    <3>5. tokens[i].family \in Nat
      <4>1. tokens[i] \in RefreshToken
        BY <2>1, <3>2
      <4> QED
        BY <4>1 DEF RefreshToken
    <3>6. Len(tokens') >= Len(tokens) /\ ended' \subseteq Nat /\ Speaks(Free, Len(tokens))
      <4>1. /\ ended \subseteq Nat /\ ended' = ended \cup {tokens[i].family}
            /\ Len(tokens) \in Nat /\ Len(tokens') = Len(tokens)
        BY <2>1, <3>3, <3>4
      <4>2. Speaks(Free, Len(tokens))
        BY <1>1, <4>1
      <4>3. Len(tokens') >= Len(tokens)
        BY <4>1
      <4>4. ended' \subseteq Nat
        BY <3>5, <4>1
      <4> QED
        BY <4>2, <4>3, <4>4
    <3> QED
      BY <1>1, <3>3, <3>4, <3>6, TokensWritten
  <2>8. ASSUME NEW h \in Handlers, Rotate(h) PROVE TokenTypes'
    <3>1. PICK i, those, rest : i = serving[h].token /\ those = Replaced(i) /\ rest = Revoked(tokens, those)
      OBVIOUS
    <3>2. i \in 1 .. Len(tokens)
      BY <2>1, <2>8, <3>1 DEF Rotate, Speaks
    <3>3. PICK row : row = Row(tokens[i].employee, tokens[i].family, i)
      OBVIOUS
    <3>4. /\ tokens' = Append(rest, row)
          /\ serving' = [serving EXCEPT ![h] = Free] /\ UNCHANGED <<staff, ended, confirmed, secrets, time>>
      BY <2>8, <3>1, <3>3 DEF Rotate, Done
    <3>5. /\ rest \in Seq(RefreshToken) /\ Len(rest) = Len(tokens)
          /\ \A j \in 1 .. Len(rest) : Stems(rest[j], j)
      BY <2>1, <3>1, RevokedStem
    <3>6. row \in RefreshToken /\ Stems(row, Len(rest) + 1)
      <4>1. /\ tokens[i].employee \in Staff /\ tokens[i].family \in Nat /\ tokens[i].family \in 1 .. i
            /\ i \in Nat /\ i <= Len(tokens)
        <5>1. tokens[i] \in RefreshToken /\ Stems(tokens[i], i) /\ i \in Nat /\ i <= Len(tokens)
          BY <2>1, <3>2
        <5> QED
          BY <5>1 DEF RefreshToken, Stems
      <4>2. PICK expiry \in Nat : expiry = time + RefreshTtl
        BY <2>2
      <4>3. row = [employee |-> tokens[i].employee, family |-> tokens[i].family, parent |-> i,
                   revoked |-> FALSE, expiresAt |-> expiry]
        BY <3>3, <4>2 DEF Row
      <4>4. row \in RefreshToken /\ row.parent = i /\ row.family = tokens[i].family
        BY <4>1, <4>2, <4>3 DEF RefreshToken
      <4>5. Len(rest) \in Nat /\ i <= Len(rest)
        BY <2>1, <3>5, <4>1
      <4>6. tokens[i].family \in 1 .. Len(rest) + 1 /\ i < Len(rest) + 1
        BY <4>1, <4>5
      <4> QED
        BY <4>4, <4>6 DEF Stems
    <3>7. /\ tokens' \in Seq(RefreshToken) /\ Len(tokens') = Len(rest) + 1
          /\ \A j \in 1 .. Len(tokens') : Stems(tokens'[j], j)
      BY <3>4, <3>5, <3>6, TokenAdded
    <3>8. Len(tokens') >= Len(tokens) /\ ended' \subseteq Nat /\ Speaks(Free, Len(tokens))
      BY <1>1, <2>1, <3>4, <3>5, <3>7
    <3> QED
      BY <1>1, <3>4, <3>7, <3>8, TokensWritten
  <2>9. ASSUME NEW h \in Handlers, NEW i \in Issued, Logout(h, i) PROVE TokenTypes'
    <3>1. PICK those : those = {i}
      OBVIOUS
    <3>2. /\ tokens' = Revoked(tokens, those) /\ ended' \subseteq ended \cup {tokens[i].family}
          /\ serving' = serving /\ UNCHANGED <<staff, confirmed, secrets, time>>
      BY <2>9, <3>1 DEF Logout
    <3>3. /\ tokens' \in Seq(RefreshToken) /\ Len(tokens') = Len(tokens)
          /\ \A j \in 1 .. Len(tokens') : Stems(tokens'[j], j)
      BY <2>1, <3>2, RevokedStem
    <3>4. tokens[i].family \in Nat
      <4>1. tokens[i] \in RefreshToken
        BY <2>1
      <4> QED
        BY <4>1 DEF RefreshToken
    <3>5. Len(tokens') >= Len(tokens) /\ ended' \subseteq Nat /\ Speaks(Free, Len(tokens))
      BY <1>1, <2>1, <3>2, <3>3, <3>4
    <3> QED
      BY <1>1, <3>2, <3>3, <3>5, TokensWritten
  <2>10. ASSUME NEW h \in Handlers, NEW e \in Staff, TwoFactorSetup(h, e) PROVE TokenTypes'
    <3>1. PICK row : row = Pending(e)
      OBVIOUS
    <3>2. row \in Employee /\ row.secret = secrets + 1
      <4>1. staff[e] \in Employee /\ secrets + 1 \in Nat
        BY <2>1
      <4> QED
        BY <3>1, <4>1 DEF Pending, Employee
    <3>3. /\ secrets' = secrets + 1 /\ staff' = [staff EXCEPT ![e] = row]
          /\ UNCHANGED <<tokens, ended, confirmed, serving, time>>
      BY <2>10, <3>1 DEF TwoFactorSetup
    <3>4. /\ staff' \in [Staff -> Employee] /\ secrets' \in Nat /\ confirmed' \subseteq 1 .. secrets'
          /\ Speaks(Free, Len(tokens))
      BY <1>1, <2>1, <3>2, <3>3
    <3>5. \A f \in Staff : staff'[f].secret <= secrets'
      <4>1. \A f \in Staff : staff[f].secret \in Nat
        BY <2>1 DEF Employee
      <4> QED
        BY <2>1, <3>2, <3>3, <4>1
    <3> QED
      BY <1>1, <3>3, <3>4, <3>5, StaffWritten
  <2>11. ASSUME NEW h \in Handlers, NEW e \in Staff, TwoFactorEnable(h, e) PROVE TokenTypes'
    <3>1. PICK secret : secret = staff[e].secret
      OBVIOUS
    <3>2. secret \in 1 .. secrets /\ secret \in Nat
      <4>1. secret \in Nat /\ secret <= secrets /\ secret # 0
        BY <2>1, <2>11, <3>1 DEF TwoFactorEnable, Employee, NoSecret
      <4> QED
        BY <2>1, <4>1
    <3>3. PICK r : r = [Free EXCEPT !.employee = e, !.secret = secret]
      OBVIOUS
    <3>4. r \in Service /\ r.employee = e
      BY <1>1, <3>2, <3>3 DEF Service
    <3>5. Serve(h, "enable", r) /\ confirmed' = confirmed \cup {secret}
          /\ UNCHANGED <<staff, tokens, ended, secrets, time>>
      BY <2>11, <3>1, <3>3 DEF TwoFactorEnable
    <3>6. PICK q \in Service : serving' = [serving EXCEPT ![h] = q] /\ Speaks(q, Len(tokens))
      BY <2>3, <3>4, <3>5
    <3>7. /\ staff' \in [Staff -> Employee] /\ (\A f \in Staff : staff'[f].secret <= secrets')
          /\ secrets' \in Nat /\ confirmed' \subseteq 1 .. secrets'
      BY <2>1, <3>2, <3>5
    <3> QED
      BY <3>5, <3>6, <3>7, StaffWritten
  <2>12. ASSUME NEW h \in Handlers, StoreEnabled(h) PROVE TokenTypes'
    <3>1. PICK e : e = serving[h].employee
      OBVIOUS
    <3>2. e \in Staff
      BY <2>1, <2>12, <3>1 DEF StoreEnabled, Speaks
    <3>3. PICK row : row = [staff[e] EXCEPT !.enabled = TRUE]
      OBVIOUS
    <3>4. row \in Employee /\ row.secret = staff[e].secret
      BY <2>1, <3>2, <3>3 DEF Employee
    <3>5. /\ staff' = [staff EXCEPT ![e] = row] /\ serving' = [serving EXCEPT ![h] = Free]
          /\ UNCHANGED <<tokens, ended, confirmed, secrets, time>>
      <4>1. /\ staff' = [staff EXCEPT ![e].enabled = TRUE] /\ serving' = [serving EXCEPT ![h] = Free]
            /\ UNCHANGED <<tokens, ended, confirmed, secrets, time>>
        BY <2>12, <3>1 DEF StoreEnabled, Done
      <4> QED
        BY <2>1, <3>2, <3>3, <4>1
    <3>6. /\ staff' \in [Staff -> Employee] /\ (\A f \in Staff : staff'[f].secret <= secrets')
          /\ secrets' \in Nat /\ confirmed' \subseteq 1 .. secrets' /\ Speaks(Free, Len(tokens))
      BY <1>1, <2>1, <3>2, <3>4, <3>5
    <3> QED
      BY <1>1, <3>5, <3>6, StaffWritten
  <2>13. ASSUME NEW h \in Handlers, NEW e \in Staff, TwoFactorDisable(h, e) PROVE TokenTypes'
    <3>1. PICK row : row = [staff[e] EXCEPT !.enabled = FALSE, !.secret = 0]
      OBVIOUS
    <3>2. row \in Employee /\ row.secret = 0
      BY <2>1, <3>1 DEF Employee
    <3>3. /\ staff' = [staff EXCEPT ![e] = row]
          /\ UNCHANGED <<tokens, ended, confirmed, secrets, serving, time>>
      BY <2>13, <3>1 DEF TwoFactorDisable, NoSecret
    <3>4. /\ staff' \in [Staff -> Employee] /\ (\A f \in Staff : staff'[f].secret <= secrets')
          /\ secrets' \in Nat /\ confirmed' \subseteq 1 .. secrets' /\ Speaks(Free, Len(tokens))
      BY <1>1, <2>1, <3>2, <3>3
    <3> QED
      BY <1>1, <3>3, <3>4, StaffWritten
  <2>14. ASSUME NEW e \in Staff, UpdateStatus(e) PROVE TokenTypes'
    <3>1. PICK row : row = [staff[e] EXCEPT !.active = ~ staff[e].active]
      OBVIOUS
    <3>2. row \in Employee /\ row.secret = staff[e].secret
      <4>1. (~ staff[e].active) \in BOOLEAN
        BY <2>1 DEF Employee
      <4> QED
        BY <2>1, <3>1, <4>1 DEF Employee
    <3>3. /\ staff' = [staff EXCEPT ![e] = row]
          /\ UNCHANGED <<tokens, ended, confirmed, secrets, serving, time>>
      <4>1. /\ staff' = [staff EXCEPT ![e].active = ~ staff[e].active]
            /\ UNCHANGED <<tokens, ended, confirmed, secrets, serving, time>>
        BY <2>14 DEF UpdateStatus
      <4> QED
        BY <2>1, <3>1, <4>1
    <3>4. staff' \in [Staff -> Employee] /\ \A f \in Staff : staff'[f].secret <= secrets
      BY <2>1, <3>2, <3>3
    <3> QED
      BY <3>3, <3>4 DEF TokenTypes
  <2>15. CASE PassTime
    BY <2>1, <2>15 DEF PassTime, TokenTypes
  <2>16. CASE UNCHANGED tokenVars
    BY <2>16 DEF tokenVars, TokenTypes
  <2> QED
    BY <2>4, <2>5, <2>6, <2>7, <2>8, <2>9, <2>10, <2>11, <2>12, <2>13, <2>14, <2>15, <2>16 DEF TokensNext
<1>4. TokenTypes => TokensTypeOK
  <2> SUFFICES ASSUME TokenTypes PROVE TokensTypeOK
    OBVIOUS
  <2> QED
    BY DEF TokenTypes, TokensTypeOK, Issued, Stems, Speaks
<1> QED
  BY <1>2, <1>3, <1>4, PTL DEF TokensSpec
===============================================================================
