-------------------------------- MODULE Numbers --------------------------------
(***************************************************************************)
(* Numbers given one after the other: invoices and customers count up a    *)
(* column of OrganizationSettings, maintenance tickets and places on the   *)
(* waiting list come after the highest so far.  Requests overlap and die   *)
(* between their database calls; the transactions are READ COMMITTED, and  *)
(* an update locks its row until the transaction ends.                     *)
(***************************************************************************)
EXTENDS Integers, Sequences, FiniteSetsExt

CONSTANTS
  Writers,      \* requests served at the same time
  JoinsOverlap, \* whether two customers may join the waiting list at once
  MaxNumber,    \* bound: rows of each kind, and numbers drawn
  MaxAborts     \* bound: requests that die

ASSUME NumbersAssumption ==
  /\ JoinsOverlap \in BOOLEAN
  /\ {MaxNumber, MaxAborts} \subseteq Nat

VARIABLES
  invoiceNumberSeq, customerNumberSeq,
  invoices,   \* the numbers of the Invoice rows by age
  customers,  \* those of the Customer rows
  tickets,    \* those of the MaintenanceTicket rows
  queue,      \* the positions of the WaitingListEntry rows by age
  writer,     \* writer -> the request being served
  aborts

numberVars == <<invoiceNumberSeq, customerNumberSeq, invoices, customers, tickets, queue,
                writer, aborts>>

Away == [step |-> "away", number |-> 0]

NumbersInit ==
  /\ invoiceNumberSeq = 0 /\ customerNumberSeq = 0
  /\ invoices = << >> /\ customers = << >> /\ tickets = << >> /\ queue = << >>
  /\ writer = [w \in Writers |-> Away]
  /\ aborts = 0

Highest(numbers) == Max({0} \cup {numbers[i] : i \in 1 .. Len(numbers)})

Draw(w, step, number) ==
  /\ writer[w] = Away
  /\ number <= MaxNumber
  /\ writer' = [writer EXCEPT ![w] = [step |-> step, number |-> number]]
Leave(w) == writer' = [writer EXCEPT ![w] = Away]

-------------------------------------------------------------------------------
(* issueInvoice: the increment is invisible and holds its row until the    *)
(* transaction that creates the invoice commits.                           *)

NotLocked == TRUE
SettingsFree == \A w \in Writers : writer[w].step # "invoice"

IssueInvoice(w) ==
  /\ SettingsFree
  /\ Draw(w, "invoice", invoiceNumberSeq + 1)
  /\ UNCHANGED <<invoiceNumberSeq, customerNumberSeq, invoices, customers, tickets, queue, aborts>>

CommitInvoice(w) ==
  /\ writer[w].step = "invoice"
  /\ invoiceNumberSeq' = writer[w].number
  /\ invoices' = Append(invoices, writer[w].number)
  /\ Leave(w)
  /\ UNCHANGED <<customerNumberSeq, customers, tickets, queue, aborts>>

(* nextCustomerNumber is a statement of its own; it waits for the row too. *)
NextCustomerNumber(w) ==
  /\ SettingsFree
  /\ Draw(w, "customer", customerNumberSeq + 1)
  /\ customerNumberSeq' = customerNumberSeq + 1
  /\ UNCHANGED <<invoiceNumberSeq, invoices, customers, tickets, queue, aborts>>

CreateCustomer(w) ==
  /\ writer[w].step = "customer"
  /\ customers' = Append(customers, writer[w].number)
  /\ Leave(w)
  /\ UNCHANGED <<invoiceNumberSeq, customerNumberSeq, invoices, tickets, queue, aborts>>

(* An import draws a number for every line of its file, also in a          *)
(* statement of its own, and goes on with the next line when a customer    *)
(* cannot be created.                                                      *)
ImportLine(w) ==
  /\ SettingsFree
  /\ Draw(w, "import", customerNumberSeq + 1)
  /\ customerNumberSeq' = customerNumberSeq + 1
  /\ UNCHANGED <<invoiceNumberSeq, invoices, customers, tickets, queue, aborts>>

EndLine(w) == \E created \in BOOLEAN :
  /\ writer[w].step = "import"
  /\ customers' = IF created THEN Append(customers, writer[w].number) ELSE customers
  /\ Leave(w)
  /\ UNCHANGED <<invoiceNumberSeq, customerNumberSeq, invoices, tickets, queue, aborts>>

(* A ticket's transaction reads the highest number and inserts; the unique *)
(* index makes the later of two equal numbers fail.                        *)
OpenTicket(w) ==
  /\ Draw(w, "ticket", Highest(tickets) + 1)
  /\ UNCHANGED <<invoiceNumberSeq, customerNumberSeq, invoices, customers, tickets, queue, aborts>>

Taken(number) == \E i \in 1 .. Len(tickets) : tickets[i] = number

CreateTicket(w) ==
  /\ writer[w].step = "ticket"
  /\ tickets' = IF Taken(writer[w].number) THEN tickets ELSE Append(tickets, writer[w].number)
  /\ Leave(w)
  /\ UNCHANGED <<invoiceNumberSeq, customerNumberSeq, invoices, customers, queue, aborts>>

-------------------------------------------------------------------------------
(* The waiting list.                                                       *)

WithTheLast == Highest(queue)
AfterTheLast == Highest(queue) + 1

Join(w) ==
  /\ JoinsOverlap \/ \A other \in Writers : writer[other].step # "join"
  /\ Draw(w, "join", AfterTheLast)
  /\ UNCHANGED <<invoiceNumberSeq, customerNumberSeq, invoices, customers, tickets, queue, aborts>>

CreateEntry(w) ==
  /\ writer[w].step = "join"
  /\ queue' = Append(queue, writer[w].number)
  /\ Leave(w)
  /\ UNCHANGED <<invoiceNumberSeq, customerNumberSeq, invoices, customers, tickets, aborts>>

LeaveQueue(i) ==
  /\ queue' = SubSeq(queue, 1, i - 1) \o SubSeq(queue, i + 1, Len(queue))
  /\ UNCHANGED <<invoiceNumberSeq, customerNumberSeq, invoices, customers, tickets, writer, aborts>>

(* A request dies; an open transaction is rolled back.                     *)
Die(w) ==
  /\ writer[w] # Away
  /\ aborts < MaxAborts
  /\ aborts' = aborts + 1
  /\ Leave(w)
  /\ UNCHANGED <<invoiceNumberSeq, customerNumberSeq, invoices, customers, tickets, queue>>

NumbersNext ==
  \/ \E w \in Writers :
       \/ IssueInvoice(w) \/ CommitInvoice(w)
       \/ NextCustomerNumber(w) \/ CreateCustomer(w)
       \/ ImportLine(w) \/ EndLine(w)
       \/ OpenTicket(w) \/ CreateTicket(w)
       \/ Join(w) \/ CreateEntry(w)
       \/ Die(w)
  \/ \E i \in 1 .. Len(queue) : LeaveQueue(i)

NumbersSpec == NumbersInit /\ [][NumbersNext]_numberVars

-------------------------------------------------------------------------------
NumbersTypeOK ==
  /\ {invoiceNumberSeq, customerNumberSeq, aborts} \subseteq Nat
  /\ {invoices, customers, tickets, queue} \subseteq Seq(Nat \ {0})
  /\ writer \in [Writers -> [step : {"away", "invoice", "customer", "import", "ticket", "join"},
                             number : Nat]]

Consecutive(numbers) == \A i \in 1 .. Len(numbers) : numbers[i] = i

(* "Issue a numbered fiscal document for a sale (per-tenant sequence)":    *)
(* invoices are numbered in the order they were issued, none twice and     *)
(* none left out, however many are issued at once and whichever fail.      *)
InvoicesConsecutive == Consecutive(invoices) /\ Len(invoices) = invoiceNumberSeq

(* Tickets too are numbered without a gap: the one whose insert fails      *)
(* takes no number.                                                        *)
TicketsConsecutive == Consecutive(tickets)

(* Two customers never have one number, also when creating one fails.      *)
CustomerNumbersDistinct ==
  \A i, j \in 1 .. Len(customers) : customers[i] = customers[j] => i = j

(* Who joined the waiting list later stands behind who was there before.   *)
NobodyOvertaken ==
  \A i, j \in 1 .. Len(queue) : i < j => queue[i] < queue[j]

(* All four hold together, whichever requests overlap and die.             *)
NumberedInOrder ==
  InvoicesConsecutive /\ TicketsConsecutive /\ CustomerNumbersDistinct /\ NobodyOvertaken
===============================================================================
