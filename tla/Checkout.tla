------------------------------- MODULE Checkout -------------------------------
(***************************************************************************)
(* The till page (pos/page.tsx) and its card dialog (nedarim-payment.tsx), *)
(* with what they call: a sale, the preparation of a card payment, and the *)
(* status that is polled while the provider's callback is awaited.  What a *)
(* sale is and does on the server is in Sales; here it has a status.       *)
(* An answer, a callback and a poll may be lost or late.                   *)
(***************************************************************************)
EXTENDS Integers, Sequences, FiniteSets

CONSTANTS
  Goods,      \* what can be put in the cart
  MaxSales,   \* bound: sales
  MaxCharges  \* bound: charges of one payment

ASSUME CheckoutAssumption == {MaxSales, MaxCharges} \subseteq Nat

VARIABLES
  cart,       \* goods in the cart
  selling,    \* how far the sale is that the page waits for
  preparing,  \* the card payments the page waits for
  dialog,     \* the open dialog: the payment its fields are of, and that it polls
  polling,    \* payments that an open or closed dialog polls
  reply,      \* what the provider's frame has posted to the dialog
  sales,      \* the statuses of the Sale rows, by age; a card sale has one payment
  asked,      \* charges the provider was asked for, with the dialog that asked
  charges,    \* the charges made, as a sequence of sales (history)
  callbacks,  \* charges whose callback is on its way
  gaveUp      \* payments whose confirmation the page stopped waiting for (history)

checkoutVars == <<cart, selling, preparing, dialog, polling, reply, sales, asked, charges,
                  callbacks, gaveUp>>
pageVars == <<cart, selling, preparing>>
providerVars == <<asked, charges, callbacks>>

NoDialog == [pays |-> 0, polls |-> 0, status |-> "idle", busy |-> FALSE]

CheckoutInit ==
  /\ cart = {} /\ selling = "none" /\ preparing = {}
  /\ dialog = NoDialog /\ polling = {} /\ reply = "none"
  /\ sales = << >>
  /\ asked = {} /\ charges = << >> /\ callbacks = {}
  /\ gaveUp = {}

-------------------------------------------------------------------------------
(* The cart.  The dialog covers the page; while an answer is awaited the   *)
(* cart can be edited.                                                     *)

EditCart == \E g \in Goods :
  /\ dialog = NoDialog
  /\ cart' = IF g \in cart THEN cart \ {g} ELSE cart \cup {g}
  /\ UNCHANGED <<selling, preparing, dialog, polling, reply, sales, providerVars, gaveUp>>

Emptied == cart' = {}

(* A sale of the cart, under a new idempotency key at every press.         *)
Sell ==
  /\ dialog = NoDialog /\ cart # {} /\ selling = "none"
  /\ selling' = "asked"
  /\ UNCHANGED <<cart, preparing, dialog, polling, reply, sales, providerVars, gaveUp>>

CreateSale ==
  /\ selling = "asked" /\ Len(sales) < MaxSales
  /\ sales' = Append(sales, "COMPLETED")
  /\ selling' = "answered"
  /\ UNCHANGED <<cart, preparing, dialog, polling, reply, providerVars, gaveUp>>

Sold ==
  /\ selling = "answered"
  /\ Emptied
  /\ selling' = "none"
  /\ UNCHANGED <<preparing, dialog, polling, reply, sales, providerVars, gaveUp>>

SellFailed ==
  /\ selling # "none"
  /\ selling' = "none"
  /\ UNCHANGED <<cart, preparing, dialog, polling, reply, sales, providerVars, gaveUp>>

(* The card button stays enabled while it waits: it can be pressed twice.  *)
PayWithNedarim ==
  /\ dialog = NoDialog /\ cart # {}
  /\ Len(sales) < MaxSales
  /\ sales' = Append(sales, "PENDING")
  /\ preparing' = preparing \cup {Len(sales) + 1}
  /\ UNCHANGED <<cart, selling, dialog, polling, reply, providerVars, gaveUp>>

(* The dialog that is open already gets the new fields, and still polls    *)
(* the payment it was opened with: its listener was set up once.           *)
Prepared == \E s \in preparing :
  /\ preparing' = preparing \ {s}
  /\ dialog' = IF dialog = NoDialog THEN [NoDialog EXCEPT !.pays = s, !.polls = s]
               ELSE [dialog EXCEPT !.pays = s]
  /\ UNCHANGED <<cart, selling, polling, reply, sales, providerVars, gaveUp>>

PrepareFailed == \E s \in preparing :
  /\ preparing' = preparing \ {s}
  /\ UNCHANGED <<cart, selling, dialog, polling, reply, sales, providerVars, gaveUp>>

-------------------------------------------------------------------------------
(* The dialog.                                                             *)

Pay ==
  /\ dialog # NoDialog /\ ~ dialog.busy
  /\ dialog' = [dialog EXCEPT !.busy = TRUE, !.status = "processing"]
  /\ asked' = asked \cup {[sale |-> dialog.pays, dialog |-> dialog.polls]}
  /\ UNCHANGED <<pageVars, polling, reply, sales, charges, callbacks, gaveUp>>

(* The provider's frame says that the card was refused, or charged.        *)
Refused(shown) == [shown EXCEPT !.busy = FALSE, !.status = "idle"]
ConfirmingIdle(shown) == [shown EXCEPT !.busy = FALSE, !.status = "confirming"]
Confirming(shown) == [shown EXCEPT !.status = "confirming"]

TransactionResponse ==
  /\ dialog # NoDialog /\ reply # "none"
  /\ IF reply = "error"
     THEN dialog' = Refused(dialog) /\ UNCHANGED polling
     ELSE dialog' = Confirming(dialog) /\ polling' = polling \cup {dialog.polls}
  /\ reply' = "none"
  /\ UNCHANGED <<pageVars, sales, providerVars, gaveUp>>

(* A poll that sees the payment completed ends as the page was when its    *)
(* dialog was opened, whatever dialog is open now.                         *)
Completed(s) == sales[s] = "COMPLETED"
Succeeded == dialog' = NoDialog /\ reply' = "none" /\ Emptied

PollCompleted == \E s \in polling :
  /\ Completed(s)
  /\ Succeeded
  /\ polling' = polling \ {s}
  /\ UNCHANGED <<selling, preparing, sales, providerVars, gaveUp>>

PollGivesUp == \E s \in polling :
  /\ polling' = polling \ {s}
  /\ IF dialog.polls = s
     THEN dialog' = Refused(dialog) /\ gaveUp' = gaveUp \cup {dialog.pays}
     ELSE UNCHANGED <<dialog, gaveUp>>
  /\ UNCHANGED <<pageVars, reply, sales, providerVars>>

(* The corner button and the manual confirmation work while it is busy.    *)
Cancel ==
  /\ dialog # NoDialog
  /\ dialog' = NoDialog /\ reply' = "none"
  /\ UNCHANGED <<pageVars, polling, sales, providerVars, gaveUp>>

(* In production the server refuses to settle by hand, and the page does   *)
(* not look at the answer.                                                 *)
Settled(s) == [sales EXCEPT ![s] = "COMPLETED"]
DevConfirm == \E settled \in BOOLEAN :
  /\ dialog # NoDialog
  /\ sales' = IF settled THEN Settled(dialog.pays) ELSE sales
  /\ Succeeded
  /\ UNCHANGED <<selling, preparing, polling, providerVars, gaveUp>>

-------------------------------------------------------------------------------
(* The provider, and its callback to the server.                           *)

Posted(request, text) == reply' = IF dialog.polls = request.dialog THEN text ELSE reply

Charge == \E request \in asked : LET s == request.sale IN
  /\ Cardinality({i \in DOMAIN charges : charges[i] = s}) < MaxCharges
  /\ charges' = Append(charges, s)
  /\ callbacks' = callbacks \cup {s}
  /\ asked' = asked \ {request}
  /\ Posted(request, "ok")
  /\ UNCHANGED <<pageVars, dialog, polling, sales, gaveUp>>

Refuse == \E request \in asked :
  /\ asked' = asked \ {request}
  /\ Posted(request, "error")
  /\ UNCHANGED <<pageVars, dialog, polling, sales, charges, callbacks, gaveUp>>

HandleCallback == \E s \in callbacks, arrives \in BOOLEAN :
  /\ sales' = IF arrives THEN Settled(s) ELSE sales
  /\ callbacks' = callbacks \ {s}
  /\ UNCHANGED <<pageVars, dialog, polling, reply, asked, charges, gaveUp>>

CheckoutNext ==
  \/ EditCart \/ Sell \/ CreateSale \/ Sold \/ SellFailed
  \/ PayWithNedarim \/ Prepared \/ PrepareFailed
  \/ Pay \/ TransactionResponse \/ PollCompleted \/ PollGivesUp \/ Cancel \/ DevConfirm
  \/ Charge \/ Refuse \/ HandleCallback

CheckoutSpec == CheckoutInit /\ [][CheckoutNext]_checkoutVars

-------------------------------------------------------------------------------
CheckoutTypeOK ==
  /\ cart \subseteq Goods
  /\ preparing \cup polling \cup callbacks \cup gaveUp \subseteq DOMAIN sales
  /\ {dialog.pays, dialog.polls} \subseteq {0} \cup DOMAIN sales

(* A card is charged twice for one payment only when the page had stopped  *)
(* waiting for the first charge and told the clerk so (pollStatus gives up *)
(* after a minute): the dialog is busy until then.                         *)
ChargedAgainOnlyAfterGivingUp == \A i, j \in DOMAIN charges :
  i # j /\ charges[i] = charges[j] => charges[i] \in gaveUp
===============================================================================
