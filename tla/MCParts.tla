------------------------------- MODULE MCParts -------------------------------
(* The parts of the system that share no state and send each other nothing, *)
(* for TLC: a behaviour belongs to one part, chosen at the start, and the   *)
(* others stay as they are.  Interleaving them would add no behaviour to    *)
(* any of them.                                                             *)
EXTENDS Tokens, CashDrawer, Numbers, Profiles, Meter,
        Kiosk, Checkout, Forms, Bootstrap, Inbox, Consents, Worklists, Reports

CONSTANTS e1, h1, c1, c2, t1, t2, n1, n2, g1, s1,
          k1, k2, p1, p2, m1, m2, a1, a2, q1, q2, r1, r2, good1, good2

VARIABLE part

Parts == {"tokens", "cash", "numbers", "profiles", "meter",
          "kiosk", "two kiosks", "checkout", "forms", "bootstrap", "inbox", "consents", "worklists", "reports"}

Init ==
  /\ part \in Parts
  /\ TokensInit /\ CashInit /\ NumbersInit /\ ProfilesInit /\ MeterInit
  /\ KioskInit /\ CheckoutInit /\ FormsInit /\ BootstrapInit /\ InboxInit /\ ConsentsInit
  /\ WorklistsInit /\ ReportsInit
  /\ part # "meter" => pricing = CHOOSE p \in Tariffs : TRUE
  /\ part # "forms" => shape = "copy"
  /\ part # "worklists" => list = "ticket"

(* The part of that name takes a step of its own, the others none.         *)
PartSteps(name, next) ==
  /\ part = name /\ next
  /\ UNCHANGED part
  /\ name # "tokens" => UNCHANGED tokenVars
  /\ name # "cash" => UNCHANGED cashVars
  /\ name # "numbers" => UNCHANGED numberVars
  /\ name # "profiles" => UNCHANGED profileVars
  /\ name # "meter" => UNCHANGED meterVars
  /\ name \notin {"kiosk", "two kiosks"} => UNCHANGED kioskVars
  /\ name # "checkout" => UNCHANGED checkoutVars
  /\ name # "forms" => UNCHANGED formVars
  /\ name # "bootstrap" => UNCHANGED bootstrapVars
  /\ name # "inbox" => UNCHANGED inboxVars
  /\ name # "consents" => UNCHANGED consentVars
  /\ name # "worklists" => UNCHANGED worklistVars
  /\ name # "reports" => UNCHANGED reportVars

(* Two customers at one kiosk of a server that goes on, or two kiosks that  *)
(* are given the phone of one customer, who only signs in, and a server     *)
(* that restarts; all at once are too many states.                          *)
OneKiosk == page'[k2] = FirstPage /\ restarts' = restarts
OneCustomer ==
  /\ \A k \in Kiosks : page'[k].phone # p2
  /\ <<deeds, blocked, clock>>' = <<deeds, blocked, clock>>

Next ==
  \/ PartSteps("tokens", TokensNext)
  \/ PartSteps("cash", CashNext)
  \/ PartSteps("numbers", NumbersNext)
  \/ PartSteps("profiles", ProfilesNext)
  \/ PartSteps("meter", TimeRuns)
  \/ PartSteps("kiosk", KioskNext /\ OneKiosk)
  \/ PartSteps("two kiosks", KioskNext /\ OneCustomer)
  \/ PartSteps("checkout", CheckoutNext)
  \/ PartSteps("forms", FormsNext)
  \/ PartSteps("bootstrap", BootstrapNext)
  \/ PartSteps("inbox", InboxNext)
  \/ PartSteps("consents", ConsentsNext)
  \/ PartSteps("worklists", WorklistsNext)
  \/ PartSteps("reports", ReportsNext)

Spec == Init /\ [][Next]_<<part, tokenVars, cashVars, numberVars, profileVars, meterVars,
                           kioskVars, checkoutVars, formVars, bootstrapVars, inboxVars, consentVars,
                           worklistVars, reportVars>>

(* What can be typed into the form that is checked: into one field, zero    *)
(* among it, and nothing into the other, which every save sends along.     *)
TypableInto == [f \in Fields |-> IF f = Minutes THEN {0, 1} ELSE {}]

(* The part that runs has its type; the others are as they started.        *)
TypeOK ==
  /\ part = "tokens" => TokensTypeOK
  /\ part = "cash" => CashTypeOK
  /\ part = "numbers" => NumbersTypeOK
  /\ part = "profiles" => ProfilesTypeOK
  /\ part \in {"kiosk", "two kiosks"} => KioskTypeOK
  /\ part = "checkout" => CheckoutTypeOK
  /\ part = "forms" => FormsTypeOK
  /\ part = "bootstrap" => BootstrapTypeOK
  /\ part = "inbox" => InboxTypeOK
  /\ part = "consents" => ConsentsTypeOK
  /\ part = "worklists" => WorklistsTypeOK
  /\ part = "reports" => ReportsTypeOK
==============================================================================
