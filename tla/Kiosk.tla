-------------------------------- MODULE Kiosk --------------------------------
(***************************************************************************)
(* The self-service kiosk: KioskService, which sends one-time codes and    *)
(* signs customers in, and the page a kiosk shows.  A page has one call at *)
(* a time; the call carries the phone, the code and the token the page had *)
(* when its button was pressed, and may fail or be lost at any point.  A   *)
(* phone stands for its customer.  What a purchase and an opened station   *)
(* do is in Sales and Sessions; here they only count.                      *)
(***************************************************************************)
EXTENDS Integers, Sequences

CONSTANTS
  Kiosks,       \* kiosk pages
  Phones,       \* customers, by phone
  CodeTtl,      \* how long a code is accepted
  SignInTtl,    \* how long a sign-in lasts
  MaxCodes,     \* bound: codes sent
  MaxSignIns,   \* bound: sign-ins
  MaxDeeds,     \* bound: purchases
  MaxClock,     \* bound of the clock
  MaxRestarts   \* bound: restarts of the server

ASSUME KioskAssumption ==
  {CodeTtl, SignInTtl, MaxCodes, MaxSignIns, MaxDeeds, MaxClock, MaxRestarts} \subseteq Nat

VARIABLES
  otps,      \* phone -> its current code, in the memory of the process
  codes,     \* codes sent so far, by age
  signIns,   \* kiosk tokens issued so far, by age
  blocked,   \* customers that are not ACTIVE
  deeds,     \* phone -> purchases of the customer
  restarts,  \* times the server was restarted
  clock,
  page,      \* kiosk -> the state of the page
  call       \* kiosk -> the call it waits for

kioskVars == <<otps, codes, signIns, blocked, deeds, restarts, clock, page, call>>
serverVars == <<otps, codes, signIns, blocked, deeds, restarts, clock>>

NoPhone == "no phone"
NoCode == 0
Unsigned == 0
Blank == [phone |-> NoPhone, deeds |-> 0]

FirstPage == [step |-> "phone", phone |-> NoPhone, code |-> NoCode, token |-> Unsigned,
              shown |-> Blank, busy |-> FALSE]
NoCall == [kind |-> "none", at |-> "none", phone |-> NoPhone, code |-> NoCode,
           token |-> Unsigned, shown |-> Blank]

KioskInit ==
  /\ otps = [p \in Phones |-> NoCode]
  /\ codes = << >> /\ signIns = << >>
  /\ blocked = {}
  /\ deeds = [p \in Phones |-> 0]
  /\ restarts = 0 /\ clock = 0
  /\ page = [k \in Kiosks |-> FirstPage]
  /\ call = [k \in Kiosks |-> NoCall]

-------------------------------------------------------------------------------
(* The page.  Its fields can be edited while it waits, its buttons cannot  *)
(* be pressed; "finish" always can.                                        *)

Waits(k, at) == call[k].at = at
Answer(k, answer) == call' = [call EXCEPT ![k] = answer]

TypePhone(k) == \E p \in Phones :
  /\ page[k].step = "phone" /\ page[k].phone # p
  /\ page' = [page EXCEPT ![k].phone = p]
  /\ UNCHANGED <<serverVars, call>>

(* A customer types a code that was sent, to whatever phone and whenever.  *)
TypeCode(k) == \E c \in 1 .. Len(codes) :
  /\ page[k].step = "code" /\ page[k].code # c
  /\ page' = [page EXCEPT ![k].code = c]
  /\ UNCHANGED <<serverVars, call>>

Offered(kind, shown) ==
  CASE kind = "request" -> shown.step = "phone" /\ shown.phone # NoPhone
    [] kind = "verify" -> shown.step = "code" /\ shown.code # NoCode
    [] kind \in {"buy", "open"} -> shown.step = "home"

Press(k, kind) ==
  /\ ~ page[k].busy /\ Offered(kind, page[k])
  /\ page' = [page EXCEPT ![k].busy = TRUE]
  /\ Answer(k, [kind |-> kind, at |-> "asked", phone |-> page[k].phone, code |-> page[k].code,
                token |-> page[k].token, shown |-> Blank])
  /\ UNCHANGED serverVars

(* "Finish / another user" forgets the customer but not what is shown of   *)
(* him, and leaves a call that is under way to end.                        *)
Finished(shown) == [shown EXCEPT !.step = "phone", !.phone = NoPhone, !.code = NoCode,
                                 !.token = Unsigned]
Finish(k) ==
  /\ page[k].step = "home"
  /\ page' = [page EXCEPT ![k] = Finished(@)]
  /\ UNCHANGED <<serverVars, call>>

(* What an answer does to the page.  A sign-in, a purchase and an opened   *)
(* station are followed by a call that loads the home page.                *)
CodeSent(k) ==
  /\ Waits(k, "answered") /\ call[k].kind = "request"
  /\ page' = [page EXCEPT ![k].step = "code", ![k].busy = FALSE]
  /\ Answer(k, NoCall)
  /\ UNCHANGED serverVars

HomeAtOnce(shown, token) == [shown EXCEPT !.token = token, !.step = "home"]
SignedIn(shown, token) == [shown EXCEPT !.token = token]

LoadHome(k) ==
  /\ Waits(k, "answered") /\ call[k].kind # "request"
  /\ page' = IF call[k].kind = "verify" THEN [page EXCEPT ![k] = SignedIn(@, call[k].token)] ELSE page
  /\ Answer(k, [call[k] EXCEPT !.at = "loading"])
  /\ UNCHANGED serverVars

HomeLoaded(k) ==
  /\ Waits(k, "loaded")
  /\ page' = [page EXCEPT ![k].shown = call[k].shown, ![k].busy = FALSE,
                          ![k].step = IF call[k].kind = "verify" THEN "home" ELSE @]
  /\ Answer(k, NoCall)
  /\ UNCHANGED serverVars

(* The call was refused or lost, before or after it was served: a message. *)
Failed(k) ==
  /\ call[k] # NoCall
  /\ page' = [page EXCEPT ![k].busy = FALSE]
  /\ Answer(k, NoCall)
  /\ UNCHANGED serverVars

Reload(k) ==
  /\ page[k] # FirstPage
  /\ page' = [page EXCEPT ![k] = FirstPage]
  /\ Answer(k, NoCall)
  /\ UNCHANGED serverVars

-------------------------------------------------------------------------------
(* The service.                                                            *)

(* A phone of no active customer is answered alike, and gets no code.      *)
RequestOtp(k) == LET p == call[k].phone IN
  /\ Waits(k, "asked") /\ call[k].kind = "request"
  /\ Len(codes) < MaxCodes
  /\ IF p \in blocked THEN UNCHANGED <<codes, otps>>
     ELSE /\ codes' = Append(codes, [phone |-> p, at |-> clock, process |-> restarts])
          /\ otps' = [otps EXCEPT ![p] = Len(codes) + 1]
  /\ Answer(k, [call[k] EXCEPT !.at = "answered"])
  /\ UNCHANGED <<signIns, blocked, deeds, restarts, clock, page>>

(* Verification reads the customer, and then tests and takes the code in   *)
(* one step of the process.                                                *)
ResolveCustomer(k) ==
  /\ Waits(k, "asked") /\ call[k].kind = "verify"
  /\ call[k].phone \notin blocked
  /\ Answer(k, [call[k] EXCEPT !.at = "resolved"])
  /\ UNCHANGED <<serverVars, page>>

Accepts(p, c) == otps[p] = c /\ c # NoCode /\ clock <= codes[c].at + CodeTtl

StillKnown(p) == otps
Forgotten(p) == [otps EXCEPT ![p] = NoCode]

VerifyOtp(k) == LET p == call[k].phone IN
  /\ Waits(k, "resolved") /\ Accepts(p, call[k].code)
  /\ Len(signIns) < MaxSignIns
  /\ otps' = Forgotten(p)
  /\ signIns' = Append(signIns, [phone |-> p, code |-> call[k].code, at |-> clock,
                                 process |-> restarts, sent |-> Len(codes)])
  /\ Answer(k, [call[k] EXCEPT !.at = "answered", !.token = Len(signIns) + 1])
  /\ UNCHANGED <<codes, blocked, deeds, restarts, clock, page>>

Auth(token) == token # Unsigned /\ clock < signIns[token].at + SignInTtl

Buy(k) == LET p == signIns[call[k].token].phone IN
  /\ Waits(k, "asked") /\ call[k].kind = "buy" /\ Auth(call[k].token)
  /\ deeds[p] < MaxDeeds
  /\ deeds' = [deeds EXCEPT ![p] = @ + 1]
  /\ Answer(k, [call[k] EXCEPT !.at = "answered"])
  /\ UNCHANGED <<otps, codes, signIns, blocked, restarts, clock, page>>

OpenStation(k) ==
  /\ Waits(k, "asked") /\ call[k].kind = "open" /\ Auth(call[k].token)
  /\ Answer(k, [call[k] EXCEPT !.at = "answered"])
  /\ UNCHANGED <<serverVars, page>>

Me(k) == LET p == signIns[call[k].token].phone IN
  /\ Waits(k, "loading") /\ Auth(call[k].token)
  /\ Answer(k, [call[k] EXCEPT !.at = "loaded", !.shown = [phone |-> p, deeds |-> deeds[p]]])
  /\ UNCHANGED <<serverVars, page>>

Block(p) ==
  /\ p \notin blocked
  /\ blocked' = blocked \cup {p}
  /\ UNCHANGED <<otps, codes, signIns, deeds, restarts, clock, page, call>>

(* The codes are lost with the process, and so are the calls it is serving.*)
Restart ==
  /\ restarts < MaxRestarts
  /\ restarts' = restarts + 1
  /\ otps' = [p \in Phones |-> NoCode]
  /\ call' = [k \in Kiosks |-> IF Waits(k, "resolved") THEN [call[k] EXCEPT !.at = "lost"] ELSE call[k]]
  /\ UNCHANGED <<codes, signIns, blocked, deeds, clock, page>>

ClockTicks ==
  /\ clock < MaxClock
  /\ clock' = clock + 1
  /\ UNCHANGED <<otps, codes, signIns, blocked, deeds, restarts, page, call>>

KioskNext ==
  \/ \E k \in Kiosks :
       \/ TypePhone(k) \/ TypeCode(k) \/ Finish(k) \/ Reload(k)
       \/ \E kind \in {"request", "verify", "buy", "open"} : Press(k, kind)
       \/ CodeSent(k) \/ LoadHome(k) \/ HomeLoaded(k) \/ Failed(k)
       \/ RequestOtp(k) \/ ResolveCustomer(k) \/ VerifyOtp(k)
       \/ Buy(k) \/ OpenStation(k) \/ Me(k)
  \/ \E p \in Phones : Block(p)
  \/ Restart \/ ClockTicks

KioskSpec == KioskInit /\ [][KioskNext]_kioskVars

-------------------------------------------------------------------------------
KioskTypeOK ==
  /\ otps \in [Phones -> 0 .. MaxCodes]
  /\ deeds \in [Phones -> 0 .. MaxDeeds]
  /\ blocked \subseteq Phones
  /\ \A k \in Kiosks : page[k].busy = (call[k] # NoCall)
  /\ \A k \in Kiosks : page[k].token \in 0 .. Len(signIns) /\ page[k].code \in 0 .. Len(codes)

(* A customer signs in with the code that was sent to his phone last, in   *)
(* time and to the process that sent it, and a code signs nobody in twice: *)
(* not when two kiosks enter it at once, and not after its answer was lost *)
(* (KioskService.verifyOtp tests and deletes it after the awaits).         *)
SignInsAreEarned == \A i \in 1 .. Len(signIns) : LET s == signIns[i] c == codes[s.code] IN
  /\ c.phone = s.phone /\ c.process = s.process /\ s.at <= c.at + CodeTtl
  /\ \A later \in s.code + 1 .. s.sent : codes[later].phone # s.phone
  /\ \A j \in 1 .. i - 1 : signIns[j].code # s.code

(* The home page shows the name and the balance of the customer who is     *)
(* signed in, although a call of the customer before him that was under    *)
(* way when he finished writes what it loaded to the same page: the page   *)
(* stays busy until it has.                                                *)
ShownIsSignedIn == \A k \in Kiosks :
  page[k].step = "home" => page[k].shown.phone = signIns[page[k].token].phone

===============================================================================
