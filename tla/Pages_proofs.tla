----------------------------- MODULE Pages_proofs -----------------------------
(***************************************************************************)
(* Proofs about the pages, with the handlers they call: for each an        *)
(* invariant that the actions keep and that says what its property says,   *)
(* and more: what is under way, what it has read, and how that compares    *)
(* with what is stored by now.  A property that needs a flag of its module *)
(* is not proved but checked, with the flag as the configuration has it.   *)
(* Numbers of processes, rows and customers are arbitrary, and so is the   *)
(* length of a behaviour.                                                  *)
(***************************************************************************)
EXTENDS MCParts, Services_proofs, Pricing_proofs

-------------------------------------------------------------------------------
(* Kiosk.  A page is busy while it has a call, and a call was made for the *)
(* customer whose token the page still has.                                *)

Shown == [phone : Phones \cup {NoPhone}, deeds : Nat]
Page == [step : {"phone", "code", "home"}, phone : Phones \cup {NoPhone}, code : Nat,
         token : Nat, shown : Shown, busy : BOOLEAN]
Call == [kind : {"none", "request", "verify", "buy", "open"},
         at : {"none", "asked", "resolved", "answered", "loading", "loaded", "lost"},
         phone : Phones \cup {NoPhone}, code : Nat, token : Nat, shown : Shown]
Code == [phone : Phones, at : Nat, process : Nat]
SignIn == [phone : Phones, code : Nat, at : Nat, process : Nat, sent : Nat]

KioskRows ==
  /\ otps \in [Phones -> Nat] /\ deeds \in [Phones -> Nat]
  /\ codes \in Seq(Code) /\ signIns \in Seq(SignIn)
  /\ restarts \in Nat /\ clock \in Nat
  /\ \A j \in 1 .. Len(signIns) : signIns[j].code \in 1 .. Len(codes) /\ signIns[j].sent <= Len(codes)

(* The code that the process holds for a phone is the last one sent to it, *)
(* was sent by this process and has signed nobody in.                      *)
CodesHeld == \A p \in Phones : otps[p] # NoCode =>
  /\ otps[p] \in 1 .. Len(codes)
  /\ codes[otps[p]].phone = p /\ codes[otps[p]].process = restarts
  /\ \A later \in otps[p] + 1 .. Len(codes) : codes[later].phone # p
  /\ \A j \in 1 .. Len(signIns) : signIns[j].code # otps[p]

(* A page and the call it waits for are about one sign-in.                 *)
Together(p, c, records) ==
  /\ p \in Page /\ c \in Call
  /\ p.busy <=> c # NoCall
  /\ p.token <= Len(records) /\ c.token <= Len(records)
  /\ p.step = "code" => p.phone \in Phones
  /\ p.step = "home" => p.token # Unsigned /\ p.shown.phone = records[p.token].phone
  /\ c.kind = "none" => c = NoCall
  /\ c.kind = "request" => p.step = "phone" /\ p.phone \in Phones /\ c.phone \in Phones
  /\ c.kind = "verify" => p.step = "code" /\ c.phone \in Phones
  /\ c.kind \in {"buy", "open"} =>
       p.step \in {"home", "phone"} /\ (p.step = "home" => p.token = c.token)
  /\ c.at = "resolved" => c.kind = "verify"
  /\ c.kind = "verify" /\ c.at \in {"loading", "loaded"} => p.token = c.token
  /\ c.at = "loaded" => c.token # Unsigned /\ c.shown.phone = records[c.token].phone

OnePageInv(k) == Together(page[k], call[k], signIns)

PagesInv ==
  /\ page \in [Kiosks -> Page] /\ call \in [Kiosks -> Call]
  /\ \A k \in Kiosks : OnePageInv(k)

KioskInv == KioskRows /\ CodesHeld /\ PagesInv /\ SignInsAreEarned

(* No code was sent and nobody has signed in.                              *)
LEMMA KioskStart == KioskInit => KioskInv
<1> SUFFICES ASSUME KioskInit PROVE KioskInv
  OBVIOUS
<1>1. Blank \in Shown /\ Blank.phone = NoPhone
  BY DEF Blank, Shown
<1>2. FirstPage \in Page /\ NoCall \in Call
  BY <1>1 DEF FirstPage, NoCall, Page, Call, NoCode, Unsigned
<1>3. Len(codes) = 0 /\ Len(signIns) = 0 /\ codes \in Seq(Code) /\ signIns \in Seq(SignIn)
  BY DEF KioskInit
<1>4. ASSUME NEW k \in Kiosks PROVE OnePageInv(k)
  <2>1. page[k] = FirstPage /\ call[k] = NoCall
    BY DEF KioskInit
  <2>2. FirstPage.step = "phone" /\ FirstPage.token = 0 /\ FirstPage.busy = FALSE
        /\ NoCall.kind = "none" /\ NoCall.at = "none" /\ NoCall.token = 0
    BY DEF FirstPage, NoCall, Unsigned
  <2> QED
    BY <1>2, <1>3, <2>1, <2>2 DEF OnePageInv, Together
<1> QED
  BY <1>2, <1>3, <1>4 DEF KioskInit, KioskInv, KioskRows, CodesHeld, PagesInv, SignInsAreEarned, NoCode

(* A step of one kiosk: the pages of the others stay.                      *)
LEMMA OnePage ==
  ASSUME PagesInv, NEW k \in Kiosks, NEW p, NEW c,
         page' = [page EXCEPT ![k] = p], call' = [call EXCEPT ![k] = c],
         Together(p, c, signIns'), Len(signIns) <= Len(signIns'), signIns \in Seq(SignIn), signIns' \in Seq(SignIn),
         \A j \in 1 .. Len(signIns) : signIns'[j] = signIns[j]
  PROVE  PagesInv'
<1>1. page'[k] = p /\ call'[k] = c
  BY DEF PagesInv
<1>2. OnePageInv(k)'
  BY <1>1 DEF OnePageInv
<1>3. page' \in [Kiosks -> Page] /\ call' \in [Kiosks -> Call]
  BY <1>1, <1>2 DEF PagesInv, OnePageInv, Together
<1>4. ASSUME NEW j \in Kiosks, j # k PROVE OnePageInv(j)'
  <2>1. page'[j] = page[j] /\ call'[j] = call[j] /\ OnePageInv(j)
    BY <1>4 DEF PagesInv
  <2>2. page[j].token \in Nat /\ call[j].token \in Nat /\ Len(signIns) \in Nat /\ Len(signIns') \in Nat
    BY <2>1 DEF OnePageInv, Together, Page, Call
  <2> QED
    BY <2>1, <2>2 DEF OnePageInv, Together, Unsigned
<1> QED
  BY <1>2, <1>3, <1>4 DEF PagesInv

(* Steps of a page change nothing on the server.                           *)
LEMMA KioskPageStep ==
  ASSUME KioskInv, UNCHANGED serverVars, NEW k \in Kiosks, NEW p, NEW c,
         page' = [page EXCEPT ![k] = p], call' = [call EXCEPT ![k] = c],
         Together(p, c, signIns)
  PROVE  KioskInv'
<1>1. UNCHANGED <<otps, codes, signIns, blocked, deeds, restarts, clock>>
  BY DEF serverVars
<1>2. PagesInv'
  <2>1. Len(signIns) <= Len(signIns') /\ signIns \in Seq(SignIn) /\ signIns' \in Seq(SignIn)
        /\ \A j \in 1 .. Len(signIns) : signIns'[j] = signIns[j]
    BY <1>1 DEF KioskInv, KioskRows
  <2> QED
    BY <1>1, <2>1, OnePage DEF KioskInv
<1> QED
  BY <1>1, <1>2 DEF KioskInv, KioskRows, CodesHeld, SignInsAreEarned

(* The steps that are only the page's.                                     *)
LEMMA PageSteps ==
  ASSUME KioskInv, NEW k \in Kiosks,
         \/ TypePhone(k) \/ TypeCode(k) \/ Finish(k) \/ Reload(k)
         \/ \E kind \in {"request", "verify", "buy", "open"} : Press(k, kind)
         \/ CodeSent(k) \/ LoadHome(k) \/ HomeLoaded(k) \/ Failed(k)
  PROVE  KioskInv'
<1>1. Together(page[k], call[k], signIns) /\ page \in [Kiosks -> Page] /\ call \in [Kiosks -> Call]
      /\ page = [page EXCEPT ![k] = page[k]] /\ call = [call EXCEPT ![k] = call[k]]
  BY DEF KioskInv, PagesInv, OnePageInv
<1>2. Blank \in Shown /\ Blank.phone = NoPhone /\ FirstPage \in Page /\ NoCall \in Call
      /\ FirstPage.step = "phone" /\ FirstPage.token = 0 /\ ~ FirstPage.busy
      /\ NoCall.kind = "none" /\ NoCall.at = "none" /\ NoCall.token = 0
  BY DEF Blank, Shown, FirstPage, NoCall, Page, Call, NoCode, Unsigned
<1>3. Len(signIns) \in Nat /\ Len(codes) \in Nat
  BY DEF KioskInv, KioskRows
<1>4. CASE TypePhone(k)
  <2>1. PICK p \in Phones : page[k].step = "phone" /\ page' = [page EXCEPT ![k].phone = p] /\ UNCHANGED <<serverVars, call>>
    BY <1>4 DEF TypePhone
  <2> DEFINE q == [page[k] EXCEPT !.phone = p]
  <2>2. page' = [page EXCEPT ![k] = q] /\ call' = [call EXCEPT ![k] = call[k]] /\ UNCHANGED serverVars
    BY <1>1, <2>1
  <2>3. q \in Page /\ q.step = "phone" /\ q.phone = p /\ q.token = page[k].token /\ q.busy = page[k].busy
    BY <1>1, <2>1 DEF Page
  <2> HIDE DEF q
  <2>4. Together(q, call[k], signIns)
    BY <1>1, <2>1, <2>2, <2>3 DEF Together
  <2> QED
    BY <2>2, <2>4, KioskPageStep
<1>5. CASE TypeCode(k)
  <2>1. PICK c \in 1 .. Len(codes) : page' = [page EXCEPT ![k].code = c] /\ UNCHANGED <<serverVars, call>>
    BY <1>5 DEF TypeCode
  <2> DEFINE q == [page[k] EXCEPT !.code = c]
  <2>2. page' = [page EXCEPT ![k] = q] /\ call' = [call EXCEPT ![k] = call[k]] /\ UNCHANGED serverVars
    BY <1>1, <2>1
  <2>3. q \in Page /\ q.step = page[k].step /\ q.phone = page[k].phone /\ q.token = page[k].token
        /\ q.busy = page[k].busy /\ q.shown = page[k].shown
    <3>1. c \in Nat /\ page[k] \in Page
      BY <1>1, <1>3, <2>1
    <3> QED
      BY <3>1 DEF Page
  <2> HIDE DEF q
  <2>4. Together(q, call[k], signIns)
    BY <1>1, <2>1, <2>2, <2>3 DEF Together
  <2> QED
    BY <2>2, <2>4, KioskPageStep
<1>6. CASE Finish(k)
  <2> DEFINE q == Finished(page[k])
  <2>1. page' = [page EXCEPT ![k] = q] /\ call' = [call EXCEPT ![k] = call[k]] /\ UNCHANGED serverVars
    BY <1>1, <1>6 DEF Finish
  <2>2. q \in Page /\ q.step = "phone" /\ q.token = 0 /\ q.busy = page[k].busy
    BY <1>1 DEF Page, Together, Finished, NoCode, Unsigned
  <2>3. page[k].step = "home"
    BY <1>6 DEF Finish
  <2> HIDE DEF q
  <2>4. Together(q, call[k], signIns)
    BY <1>1, <1>3, <2>1, <2>2, <2>3 DEF Together
  <2> QED
    BY <2>1, <2>4, KioskPageStep
<1>7. CASE Reload(k)
  <2>1. page' = [page EXCEPT ![k] = FirstPage] /\ call' = [call EXCEPT ![k] = NoCall] /\ UNCHANGED serverVars
    BY <1>7 DEF Reload, Answer
  <2>2. Together(FirstPage, NoCall, signIns)
    BY <1>2, <1>3, <2>1 DEF Together
  <2> QED
    BY <2>1, <2>2, KioskPageStep
<1>8. ASSUME NEW kind \in {"request", "verify", "buy", "open"}, Press(k, kind) PROVE KioskInv'
  <2> DEFINE q == [page[k] EXCEPT !.busy = TRUE]
             c == [kind |-> kind, at |-> "asked", phone |-> page[k].phone, code |-> page[k].code,
                   token |-> page[k].token, shown |-> Blank]
  <2>1. page' = [page EXCEPT ![k] = q] /\ call' = [call EXCEPT ![k] = c] /\ UNCHANGED serverVars
        /\ Offered(kind, page[k])
    BY <1>1, <1>8 DEF Press, Answer
  <2>2. q \in Page /\ q.step = page[k].step /\ q.phone = page[k].phone /\ q.token = page[k].token
        /\ q.busy = TRUE /\ q.shown = page[k].shown
    BY <1>1 DEF Page, Together
  <2>3. c \in Call /\ c.kind = kind /\ c.at = "asked" /\ c.phone = page[k].phone /\ c.token = page[k].token
    BY <1>1, <1>2 DEF Page, Call, Together
  <2>4. /\ kind = "request" => page[k].step = "phone" /\ page[k].phone \in Phones
        /\ kind = "verify" => page[k].step = "code"
        /\ kind \in {"buy", "open"} => page[k].step = "home"
    BY <1>1, <2>1 DEF Offered, Together, Page
  <2> HIDE DEF q, c
  <2>5. Together(q, c, signIns)
    BY <1>1, <1>2, <2>1, <2>2, <2>3, <2>4 DEF Together
  <2> QED
    BY <2>1, <2>5, KioskPageStep
<1>9. CASE CodeSent(k)
  <2> DEFINE q == [page[k] EXCEPT !.step = "code", !.busy = FALSE]
  <2>1. page' = [page EXCEPT ![k] = q] /\ call' = [call EXCEPT ![k] = NoCall] /\ UNCHANGED serverVars
        /\ call[k].kind = "request"
    BY <1>1, <1>9 DEF CodeSent, Answer
  <2>2. q \in Page /\ q.step = "code" /\ q.phone = page[k].phone /\ q.token = page[k].token
        /\ q.busy = FALSE
    BY <1>1 DEF Page, Together
  <2> HIDE DEF q
  <2>3. Together(q, NoCall, signIns)
    BY <1>1, <1>2, <1>3, <2>1, <2>2 DEF Together
  <2> QED
    BY <2>1, <2>3, KioskPageStep
<1>10. CASE LoadHome(k)
  <2> DEFINE q == IF call[k].kind = "verify" THEN SignedIn(page[k], call[k].token) ELSE page[k]
             c == [call[k] EXCEPT !.at = "loading"]
  <2>1. page' = [page EXCEPT ![k] = q] /\ call' = [call EXCEPT ![k] = c] /\ UNCHANGED serverVars
        /\ call[k].kind # "request"
    BY <1>1, <1>10 DEF LoadHome, Answer
  <2>2. call[k].kind \in {"verify", "buy", "open"}
    BY <1>1, <1>2, <1>10 DEF LoadHome, Waits, Together, Call
  <2>3. q \in Page /\ q.step = page[k].step /\ q.phone = page[k].phone
        /\ q.token = (IF call[k].kind = "verify" THEN call[k].token ELSE page[k].token)
        /\ q.busy = page[k].busy /\ q.shown = page[k].shown
    BY <1>1 DEF Page, Together, Call, SignedIn
  <2>4. c \in Call /\ c.kind = call[k].kind /\ c.at = "loading" /\ c.phone = call[k].phone
        /\ c.token = call[k].token
    BY <1>1 DEF Together, Call
  <2> HIDE DEF q, c
  <2>5. Together(q, c, signIns)
    BY <1>1, <1>2, <2>1, <2>2, <2>3, <2>4 DEF Together
  <2> QED
    BY <2>1, <2>5, KioskPageStep
<1>11. CASE HomeLoaded(k)
  <2> DEFINE s == IF call[k].kind = "verify" THEN "home" ELSE page[k].step
             q == [page[k] EXCEPT !.shown = call[k].shown, !.busy = FALSE, !.step = s]
  <2>1. page' = [page EXCEPT ![k] = q] /\ call' = [call EXCEPT ![k] = NoCall] /\ UNCHANGED serverVars
        /\ call[k].at = "loaded"
    BY <1>1, <1>11 DEF HomeLoaded, Answer, Waits
  <2>2. q \in Page /\ q.step = s /\ q.phone = page[k].phone /\ q.token = page[k].token
        /\ q.busy = FALSE /\ q.shown = call[k].shown
    BY <1>1 DEF Page, Together, Call
  <2>3. call[k].kind # "none" /\ call[k].kind \in {"none", "request", "verify", "buy", "open"}
    BY <1>1, <1>2, <2>1 DEF Together, Call
  <2>4. s = "home" => page[k].token = call[k].token
    BY <1>1, <2>1, <2>3 DEF Together
  <2>5. s = "code" => page[k].step = "code"
    OBVIOUS
  <2> HIDE DEF q, s
  <2>6. Together(q, NoCall, signIns)
    BY <1>1, <1>2, <1>3, <2>1, <2>2, <2>4, <2>5 DEF Together, Unsigned
  <2> QED
    BY <2>1, <2>6, KioskPageStep
<1>12. CASE Failed(k)
  <2> DEFINE q == [page[k] EXCEPT !.busy = FALSE]
  <2>1. page' = [page EXCEPT ![k] = q] /\ call' = [call EXCEPT ![k] = NoCall] /\ UNCHANGED serverVars
    BY <1>1, <1>12 DEF Failed, Answer
  <2>2. q \in Page /\ q.step = page[k].step /\ q.phone = page[k].phone /\ q.token = page[k].token
        /\ q.busy = FALSE /\ q.shown = page[k].shown
    BY <1>1 DEF Page, Together
  <2> HIDE DEF q
  <2>3. Together(q, NoCall, signIns)
    BY <1>1, <1>2, <1>3, <2>1, <2>2 DEF Together
  <2> QED
    BY <2>1, <2>3, KioskPageStep
<1> QED
  BY <1>4, <1>5, <1>6, <1>7, <1>8, <1>9, <1>10, <1>11, <1>12

(* Steps of the service for one call, which leave the pages.               *)
LEMMA ServiceCall ==
  ASSUME KioskInv, NEW k \in Kiosks, NEW c \in Call,
         UNCHANGED page, call' = [call EXCEPT ![k] = c], c # NoCall,
         c.kind = call[k].kind, c.phone = call[k].phone, c.kind # "none",
         c.at = "resolved" => c.kind = "verify",
         c.token = call[k].token \/ (call[k].kind = "verify" /\ c.at = "answered"),
         c.token <= Len(signIns'),
         c.at \in {"loading", "loaded"} => call[k].at = "loading" /\ c.token = call[k].token,
         c.at = "loaded" => c.token # Unsigned /\ c.shown.phone = signIns[c.token].phone,
         Len(signIns) <= Len(signIns'), signIns' \in Seq(SignIn),
         \A j \in 1 .. Len(signIns) : signIns'[j] = signIns[j]
  PROVE  PagesInv'
<1>1. PagesInv /\ OnePageInv(k) /\ page' = [page EXCEPT ![k] = page[k]] /\ signIns \in Seq(SignIn)
      /\ Len(signIns) \in Nat /\ Len(signIns') \in Nat
  BY DEF KioskInv, PagesInv, KioskRows
<1>2. page[k].token \in Nat /\ call[k].token \in Nat /\ c.token \in Nat
      /\ call[k].kind \in {"none", "request", "verify", "buy", "open"}
  BY <1>1 DEF OnePageInv, Together, Page, Call
<1>3. call[k] # NoCall
  BY DEF NoCall
<1>4. Together(page[k], c, signIns')
  <2>1. \A n \in Nat : n # 0 /\ n <= Len(signIns) => signIns'[n] = signIns[n]
    BY <1>1
  <2>2. page[k].step = "home" => signIns'[page[k].token].phone = signIns[page[k].token].phone
    BY <1>1, <1>2, <2>1 DEF OnePageInv, Together, Unsigned
  <2>3. c.at = "loaded" => signIns'[c.token].phone = signIns[c.token].phone
    BY <1>1, <1>2, <2>1 DEF OnePageInv, Together, Unsigned
  <2> QED
    BY <1>1, <1>2, <1>3, <2>2, <2>3 DEF OnePageInv, Together
<1> PICK p : p = page[k]
  OBVIOUS
<1>5. page' = [page EXCEPT ![k] = p] /\ Together(p, c, signIns')
  BY <1>1, <1>4
<1> QED
  BY <1>1, <1>5, OnePage
(* A new code takes the place of the old one.                              *)
LEMMA RequestOtpStep ==
  ASSUME KioskInv, NEW k \in Kiosks, RequestOtp(k)
  PROVE  KioskInv'
<1> DEFINE p == call[k].phone
           c == [call[k] EXCEPT !.at = "answered"]
           n == Len(codes)
           new == [phone |-> p, at |-> clock, process |-> restarts]
<1>1. /\ KioskRows /\ CodesHeld /\ PagesInv /\ SignInsAreEarned
      /\ n \in Nat /\ codes \in Seq(Code) /\ signIns \in Seq(SignIn) /\ Len(signIns) \in Nat
  BY DEF KioskInv, KioskRows
<1>2. /\ call[k] \in Call /\ call[k].kind = "request" /\ call[k].at = "asked" /\ p \in Phones
      /\ call[k].token <= Len(signIns)
      /\ UNCHANGED <<signIns, blocked, deeds, restarts, clock, page>>
      /\ call' = [call EXCEPT ![k] = c]
  BY DEF RequestOtp, Waits, Answer, KioskInv, PagesInv, OnePageInv, Together
<1>3. c \in Call /\ c.kind = "request" /\ c.at = "answered" /\ c.phone = p /\ c.token = call[k].token
  BY <1>2 DEF Call
<1> HIDE DEF c, p
<1>4. PagesInv'
  <2>1. c # NoCall
    BY <1>3 DEF NoCall
  <2>2. UNCHANGED page /\ Len(signIns) <= Len(signIns') /\ signIns' \in Seq(SignIn) /\ c.token <= Len(signIns')
        /\ \A j \in 1 .. Len(signIns) : signIns'[j] = signIns[j]
    BY <1>1, <1>2, <1>3
  <2> QED
    BY <1>2, <1>3, <2>1, <2>2, ServiceCall DEF p
<1>5. CASE p \in blocked
  <2>1. UNCHANGED <<codes, otps>>
    BY <1>5 DEF RequestOtp, p
  <2> QED
    BY <1>1, <1>2, <1>4, <2>1 DEF KioskInv, KioskRows, CodesHeld, SignInsAreEarned
<1>6. CASE p \notin blocked
  <2>1. codes' = Append(codes, new) /\ otps' = [otps EXCEPT ![p] = n + 1]
    BY <1>6 DEF RequestOtp, p
  <2>2. new \in Code /\ new.phone = p /\ new.process = restarts
    BY <1>1, <1>2 DEF Code, KioskRows
  <2> HIDE DEF new, n
  <2>3. /\ codes' \in Seq(Code) /\ Len(codes') = n + 1 /\ codes'[n + 1] = new
        /\ \A i \in 1 .. n : codes'[i] = codes[i]
    BY <1>1, <2>1, <2>2 DEF n
  <2>4. otps' \in [Phones -> Nat] /\ otps'[p] = n + 1 /\ \A q \in Phones : q # p => otps'[q] = otps[q]
    BY <1>1, <1>2, <2>1 DEF KioskRows
  <2>5. \A j \in 1 .. Len(signIns) : signIns[j] \in SignIn /\ signIns[j].code \in 1 .. n /\ signIns[j].sent <= n
                                     /\ signIns[j].sent \in Nat
    <3>1. \A j \in 1 .. Len(signIns) : signIns[j] \in SignIn
      BY <1>1
    <3>2. \A j \in 1 .. Len(signIns) : signIns[j].sent \in Nat
      BY <3>1 DEF SignIn
    <3> QED
      BY <1>1, <3>1, <3>2 DEF KioskRows, n
  <2>6. KioskRows'
    BY <1>1, <1>2, <2>3, <2>4, <2>5 DEF KioskRows
  <2>7. CodesHeld'
    <3> SUFFICES ASSUME NEW q \in Phones, otps'[q] # NoCode
                 PROVE  /\ otps'[q] \in 1 .. n + 1
                        /\ codes'[otps'[q]].phone = q /\ codes'[otps'[q]].process = restarts
                        /\ \A later \in otps'[q] + 1 .. n + 1 : codes'[later].phone # q
                        /\ \A j \in 1 .. Len(signIns) : signIns[j].code # otps'[q]
      BY <1>2, <2>3 DEF CodesHeld
    <3>1. CASE q = p
      <4>1. otps'[q] = n + 1 /\ codes'[n + 1].phone = q /\ codes'[n + 1].process = restarts
        BY <2>2, <2>3, <2>4, <3>1
      <4>2. n + 1 \in 1 .. n + 1 /\ n + 2 .. n + 1 = {}
        BY <1>1
      <4>3. \A j \in 1 .. Len(signIns) : signIns[j].code # n + 1
        BY <1>1, <2>5
      <4> QED
        BY <1>1, <4>1, <4>2, <4>3
    <3>2. CASE q # p
      <4>1. PICK m \in 1 .. n : /\ otps'[q] = m /\ codes[m].phone = q /\ codes[m].process = restarts
                                /\ \A later \in m + 1 .. n : codes[later].phone # q
                                /\ \A j \in 1 .. Len(signIns) : signIns[j].code # m
        BY <1>1, <2>4, <3>2 DEF CodesHeld, n
      <4>2. m \in 1 .. n + 1 /\ codes'[m] = codes[m]
        BY <1>1, <2>3
      <4>3. ASSUME NEW later \in m + 1 .. n + 1 PROVE codes'[later].phone # q
        <5>1. CASE later = n + 1
          BY <2>2, <2>3, <3>2, <5>1
        <5>2. CASE later # n + 1
          <6>1. later \in m + 1 .. n /\ later \in 1 .. n
            BY <1>1, <5>2
          <6> QED
            BY <2>3, <4>1, <6>1
        <5> QED
          BY <5>1, <5>2
      <4> QED
        BY <4>1, <4>2, <4>3
    <3> QED
      BY <3>1, <3>2
  <2>8. SignInsAreEarned'
    <3> SUFFICES ASSUME NEW i \in 1 .. Len(signIns)
                 PROVE  LET s == signIns[i] otp == codes'[s.code] IN
                        /\ otp.phone = s.phone /\ otp.process = s.process /\ s.at <= otp.at + CodeTtl
                        /\ \A later \in s.code + 1 .. s.sent : codes'[later].phone # s.phone
                        /\ \A j \in 1 .. i - 1 : signIns[j].code # s.code
      BY <1>2 DEF SignInsAreEarned
    <3>1. /\ codes'[signIns[i].code] = codes[signIns[i].code]
          /\ \A later \in signIns[i].code + 1 .. signIns[i].sent : codes'[later] = codes[later]
      <4> DEFINE code == signIns[i].code
                 sent == signIns[i].sent
      <4>1. code \in 1 .. n /\ sent \in Nat /\ sent <= n
        BY <2>5
      <4> HIDE DEF code, sent
      <4>2. codes'[code] = codes[code] /\ \A later \in code + 1 .. sent : codes'[later] = codes[later]
        BY <1>1, <2>3, <4>1
      <4> QED
        BY <4>2 DEF code, sent
    <3> QED
      BY <1>1, <3>1 DEF SignInsAreEarned
  <2> QED
    BY <1>4, <2>6, <2>7, <2>8 DEF KioskInv
<1> QED
  BY <1>5, <1>6

(* A code signs in the phone it was sent to, and only once.                *)
LEMMA VerifyOtpStep ==
  ASSUME KioskInv, NEW k \in Kiosks, VerifyOtp(k)
  PROVE  KioskInv'
<1> DEFINE p == call[k].phone
           n == Len(signIns)
           c == [call[k] EXCEPT !.at = "answered", !.token = n + 1]
           new == [phone |-> p, code |-> call[k].code, at |-> clock, process |-> restarts, sent |-> Len(codes)]
<1>1. /\ KioskRows /\ CodesHeld /\ PagesInv /\ SignInsAreEarned
      /\ codes \in Seq(Code) /\ signIns \in Seq(SignIn) /\ n \in Nat /\ Len(codes) \in Nat
  BY DEF KioskInv, KioskRows
<1>2. call[k] \in Call /\ call[k].kind = "verify" /\ p \in Phones
  BY DEF VerifyOtp, Waits, KioskInv, PagesInv, OnePageInv, Together
<1>3. /\ UNCHANGED <<codes, blocked, deeds, restarts, clock, page>>
      /\ call' = [call EXCEPT ![k] = c] /\ signIns' = Append(signIns, new) /\ otps' = [otps EXCEPT ![p] = NoCode]
      /\ otps[p] = call[k].code /\ otps[p] # NoCode /\ clock <= codes[otps[p]].at + CodeTtl
  BY DEF VerifyOtp, Forgotten, Accepts, Answer
<1>4. c \in Call /\ c.kind = "verify" /\ c.at = "answered" /\ c.phone = p /\ c.token = n + 1
  <2>1. n + 1 \in Nat
    BY <1>1
  <2> HIDE DEF n
  <2> QED
    BY <1>2, <2>1 DEF Call
<1>5. new \in SignIn /\ new.phone = p /\ new.code = otps[p] /\ new.at = clock /\ new.process = restarts
      /\ new.sent = Len(codes)
  BY <1>1, <1>2, <1>3 DEF SignIn, KioskRows
<1> HIDE DEF c, p, n, new
<1>6. /\ signIns' \in Seq(SignIn) /\ Len(signIns') = n + 1 /\ signIns'[n + 1] = new
      /\ \A j \in 1 .. n : signIns'[j] = signIns[j]
  BY <1>1, <1>3, <1>5 DEF n
<1>7. otps' \in [Phones -> Nat] /\ otps'[p] = NoCode /\ \A q \in Phones : q # p => otps'[q] = otps[q]
  BY <1>1, <1>2, <1>3 DEF KioskRows, NoCode
<1>8. PICK m \in 1 .. Len(codes) :
        /\ otps[p] = m /\ codes[m].phone = p /\ codes[m].process = restarts
        /\ \A later \in m + 1 .. Len(codes) : codes[later].phone # p
        /\ \A j \in 1 .. n : signIns[j].code # m
  BY <1>1, <1>2, <1>3 DEF CodesHeld, n
<1>9. PagesInv'
  <2>1. c # NoCall
    BY <1>4 DEF NoCall
  <2>2. /\ UNCHANGED page /\ Len(signIns) <= Len(signIns') /\ c.token <= Len(signIns')
        /\ \A j \in 1 .. Len(signIns) : signIns'[j] = signIns[j]
    BY <1>1, <1>3, <1>4, <1>6 DEF n
  <2> QED
    BY <1>2, <1>3, <1>4, <1>6, <2>1, <2>2, ServiceCall DEF p
<1>10. KioskRows'
  <2> SUFFICES ASSUME NEW j \in 1 .. n + 1
               PROVE  signIns'[j].code \in 1 .. Len(codes) /\ signIns'[j].sent <= Len(codes)
    BY <1>1, <1>3, <1>6, <1>7 DEF KioskRows
  <2>1. CASE j = n + 1
    BY <1>1, <1>5, <1>6, <1>8, <2>1
  <2>2. CASE j # n + 1
    <3>1. j \in 1 .. n
      BY <1>1, <2>2
    <3> QED
      BY <1>1, <1>6, <3>1 DEF KioskRows, n
  <2> QED
    BY <2>1, <2>2
<1>11. CodesHeld'
  <2> SUFFICES ASSUME NEW q \in Phones, otps'[q] # NoCode
               PROVE  /\ otps[q] \in 1 .. Len(codes) /\ otps'[q] = otps[q]
                      /\ codes[otps[q]].phone = q /\ codes[otps[q]].process = restarts
                      /\ \A later \in otps[q] + 1 .. Len(codes) : codes[later].phone # q
                      /\ \A j \in 1 .. n + 1 : signIns'[j].code # otps[q]
    BY <1>3, <1>6 DEF CodesHeld
  <2>1. q # p /\ otps'[q] = otps[q]
    BY <1>7
  <2>2. /\ otps[q] \in 1 .. Len(codes) /\ codes[otps[q]].phone = q /\ codes[otps[q]].process = restarts
        /\ \A later \in otps[q] + 1 .. Len(codes) : codes[later].phone # q
        /\ \A j \in 1 .. n : signIns[j].code # otps[q]
    BY <1>1, <2>1 DEF CodesHeld, n
  <2>3. new.code # otps[q]
    BY <1>5, <1>8, <2>1, <2>2
  <2>4. \A j \in 1 .. n + 1 : j = n + 1 \/ j \in 1 .. n
    BY <1>1
  <2> QED
    BY <1>6, <2>1, <2>2, <2>3, <2>4
<1>12. SignInsAreEarned'
  <2> SUFFICES ASSUME NEW i \in 1 .. n + 1
               PROVE  LET s == signIns'[i] otp == codes[s.code] IN
                      /\ otp.phone = s.phone /\ otp.process = s.process /\ s.at <= otp.at + CodeTtl
                      /\ \A later \in s.code + 1 .. s.sent : codes[later].phone # s.phone
                      /\ \A j \in 1 .. i - 1 : signIns'[j].code # s.code
    BY <1>3, <1>6 DEF SignInsAreEarned
  <2>1. CASE i = n + 1
    <3>1. \A j \in 1 .. i - 1 : signIns'[j].code # m
      BY <1>1, <1>6, <1>8, <2>1
    <3> QED
      BY <1>3, <1>5, <1>6, <1>8, <2>1, <3>1
  <2>2. CASE i # n + 1
    <3>1. i \in 1 .. n /\ signIns'[i] = signIns[i] /\ \A j \in 1 .. i - 1 : signIns'[j] = signIns[j]
      BY <1>1, <1>6, <2>2
    <3> QED
      BY <1>1, <3>1 DEF SignInsAreEarned, n
  <2> QED
    BY <2>1, <2>2
<1> QED
  BY <1>9, <1>10, <1>11, <1>12 DEF KioskInv

(* The other steps of the service neither send a code nor sign anybody in. *)
LEMMA OtherServiceSteps ==
  ASSUME KioskInv, NEW k \in Kiosks, ResolveCustomer(k) \/ Buy(k) \/ OpenStation(k) \/ Me(k)
  PROVE  KioskInv'
<1>1. /\ call[k] \in Call /\ call[k].at # "none" /\ OnePageInv(k) /\ deeds \in [Phones -> Nat]
      /\ UNCHANGED <<otps, codes, signIns, blocked, restarts, clock, page>>
  BY DEF ResolveCustomer, Buy, OpenStation, Me, Waits, serverVars, KioskInv, KioskRows, PagesInv, OnePageInv, Together
<1>2. /\ Len(signIns) <= Len(signIns') /\ signIns' \in Seq(SignIn) /\ signIns \in Seq(SignIn) /\ call[k].token <= Len(signIns')
      /\ Len(signIns) \in Nat /\ \A j \in 1 .. Len(signIns) : signIns'[j] = signIns[j] /\ signIns[j] \in SignIn
  BY <1>1 DEF KioskInv, KioskRows, OnePageInv, Together
<1>3. call[k].kind # "none"
  BY <1>1 DEF OnePageInv, Together, NoCall
<1>4. CASE ResolveCustomer(k)
  <2> DEFINE c == [call[k] EXCEPT !.at = "resolved"]
  <2>1. call' = [call EXCEPT ![k] = c] /\ call[k].kind = "verify"
    BY <1>4 DEF ResolveCustomer, Answer
  <2>0. UNCHANGED deeds
    BY <1>4 DEF ResolveCustomer, serverVars
  <2>2. c \in Call /\ c.kind = call[k].kind /\ c.phone = call[k].phone /\ c.token = call[k].token
        /\ c.at = "resolved"
    BY <1>1 DEF Call
  <2> HIDE DEF c
  <2>3. PagesInv'
    <3>1. c # NoCall
      BY <1>3, <2>2 DEF NoCall
    <3> QED
      BY <1>1, <1>2, <1>3, <2>1, <2>2, <3>1, ServiceCall
  <2> QED
    BY <1>1, <2>0, <2>3 DEF KioskInv, KioskRows, CodesHeld, SignInsAreEarned
<1>5. CASE Buy(k) \/ OpenStation(k)
  <2> DEFINE c == [call[k] EXCEPT !.at = "answered"]
  <2>1. call' = [call EXCEPT ![k] = c] /\ call[k].kind \in {"buy", "open"}
    BY <1>5 DEF Buy, OpenStation, Answer, Waits
  <2>2. c \in Call /\ c.kind = call[k].kind /\ c.phone = call[k].phone /\ c.token = call[k].token
        /\ c.at = "answered"
    BY <1>1 DEF Call
  <2> HIDE DEF c
  <2>3. PagesInv'
    <3>1. c # NoCall
      BY <1>3, <2>2 DEF NoCall
    <3> QED
      BY <1>1, <1>2, <1>3, <2>1, <2>2, <3>1, ServiceCall
  <2>4. deeds' \in [Phones -> Nat]
    <3>1. CASE OpenStation(k)
      BY <1>1, <3>1 DEF OpenStation, serverVars
    <3>2. CASE Buy(k)
      <4>1. PICK p : deeds' = [deeds EXCEPT ![p] = deeds[p] + 1]
        BY <3>2 DEF Buy
      <4>2. \A q \in Phones : deeds[q] + 1 \in Nat
        BY <1>1
      <4> QED
        BY <1>1, <4>1, <4>2
    <3> QED
      BY <1>5, <3>1, <3>2
  <2> QED
    BY <1>1, <2>3, <2>4 DEF KioskInv, KioskRows, CodesHeld, SignInsAreEarned
<1>6. CASE Me(k)
  <2> DEFINE p == signIns[call[k].token].phone
             s == [phone |-> p, deeds |-> deeds[p]]
             c == [call[k] EXCEPT !.at = "loaded", !.shown = s]
  <2>1. call' = [call EXCEPT ![k] = c] /\ call[k].at = "loading" /\ call[k].token # Unsigned
    BY <1>6 DEF Me, Answer, Waits, Auth
  <2>0. UNCHANGED deeds
    BY <1>6 DEF Me, serverVars
  <2>2. call[k].token \in Nat
    BY <1>1 DEF Call
  <2>3. call[k].token \in 1 .. Len(signIns)
    BY <1>1, <1>2, <2>1, <2>2 DEF Unsigned
  <2>4. p \in Phones
    BY <1>2, <2>3 DEF SignIn
  <2> HIDE DEF p
  <2>5. s \in Shown /\ s.phone = p
    BY <1>1, <2>4 DEF Shown
  <2> HIDE DEF s
  <2>6. c \in Call /\ c.kind = call[k].kind /\ c.phone = call[k].phone /\ c.token = call[k].token
        /\ c.at = "loaded" /\ c.shown.phone = signIns[c.token].phone
    BY <1>1, <2>5 DEF Call, p
  <2> HIDE DEF c
  <2>7. PagesInv'
    <3>1. c # NoCall
      BY <1>3, <2>6 DEF NoCall
    <3> QED
      BY <1>1, <1>2, <1>3, <2>1, <2>6, <3>1, ServiceCall
  <2> QED
    BY <1>1, <2>0, <2>7 DEF KioskInv, KioskRows, CodesHeld, SignInsAreEarned
<1> QED
  BY <1>4, <1>5, <1>6

(* A restarted server has forgotten the codes, and the pages keep their    *)
(* tokens.                                                                 *)
LEMMA RestartStep == ASSUME KioskInv, Restart PROVE KioskInv'
<1>1. /\ UNCHANGED <<codes, signIns, blocked, deeds, clock, page>> /\ restarts' = restarts + 1
      /\ otps' = [p \in Phones |-> NoCode]
      /\ call' = [k \in Kiosks |-> IF Waits(k, "resolved") THEN [call[k] EXCEPT !.at = "lost"] ELSE call[k]]
  BY DEF Restart
<1>2. KioskRows' /\ CodesHeld' /\ SignInsAreEarned'
  BY <1>1 DEF KioskInv, KioskRows, CodesHeld, SignInsAreEarned, NoCode
<1>3. ASSUME NEW k \in Kiosks PROVE OnePageInv(k)'
  <2>1. OnePageInv(k) /\ call[k] \in Call
    BY DEF KioskInv, PagesInv, OnePageInv, Together
  <2>2. CASE ~ Waits(k, "resolved")
    BY <1>1, <2>1, <2>2 DEF OnePageInv
  <2>3. CASE Waits(k, "resolved")
    <3> DEFINE c == [call[k] EXCEPT !.at = "lost"]
    <3>1. call'[k] = c /\ call[k].at = "resolved"
      BY <1>1, <2>3 DEF Waits
    <3>2. c \in Call /\ c.kind = call[k].kind /\ c.phone = call[k].phone /\ c.token = call[k].token
          /\ c.at = "lost"
      BY <2>1 DEF Call
    <3>3. call[k] # NoCall /\ call[k].kind # "none"
      BY <2>1, <3>1 DEF OnePageInv, Together, NoCall
    <3> HIDE DEF c
    <3>4. Together(page[k], c, signIns)
      BY <2>1, <3>2, <3>3 DEF OnePageInv, Together, NoCall
    <3> QED
      BY <1>1, <3>1, <3>4 DEF OnePageInv
  <2> QED
    BY <2>2, <2>3
<1>4. page' \in [Kiosks -> Page] /\ call' \in [Kiosks -> Call]
  <2>1. \A k \in Kiosks : call'[k] \in Call
    BY <1>3 DEF OnePageInv, Together
  <2> QED
    BY <1>1, <2>1 DEF KioskInv, PagesInv
<1> QED
  BY <1>2, <1>3, <1>4 DEF KioskInv, PagesInv

(* Every step keeps the invariant.                                         *)
LEMMA KioskSteps == KioskInv /\ [KioskNext]_kioskVars => KioskInv'
<1> SUFFICES ASSUME KioskInv, [KioskNext]_kioskVars PROVE KioskInv'
  OBVIOUS
<1>1. ASSUME UNCHANGED <<otps, codes, signIns, deeds, restarts, page, call>>, clock' \in Nat
      PROVE  KioskInv'
  BY <1>1 DEF KioskInv, KioskRows, CodesHeld, PagesInv, OnePageInv, SignInsAreEarned
<1>2. ASSUME NEW k \in Kiosks,
             \/ TypePhone(k) \/ TypeCode(k) \/ Finish(k) \/ Reload(k)
             \/ \E kind \in {"request", "verify", "buy", "open"} : Press(k, kind)
             \/ CodeSent(k) \/ LoadHome(k) \/ HomeLoaded(k) \/ Failed(k)
      PROVE  KioskInv'
  BY <1>2, PageSteps
<1>3. ASSUME NEW k \in Kiosks,
             \/ RequestOtp(k) \/ ResolveCustomer(k) \/ VerifyOtp(k)
             \/ Buy(k) \/ OpenStation(k) \/ Me(k)
      PROVE  KioskInv'
  BY <1>3, RequestOtpStep, VerifyOtpStep, OtherServiceSteps
<1>4. ASSUME NEW p \in Phones, Block(p) PROVE KioskInv'
  BY <1>1, <1>4 DEF Block, KioskInv, KioskRows
<1>5. CASE ClockTicks
  BY <1>1, <1>5 DEF ClockTicks, KioskInv, KioskRows
<1>6. CASE UNCHANGED kioskVars
  BY <1>1, <1>6 DEF kioskVars, KioskInv, KioskRows
<1> QED
  BY <1>2, <1>3, <1>4, <1>5, <1>6, RestartStep DEF KioskNext

(* Every sign-in was earned with the code that was sent to that phone      *)
(* last, in time and by the same process, and no code signs anybody in     *)
(* twice, whatever the pages enter at once, lost answers and restarts      *)
(* (KioskService.requestOtp, verifyOtp).                                   *)
THEOREM SignInsStayEarned == KioskSpec => []SignInsAreEarned
<1>1. KioskInv => SignInsAreEarned
  BY DEF KioskInv
<1> QED
  BY <1>1, KioskStart, KioskSteps, PTL DEF KioskSpec

(* The home page of a kiosk shows the customer who is signed in, not one   *)
(* before him whose call was late (the kiosk page).                        *)
THEOREM TheCustomerIsShown == KioskSpec => []ShownIsSignedIn
<1>1. KioskInv => ShownIsSignedIn
  BY DEF KioskInv, PagesInv, OnePageInv, Together, ShownIsSignedIn
<1> QED
  BY <1>1, KioskStart, KioskSteps, PTL DEF KioskSpec

-------------------------------------------------------------------------------
(* Checkout.  A payment belongs to one dialog, and a dialog that is busy   *)
(* waits for one thing: the provider, its frame, or the poll.  A dialog    *)
(* that was left is not told what the provider answers it.                 *)

DialogRow == [pays : Nat, polls : Nat, status : {"idle", "processing", "confirming"}, busy : BOOLEAN]
Opened == dialog # NoDialog
Charged(s) == \E i \in DOMAIN charges : charges[i] = s

CheckoutRows ==
  /\ cart \subseteq Goods /\ sales \in Seq({"PENDING", "COMPLETED"})
  /\ preparing \cup polling \cup callbacks \cup gaveUp \subseteq 1 .. Len(sales)
  /\ asked \subseteq [sale : 1 .. Len(sales), dialog : 1 .. Len(sales)]
  /\ dialog \in DialogRow
  /\ Opened => dialog.pays \in 1 .. Len(sales) /\ dialog.polls \in 1 .. Len(sales)
  /\ charges \in Seq(Nat) /\ \A i \in DOMAIN charges : charges[i] \in 1 .. Len(sales)

(* What the open dialog waits for.                                         *)
OnlyAfterGivingUp(s) == Charged(s) => s \in gaveUp
Outstanding == \E req \in asked : req.dialog = dialog.polls

Resting ==
  /\ ~ dialog.busy /\ ~ Outstanding /\ reply = "none" /\ dialog.polls \notin polling
  /\ OnlyAfterGivingUp(dialog.pays)
Asking ==
  /\ dialog.busy /\ Outstanding /\ reply = "none" /\ dialog.polls \notin polling
  /\ OnlyAfterGivingUp(dialog.pays)
Answered ==
  /\ dialog.busy /\ ~ Outstanding /\ reply \in {"ok", "error"} /\ dialog.polls \notin polling
  /\ reply = "error" => OnlyAfterGivingUp(dialog.pays)
Polling == dialog.busy /\ ~ Outstanding /\ reply = "none" /\ dialog.polls \in polling

DialogInv == IF Opened THEN Resting \/ Asking \/ Answered \/ Polling ELSE reply = "none"

(* A charge that is asked for is the only one for its payment and the only *)
(* one of its dialog, which may be closed by now.                          *)
RequestInv == \A req \in asked :
  /\ OnlyAfterGivingUp(req.sale)
  /\ req.sale = dialog.pays => req.dialog = dialog.polls
  /\ \A other \in asked : other.sale = req.sale \/ other.dialog = req.dialog => other = req

(* What the page still prepares has had no dialog, and was not asked for.  *)
Fresh(s) ==
  /\ ~ Charged(s) /\ s # dialog.pays /\ s # dialog.polls /\ s \notin polling
  /\ \A req \in asked : s # req.sale /\ s # req.dialog

ChargeInv ==
  /\ ChargedAgainOnlyAfterGivingUp
  /\ RequestInv /\ DialogInv
  /\ \A s \in preparing : Fresh(s)

(* Sales are added, and completed.                                         *)
LEMMA SalesGrow ==
  ASSUME CheckoutRows, [CheckoutNext]_checkoutVars
  PROVE  /\ sales' \in Seq({"PENDING", "COMPLETED"})
         /\ Len(sales) \in Nat /\ Len(sales') \in Nat /\ Len(sales) <= Len(sales')
<1>1. sales \in Seq({"PENDING", "COMPLETED"})
  BY DEF CheckoutRows
<1>2. ASSUME NEW added \in {"PENDING", "COMPLETED"}, sales' = Append(sales, added)
      PROVE  /\ sales' \in Seq({"PENDING", "COMPLETED"})
             /\ Len(sales) \in Nat /\ Len(sales') \in Nat /\ Len(sales) <= Len(sales')
  BY <1>1, <1>2, AppendProperties
<1>3. ASSUME NEW s, sales' = Settled(s)
      PROVE  /\ sales' \in Seq({"PENDING", "COMPLETED"})
             /\ Len(sales) \in Nat /\ Len(sales') \in Nat /\ Len(sales) <= Len(sales')
  <2>1. /\ sales' = [sales EXCEPT ![s] = "COMPLETED"] /\ Len(sales) \in Nat /\ DOMAIN sales = 1 .. Len(sales)
        /\ \A r \in 1 .. Len(sales) : sales[r] \in {"PENDING", "COMPLETED"}
    BY <1>1, <1>3 DEF Settled
  <2>2. DOMAIN sales' = 1 .. Len(sales) /\ \A r \in 1 .. Len(sales) : sales'[r] \in {"PENDING", "COMPLETED"}
    BY <2>1
  <2>3. sales' \in [1 .. Len(sales) -> {"PENDING", "COMPLETED"}]
    <3>1. sales' = [r \in DOMAIN sales |-> sales'[r]]
      BY <2>1
    <3> QED
      BY <2>1, <2>2, <3>1
  <2>4. sales' \in Seq({"PENDING", "COMPLETED"}) /\ Len(sales') = Len(sales)
    BY <2>1, <2>3
  <2> QED
    BY <2>1, <2>4
<1>4. CASE sales' = sales
  BY <1>1, <1>4
<1> QED
  BY <1>2, <1>3, <1>4 DEF CheckoutNext, checkoutVars, EditCart, Sell, CreateSale, Sold, SellFailed, PayWithNedarim,
     Prepared, PrepareFailed, Pay, TransactionResponse, PollCompleted, PollGivesUp, Cancel, DevConfirm, Charge,
     Refuse, HandleCallback

(* Every step keeps the rows.                                              *)
LEMMA RowsKept ==
  ASSUME CheckoutRows, [CheckoutNext]_checkoutVars
  PROVE  CheckoutRows'
<1> DEFINE Numbers(n) == 1 .. n
           AskedFor(n) == [sale : 1 .. n, dialog : 1 .. n]
<1>1. /\ sales' \in Seq({"PENDING", "COMPLETED"}) /\ Numbers(Len(sales)) \subseteq Numbers(Len(sales'))
      /\ AskedFor(Len(sales)) \subseteq AskedFor(Len(sales'))
  BY SalesGrow
<1>2. /\ cart \subseteq Goods
      /\ preparing \cup polling \cup callbacks \cup gaveUp \subseteq Numbers(Len(sales))
      /\ asked \subseteq AskedFor(Len(sales)) /\ dialog \in DialogRow
      /\ Opened => dialog.pays \in Numbers(Len(sales)) /\ dialog.polls \in Numbers(Len(sales))
      /\ charges \in Seq(Nat) /\ \A i \in DOMAIN charges : charges[i] \in Numbers(Len(sales))
  BY DEF CheckoutRows
<1>3. Len(sales) \in Nat /\ \A s \in Numbers(Len(sales)) : s \in Nat
  BY DEF CheckoutRows
<1>4. NoDialog \in DialogRow
  BY DEF NoDialog, DialogRow
<1>5. ASSUME /\ cart' \subseteq Goods
             /\ preparing' \cup polling' \cup callbacks' \cup gaveUp' \subseteq Numbers(Len(sales'))
             /\ asked' \subseteq AskedFor(Len(sales')) /\ dialog' \in DialogRow
             /\ Opened' => dialog'.pays \in Numbers(Len(sales')) /\ dialog'.polls \in Numbers(Len(sales'))
             /\ charges' \in Seq(Nat) /\ \A i \in DOMAIN charges' : charges'[i] \in Numbers(Len(sales'))
      PROVE  CheckoutRows'
  BY <1>1, <1>5 DEF CheckoutRows
<1>6. Opened' /\ dialog' = dialog => Opened
  BY DEF Opened
<1> HIDE DEF Numbers, AskedFor
<1>7. CASE UNCHANGED checkoutVars
  BY <1>1, <1>2, <1>5, <1>6, <1>7 DEF checkoutVars
<1>8. CASE EditCart \/ Sell \/ CreateSale \/ Sold \/ SellFailed
  <2>1. /\ cart' \subseteq Goods
        /\ UNCHANGED <<preparing, dialog, polling, asked, charges, callbacks, gaveUp>>
    BY <1>2, <1>8 DEF EditCart, Sell, CreateSale, Sold, SellFailed, Emptied, providerVars
  <2> QED
    BY <1>1, <1>2, <1>5, <1>6, <2>1
<1>9. CASE PayWithNedarim \/ PrepareFailed
  <2>1. /\ preparing' \subseteq preparing \cup (Numbers(Len(sales')) \ Numbers(Len(sales)))
        /\ UNCHANGED <<cart, selling, dialog, polling, asked, charges, callbacks, gaveUp>>
    <3>1. CASE PayWithNedarim
      <4>1. /\ preparing' = preparing \cup {Len(sales) + 1} /\ sales' = Append(sales, "PENDING")
            /\ UNCHANGED <<cart, selling, dialog, polling, asked, charges, callbacks, gaveUp>>
        BY <3>1 DEF PayWithNedarim, providerVars
      <4>3. Len(sales') = Len(sales) + 1
        BY <4>1 DEF CheckoutRows
      <4> QED
        BY <1>3, <4>1, <4>3 DEF Numbers
    <3>2. CASE PrepareFailed
      BY <3>2 DEF PrepareFailed, providerVars
    <3> QED
      BY <1>9, <3>1, <3>2
  <2> QED
    BY <1>1, <1>2, <1>5, <1>6, <2>1
<1>10. CASE Prepared \/ Pay \/ TransactionResponse \/ PollGivesUp \/ Cancel
  <2>1. /\ preparing' \subseteq preparing
        /\ UNCHANGED <<cart, selling, sales, charges, callbacks>>
    BY <1>10 DEF Prepared, Pay, TransactionResponse, PollGivesUp, Cancel, pageVars, providerVars
  <2>2. CASE Prepared
    <3>1. PICK s \in preparing :
            dialog' = IF dialog = NoDialog THEN [NoDialog EXCEPT !.pays = s, !.polls = s]
                      ELSE [dialog EXCEPT !.pays = s]
      BY <2>2 DEF Prepared
    <3>2. s \in Numbers(Len(sales)) /\ s \in Nat
      BY <1>2, <1>3
    <3>3. dialog' \in DialogRow /\ dialog'.pays = s /\ dialog'.polls \in Numbers(Len(sales))
      <4>1. CASE Opened
        BY <1>2, <3>1, <3>2, <4>1 DEF Opened, DialogRow
      <4>2. CASE ~ Opened
        BY <3>1, <3>2, <4>2 DEF Opened, DialogRow, NoDialog
      <4> QED
        BY <4>1, <4>2
    <3>4. UNCHANGED <<asked, polling, gaveUp>>
      BY <2>2 DEF Prepared, providerVars
    <3> QED
      BY <1>1, <1>2, <1>5, <2>1, <3>2, <3>3, <3>4
  <2>3. CASE Pay
    <3>1. /\ Opened /\ asked' = asked \cup {[sale |-> dialog.pays, dialog |-> dialog.polls]}
          /\ dialog' = [dialog EXCEPT !.busy = TRUE, !.status = "processing"]
          /\ UNCHANGED <<polling, gaveUp>>
      BY <2>3 DEF Pay, Opened
    <3>2. dialog' \in DialogRow /\ dialog'.pays = dialog.pays /\ dialog'.polls = dialog.polls
      BY <1>2, <3>1 DEF DialogRow
    <3>3. [sale |-> dialog.pays, dialog |-> dialog.polls] \in AskedFor(Len(sales))
      BY <1>2, <3>1 DEF AskedFor, Numbers
    <3> QED
      BY <1>1, <1>2, <1>5, <2>1, <3>1, <3>2, <3>3
  <2>4. CASE TransactionResponse
    <3>1. /\ Opened /\ polling' \subseteq polling \cup {dialog.polls} /\ UNCHANGED <<asked, gaveUp>>
          /\ dialog' = Refused(dialog) \/ dialog' = Confirming(dialog)
      BY <2>4 DEF TransactionResponse, Opened, providerVars
    <3>2. dialog' \in DialogRow /\ dialog'.pays = dialog.pays /\ dialog'.polls = dialog.polls
      BY <1>2, <3>1 DEF DialogRow, Refused, Confirming
    <3> QED
      BY <1>1, <1>2, <1>5, <2>1, <3>1, <3>2
  <2>5. CASE PollGivesUp
    <3>1. PICK s \in polling :
            /\ polling' = polling \ {s} /\ asked' = asked
            /\ IF dialog.polls = s THEN dialog' = Refused(dialog) /\ gaveUp' = gaveUp \cup {dialog.pays}
               ELSE UNCHANGED <<dialog, gaveUp>>
      BY <2>5 DEF PollGivesUp, providerVars
    <3>2. CASE dialog.polls = s
      <4>1. Opened
        BY <1>2, <3>2 DEF Opened, NoDialog, Numbers
      <4>2. dialog' \in DialogRow /\ dialog'.pays = dialog.pays /\ dialog'.polls = dialog.polls
        BY <1>2, <3>1, <3>2 DEF DialogRow, Refused
      <4> QED
        BY <1>1, <1>2, <1>5, <2>1, <3>1, <3>2, <4>1, <4>2
    <3>3. CASE dialog.polls # s
      BY <1>1, <1>2, <1>5, <1>6, <2>1, <3>1, <3>3
    <3> QED
      BY <3>2, <3>3
  <2>6. CASE Cancel
    <3>1. dialog' = NoDialog /\ UNCHANGED <<asked, polling, gaveUp>>
      BY <2>6 DEF Cancel, providerVars
    <3> QED
      BY <1>1, <1>2, <1>4, <1>5, <2>1, <3>1 DEF Opened
  <2> QED
    BY <1>10, <2>2, <2>3, <2>4, <2>5, <2>6
<1>11. CASE PollCompleted \/ DevConfirm
  <2>2. polling' \subseteq polling /\ UNCHANGED <<selling, preparing, asked, charges, callbacks, gaveUp>>
    BY <1>11 DEF PollCompleted, DevConfirm, providerVars
  <2>3. dialog' = NoDialog /\ cart' \subseteq Goods
    BY <1>11 DEF PollCompleted, DevConfirm, Succeeded, Emptied
  <2> QED
    BY <1>1, <1>2, <1>4, <1>5, <2>2, <2>3 DEF Opened
<1>12. CASE Charge \/ Refuse
  <2>1. PICK req \in asked : charges' = charges \/ charges' = Append(charges, req.sale)
    BY <1>12 DEF Charge, Refuse
  <2>2. /\ asked' \subseteq asked /\ callbacks' \subseteq callbacks \cup Numbers(Len(sales))
        /\ UNCHANGED <<cart, selling, preparing, dialog, polling, gaveUp>>
    <3>1. \A r \in asked : r.sale \in Numbers(Len(sales))
      BY <1>2 DEF AskedFor, Numbers
    <3> QED
      BY <1>12, <3>1 DEF Charge, Refuse, pageVars
  <2>3. charges' \in Seq(Nat) /\ \A i \in DOMAIN charges' : charges'[i] \in Numbers(Len(sales))
    <3>1. req.sale \in Numbers(Len(sales)) /\ req.sale \in Nat
      BY <1>2, <1>3 DEF AskedFor, Numbers
    <3>2. CASE charges' = Append(charges, req.sale)
      BY <1>2, <3>1, <3>2
    <3> QED
      BY <1>2, <2>1, <3>2
  <2> QED
    BY <1>1, <1>2, <1>5, <1>6, <2>2, <2>3
<1>13. CASE HandleCallback
  <2>1. callbacks' \subseteq callbacks
        /\ UNCHANGED <<cart, selling, preparing, dialog, polling, asked, charges, gaveUp>>
    BY <1>13 DEF HandleCallback, pageVars
  <2> QED
    BY <1>1, <1>2, <1>5, <1>6, <2>1
<1> QED
  BY <1>7, <1>8, <1>9, <1>10, <1>11, <1>12, <1>13 DEF CheckoutNext

(* While the dialog and the provider do nothing.                           *)
LEMMA ChargesStay ==
  ASSUME ChargeInv, UNCHANGED <<charges, dialog, reply, polling, asked, gaveUp>>,
         \A s \in preparing' : s \in preparing \/ Fresh(s)
  PROVE  ChargeInv'
<1>1. \A s : (Charged(s)' <=> Charged(s)) /\ (OnlyAfterGivingUp(s)' <=> OnlyAfterGivingUp(s))
  BY DEF Charged, OnlyAfterGivingUp
<1>2. ChargedAgainOnlyAfterGivingUp' /\ \A s \in preparing' : Fresh(s)'
  BY <1>1 DEF ChargeInv, ChargedAgainOnlyAfterGivingUp, Fresh
<1>3. RequestInv'
  BY <1>1 DEF ChargeInv, RequestInv
<1>4. DialogInv'
  BY <1>1 DEF ChargeInv, DialogInv, Opened, Resting, Asking, Answered, Polling, Outstanding, OnlyAfterGivingUp, Charged
<1> QED
  BY <1>2, <1>3, <1>4 DEF ChargeInv

(* The open dialog takes a step that leaves the page and the charges.      *)
LEMMA DialogSteps ==
  ASSUME CheckoutRows, ChargeInv, Opened, UNCHANGED <<preparing, charges, asked>>,
         dialog' \in DialogRow, dialog'.pays = dialog.pays, dialog'.polls = dialog.polls,
         gaveUp \subseteq gaveUp', polling' \subseteq polling \cup {dialog.polls},
         Resting' \/ Answered' \/ Polling'
  PROVE  ChargeInv'
<1>1. \A s : (Charged(s)' <=> Charged(s)) /\ (OnlyAfterGivingUp(s) => OnlyAfterGivingUp(s)')
  BY DEF Charged, OnlyAfterGivingUp
<1>2. ChargedAgainOnlyAfterGivingUp' /\ \A s \in preparing' : Fresh(s)'
  BY <1>1 DEF ChargeInv, ChargedAgainOnlyAfterGivingUp, Fresh
<1>3. RequestInv'
  BY <1>1 DEF ChargeInv, RequestInv
<1>4. Opened'
  <2>1. dialog.polls # 0 /\ NoDialog.polls = 0
    BY DEF CheckoutRows, NoDialog
  <2> QED
    BY <2>1 DEF Opened
<1> QED
  BY <1>2, <1>3, <1>4 DEF ChargeInv, DialogInv

(* A dialog that closes, busy or not: what it asked for goes on.           *)
LEMMA DialogCloses ==
  ASSUME CheckoutRows, ChargeInv, UNCHANGED <<preparing, charges, asked, gaveUp>>,
         dialog' = NoDialog, reply' = "none", polling' \subseteq polling
  PROVE  ChargeInv'
<1>1. \A s : (Charged(s)' <=> Charged(s)) /\ (OnlyAfterGivingUp(s)' <=> OnlyAfterGivingUp(s))
  BY DEF Charged, OnlyAfterGivingUp
<1>2. dialog'.pays = 0 /\ dialog'.polls = 0 /\ ~ Opened'
  BY DEF NoDialog, Opened
<1>3. ChargedAgainOnlyAfterGivingUp' /\ \A s \in preparing' : Fresh(s)'
  <2>1. \A s \in preparing : s # 0
    BY DEF CheckoutRows
  <2> QED
    BY <1>1, <1>2, <2>1 DEF ChargeInv, ChargedAgainOnlyAfterGivingUp, Fresh
<1>4. RequestInv'
  <2>1. \A req \in asked : req.sale # 0
    BY DEF CheckoutRows
  <2> QED
    BY <1>1, <1>2, <2>1 DEF ChargeInv, RequestInv
<1> QED
  BY <1>2, <1>3, <1>4 DEF ChargeInv, DialogInv

(* A card payment is prepared, and its dialog opens or gets its fields.    *)
LEMMA PreparedStep ==
  ASSUME CheckoutRows, ChargeInv, Prepared
  PROVE  ChargeInv'
<1>1. PICK s \in preparing :
        /\ preparing' = preparing \ {s}
        /\ dialog' = IF dialog = NoDialog THEN [NoDialog EXCEPT !.pays = s, !.polls = s]
                     ELSE [dialog EXCEPT !.pays = s]
        /\ UNCHANGED <<polling, reply, asked, charges, gaveUp>>
  BY DEF Prepared, providerVars
<1>2. s \in Nat /\ s # 0 /\ Fresh(s)
  BY DEF CheckoutRows, ChargeInv
<1>3. /\ dialog'.pays = s /\ dialog'.polls \in {s, dialog.polls} /\ dialog'.polls # 0
      /\ IF Opened THEN dialog'.polls = dialog.polls /\ (dialog'.busy <=> dialog.busy)
         ELSE dialog'.polls = s /\ ~ dialog'.busy
  <2>1. CASE Opened
    BY <1>1, <1>2, <2>1 DEF Opened, CheckoutRows, DialogRow
  <2>2. CASE ~ Opened
    BY <1>1, <1>2, <2>2 DEF Opened, NoDialog
  <2> QED
    BY <2>1, <2>2
<1>4. Opened'
  <2>1. NoDialog.polls = 0
    BY DEF NoDialog
  <2> QED
    BY <1>3, <2>1 DEF Opened
<1>5. \A r : (Charged(r)' <=> Charged(r)) /\ (OnlyAfterGivingUp(r)' <=> OnlyAfterGivingUp(r))
  BY <1>1 DEF Charged, OnlyAfterGivingUp
<1>6. OnlyAfterGivingUp(dialog.pays)'
  <2>1. ~ Charged(s)
    BY <1>2 DEF Fresh
  <2> QED
    BY <1>1, <1>3, <2>1 DEF OnlyAfterGivingUp, Charged
<1>7. ChargedAgainOnlyAfterGivingUp' /\ \A r \in preparing' : Fresh(r)'
  BY <1>1, <1>2, <1>3, <1>5 DEF ChargeInv, ChargedAgainOnlyAfterGivingUp, Fresh
<1>8. RequestInv'
  BY <1>1, <1>2, <1>3, <1>5 DEF ChargeInv, RequestInv, Fresh
<1>9. DialogInv'
  <2>1. CASE Opened
    <3>1. Resting \/ Asking \/ Answered \/ Polling
      BY <2>1 DEF ChargeInv, DialogInv
    <3>2. Outstanding' <=> Outstanding
      BY <1>1, <1>3, <2>1 DEF Outstanding
    <3> QED
      BY <1>1, <1>3, <1>4, <1>6, <2>1, <3>1, <3>2 DEF DialogInv, Resting, Asking, Answered, Polling
  <2>2. CASE ~ Opened
    <3>1. ~ Outstanding' /\ reply' = "none" /\ dialog'.polls \notin polling'
      BY <1>1, <1>2, <1>3, <2>2 DEF Outstanding, Fresh, ChargeInv, DialogInv
    <3> QED
      BY <1>3, <1>4, <1>6, <2>2, <3>1 DEF DialogInv, Resting
  <2> QED
    BY <2>1, <2>2
<1> QED
  BY <1>7, <1>8, <1>9 DEF ChargeInv

(* The provider is asked for the charge, by a dialog that was at rest.     *)
LEMMA PayStep ==
  ASSUME CheckoutRows, ChargeInv, Pay
  PROVE  ChargeInv'
<1>0. PICK new : new = [sale |-> dialog.pays, dialog |-> dialog.polls]
  OBVIOUS
<1>1. /\ Opened /\ ~ dialog.busy /\ asked' = asked \cup {new}
      /\ dialog' = [dialog EXCEPT !.busy = TRUE, !.status = "processing"]
      /\ UNCHANGED <<preparing, polling, reply, charges, gaveUp>>
  BY <1>0 DEF Pay, Opened, pageVars
<1>2. dialog'.busy /\ dialog'.pays = dialog.pays /\ dialog'.polls = dialog.polls
  BY <1>1 DEF CheckoutRows, DialogRow
<1>3. new.sale = dialog.pays /\ new.dialog = dialog.polls
  BY <1>0
<1>4. Resting
  BY <1>1 DEF ChargeInv, DialogInv, Asking, Answered, Polling
<1>5. Opened'
  <2>1. dialog.polls # 0 /\ NoDialog.polls = 0
    BY <1>1 DEF CheckoutRows, NoDialog
  <2> QED
    BY <1>2, <2>1 DEF Opened
<1>6. \A s : (Charged(s)' <=> Charged(s)) /\ (OnlyAfterGivingUp(s)' <=> OnlyAfterGivingUp(s))
  BY <1>1 DEF Charged, OnlyAfterGivingUp
<1>7. ChargedAgainOnlyAfterGivingUp' /\ \A s \in preparing' : Fresh(s)'
  BY <1>1, <1>2, <1>3, <1>6 DEF ChargeInv, ChargedAgainOnlyAfterGivingUp, Fresh
<1>8. OnlyAfterGivingUp(dialog.pays)'
  BY <1>1, <1>2, <1>4 DEF Resting, OnlyAfterGivingUp, Charged
<1>9. Asking'
  <2>1. Outstanding'
    BY <1>1, <1>2, <1>3 DEF Outstanding
  <2> QED
    BY <1>1, <1>2, <1>4, <1>8, <2>1 DEF Asking, Resting
<1>10. \A req \in asked : req.dialog # new.dialog /\ req.sale # new.sale
  BY <1>3, <1>4 DEF ChargeInv, RequestInv, Resting, Outstanding
<1>11. RequestInv'
  <2>1. Charged(new.sale)' => new.sale \in gaveUp'
    BY <1>1, <1>3, <1>4, <1>6 DEF Resting, OnlyAfterGivingUp
  <2>2. \A r : OnlyAfterGivingUp(r)' <=> (Charged(r)' => r \in gaveUp')
    BY DEF OnlyAfterGivingUp
  <2> QED
    BY <1>1, <1>2, <1>3, <1>6, <1>10, <2>1, <2>2 DEF ChargeInv, RequestInv
<1> QED
  BY <1>5, <1>7, <1>9, <1>11 DEF ChargeInv, DialogInv

(* The provider's frame says whether the card was charged.                 *)
LEMMA ResponseStep ==
  ASSUME CheckoutRows, ChargeInv, TransactionResponse
  PROVE  ChargeInv'
<1>1. /\ Opened /\ reply # "none" /\ reply' = "none"
      /\ IF reply = "error" THEN dialog' = Refused(dialog) /\ polling' = polling
         ELSE dialog' = Confirming(dialog) /\ polling' = polling \cup {dialog.polls}
      /\ UNCHANGED <<preparing, asked, charges, gaveUp>>
  BY DEF TransactionResponse, Opened, pageVars, providerVars
<1>2. Answered
  BY <1>1 DEF ChargeInv, DialogInv, Resting, Asking, Polling
<1>3. /\ dialog' \in DialogRow /\ dialog'.pays = dialog.pays /\ dialog'.polls = dialog.polls
      /\ dialog'.busy <=> reply # "error"
  BY <1>1, <1>2 DEF Refused, Confirming, CheckoutRows, DialogRow, Answered
<1>4. ~ Outstanding'
  BY <1>1, <1>2, <1>3 DEF Answered, Outstanding
<1>5. Resting' \/ Polling'
  <2>1. CASE reply = "error"
    <3>1. OnlyAfterGivingUp(dialog.pays)'
      BY <1>1, <1>2, <1>3, <2>1 DEF Answered, OnlyAfterGivingUp, Charged
    <3> QED
      BY <1>1, <1>2, <1>3, <1>4, <2>1, <3>1 DEF Resting, Answered
  <2>2. CASE reply # "error"
    BY <1>1, <1>3, <1>4, <2>2 DEF Polling
  <2> QED
    BY <2>1, <2>2
<1> QED
  BY <1>1, <1>3, <1>5, DialogSteps

(* A poll ends without an answer: that of the open dialog, or of one that  *)
(* was left.                                                               *)
LEMMA GivesUpStep ==
  ASSUME CheckoutRows, ChargeInv, PollGivesUp
  PROVE  ChargeInv'
<1>1. PICK s \in polling :
        /\ polling' = polling \ {s}
        /\ IF dialog.polls = s THEN dialog' = Refused(dialog) /\ gaveUp' = gaveUp \cup {dialog.pays}
           ELSE UNCHANGED <<dialog, gaveUp>>
        /\ UNCHANGED <<preparing, reply, asked, charges>>
  BY DEF PollGivesUp, pageVars, providerVars
<1>2. CASE dialog.polls = s
  <2>1. Opened
    BY <1>1, <1>2 DEF Opened, NoDialog, CheckoutRows
  <2>2. Polling
    BY <1>2, <2>1 DEF ChargeInv, DialogInv, Resting, Asking, Answered
  <2>3. dialog' \in DialogRow /\ dialog'.pays = dialog.pays /\ dialog'.polls = dialog.polls /\ ~ dialog'.busy
    BY <1>1, <1>2 DEF Refused, CheckoutRows, DialogRow
  <2>4. Resting'
    BY <1>1, <1>2, <2>2, <2>3 DEF Resting, Polling, OnlyAfterGivingUp, Outstanding
  <2> QED
    BY <1>1, <1>2, <2>1, <2>3, <2>4, DialogSteps
<1>3. CASE dialog.polls # s
  <2>1. \A r : (Charged(r)' <=> Charged(r)) /\ (OnlyAfterGivingUp(r)' <=> OnlyAfterGivingUp(r))
    BY <1>1, <1>3 DEF Charged, OnlyAfterGivingUp
  <2>2. ChargedAgainOnlyAfterGivingUp' /\ (\A r \in preparing' : Fresh(r)') /\ RequestInv'
    BY <1>1, <1>3, <2>1 DEF ChargeInv, ChargedAgainOnlyAfterGivingUp, Fresh, RequestInv
  <2>3. DialogInv'
    BY <1>1, <1>3, <2>1 DEF ChargeInv, DialogInv, Opened, Resting, Asking, Answered, Polling, Outstanding,
       OnlyAfterGivingUp, Charged
  <2> QED
    BY <2>2, <2>3 DEF ChargeInv
<1> QED
  BY <1>2, <1>3

(* The provider charges, or refuses, what a dialog asked that is open or   *)
(* was left.                                                               *)
LEMMA ProviderStep ==
  ASSUME CheckoutRows, ChargeInv, Charge \/ Refuse
  PROVE  ChargeInv'
<1>1. PICK req \in asked, text \in {"ok", "error"} :
        /\ asked' = asked \ {req} /\ Posted(req, text)
        /\ charges' = IF text = "ok" THEN Append(charges, req.sale) ELSE charges
        /\ UNCHANGED <<preparing, dialog, polling, gaveUp>>
  <2>1. CASE Charge
    <3>1. PICK req \in asked :
            /\ asked' = asked \ {req} /\ Posted(req, "ok") /\ charges' = Append(charges, req.sale)
            /\ UNCHANGED <<preparing, dialog, polling, gaveUp>>
      BY <2>1 DEF Charge, pageVars
    <3> QED
      BY <3>1
  <2>2. CASE Refuse
    <3>1. PICK req \in asked :
            /\ asked' = asked \ {req} /\ Posted(req, "error") /\ charges' = charges
            /\ UNCHANGED <<preparing, dialog, polling, gaveUp>>
      BY <2>2 DEF Refuse, pageVars
    <3> QED
      BY <3>1
  <2> QED
    BY <2>1, <2>2
<1> DEFINE s == req.sale
<1>2. /\ charges \in Seq(Nat) /\ Len(charges) \in Nat /\ DOMAIN charges = 1 .. Len(charges)
      /\ s \in Nat /\ req.dialog # 0
  BY DEF CheckoutRows
<1> HIDE DEF s
<1>3. /\ RequestInv /\ OnlyAfterGivingUp(s) /\ (s = dialog.pays => req.dialog = dialog.polls)
      /\ \A other \in asked' : other.sale # s /\ other.dialog # req.dialog
  BY <1>1 DEF ChargeInv, RequestInv, s
<1>4. charges' = charges \/ charges' = Append(charges, s)
  BY <1>1 DEF s
<1>5. \A r : Charged(r)' => Charged(r) \/ r = s
  <2>1. CASE charges' = charges
    BY <2>1 DEF Charged
  <2>2. CASE charges' = Append(charges, s)
    <3>1. DOMAIN charges' = 1 .. Len(charges) + 1 /\ charges'[Len(charges) + 1] = s
          /\ \A i \in 1 .. Len(charges) : charges'[i] = charges[i]
      BY <1>2, <2>2
    <3> QED
      BY <1>2, <3>1 DEF Charged
  <2> QED
    BY <1>4, <2>1, <2>2
<1>6. ChargedAgainOnlyAfterGivingUp'
  <2>1. CASE charges' = charges
    BY <1>1, <2>1 DEF ChargeInv, ChargedAgainOnlyAfterGivingUp
  <2>2. CASE charges' = Append(charges, s)
    <3>1. DOMAIN charges' = 1 .. Len(charges) + 1 /\ charges'[Len(charges) + 1] = s
          /\ \A i \in 1 .. Len(charges) : charges'[i] = charges[i]
      BY <1>2, <2>2
    <3> SUFFICES ASSUME NEW i \in 1 .. Len(charges) + 1, NEW j \in 1 .. Len(charges) + 1, i # j,
                        charges'[i] = charges'[j]
                 PROVE  charges'[i] \in gaveUp
      BY <1>1, <3>1 DEF ChargedAgainOnlyAfterGivingUp
    <3>2. CASE i \in 1 .. Len(charges) /\ j \in 1 .. Len(charges)
      BY <1>2, <3>1, <3>2 DEF ChargeInv, ChargedAgainOnlyAfterGivingUp
    <3>3. CASE i = Len(charges) + 1 /\ j \in 1 .. Len(charges)
      <4>1. Charged(s) /\ charges'[i] = s
        BY <1>2, <3>1, <3>3 DEF Charged
      <4> QED
        BY <1>3, <4>1 DEF OnlyAfterGivingUp
    <3>4. CASE j = Len(charges) + 1 /\ i \in 1 .. Len(charges)
      <4>1. Charged(s) /\ charges'[i] = s
        BY <1>2, <3>1, <3>4 DEF Charged
      <4> QED
        BY <1>3, <4>1 DEF OnlyAfterGivingUp
    <3> QED
      BY <1>2, <3>2, <3>3, <3>4
  <2> QED
    BY <1>4, <2>1, <2>2
<1>7. \A r \in preparing' : Fresh(r)'
  <2>1. \A r \in preparing : Fresh(r) /\ r # s
    BY DEF ChargeInv, Fresh, s
  <2> QED
    BY <1>1, <1>5, <2>1 DEF Fresh
<1>8. \A r : r # s /\ OnlyAfterGivingUp(r) => OnlyAfterGivingUp(r)'
  BY <1>1, <1>5 DEF OnlyAfterGivingUp
<1>9. RequestInv'
  BY <1>1, <1>3, <1>8 DEF RequestInv
<1>10. DialogInv'
  <2>1. CASE req.dialog = dialog.polls
    <3>1. Opened
      BY <1>2, <2>1 DEF Opened, NoDialog
    <3>2. Asking
      BY <2>1, <3>1 DEF ChargeInv, DialogInv, Resting, Answered, Polling, Outstanding
    <3>3. ~ Outstanding' /\ reply' = text /\ Opened'
      BY <1>1, <1>3, <2>1, <3>1 DEF Outstanding, Posted, Opened
    <3>4. text = "error" => OnlyAfterGivingUp(dialog.pays)'
      BY <1>1, <3>2 DEF Asking, OnlyAfterGivingUp, Charged
    <3>5. Answered'
      BY <1>1, <3>2, <3>3, <3>4 DEF Asking, Answered
    <3> QED
      BY <3>3, <3>5 DEF DialogInv
  <2>2. CASE req.dialog # dialog.polls
    <3>1. reply' = reply /\ (Outstanding' <=> Outstanding) /\ (Opened' <=> Opened)
      BY <1>1, <2>2 DEF Posted, Outstanding, Opened
    <3>2. OnlyAfterGivingUp(dialog.pays) => OnlyAfterGivingUp(dialog.pays)'
      <4>1. dialog.pays # s
        BY <1>3, <2>2
      <4> QED
        BY <1>1, <1>5, <4>1 DEF OnlyAfterGivingUp
    <3> QED
      BY <1>1, <3>1, <3>2 DEF ChargeInv, DialogInv, Resting, Asking, Answered, Polling
  <2> QED
    BY <2>1, <2>2
<1> QED
  BY <1>6, <1>7, <1>9, <1>10 DEF ChargeInv

(* Every step keeps the charges in order.                                  *)
LEMMA ChargesKept ==
  ASSUME CheckoutRows, ChargeInv, [CheckoutNext]_checkoutVars
  PROVE  ChargeInv'
<1>1. CASE PayWithNedarim
  <2>1. /\ dialog = NoDialog /\ preparing' = preparing \cup {Len(sales) + 1}
        /\ UNCHANGED <<dialog, polling, reply, asked, charges, gaveUp>>
    BY <1>1 DEF PayWithNedarim, providerVars
  <2>2. Fresh(Len(sales) + 1)
    <3>1. Len(sales) \in Nat /\ dialog.pays = 0 /\ dialog.polls = 0
      BY <2>1 DEF CheckoutRows, NoDialog
    <3>2. ~ Charged(Len(sales) + 1) /\ Len(sales) + 1 \notin polling
      BY <3>1 DEF CheckoutRows, Charged
    <3>3. \A req \in asked : req.sale # Len(sales) + 1 /\ req.dialog # Len(sales) + 1
      BY <3>1 DEF CheckoutRows
    <3> QED
      BY <3>1, <3>2, <3>3 DEF Fresh
  <2> QED
    BY <2>1, <2>2, ChargesStay
<1>2. CASE EditCart \/ Sell \/ CreateSale \/ Sold \/ SellFailed \/ PrepareFailed \/ HandleCallback
           \/ UNCHANGED checkoutVars
  <2>1. preparing' \subseteq preparing /\ UNCHANGED <<dialog, polling, reply, asked, charges, gaveUp>>
    BY <1>2 DEF EditCart, Sell, CreateSale, Sold, SellFailed, PrepareFailed, HandleCallback, checkoutVars,
       pageVars, providerVars
  <2> QED
    BY <2>1, ChargesStay
<1>3. CASE PollCompleted \/ Cancel \/ DevConfirm
  <2>1. dialog' = NoDialog /\ reply' = "none" /\ polling' \subseteq polling
        /\ UNCHANGED <<preparing, charges, asked, gaveUp>>
    BY <1>3 DEF PollCompleted, Cancel, DevConfirm, Succeeded, pageVars, providerVars
  <2> QED
    BY <2>1, DialogCloses
<1> QED
  BY <1>1, <1>2, <1>3, PreparedStep, PayStep, ResponseStep, GivesUpStep, ProviderStep DEF CheckoutNext

(* The till is empty at the start.                                         *)
LEMMA CheckoutStarts == CheckoutInit => CheckoutRows /\ ChargeInv
<1> SUFFICES ASSUME CheckoutInit PROVE CheckoutRows /\ ChargeInv
  OBVIOUS
<1>1. sales = << >> /\ charges = << >> /\ charges \in Seq(Nat) /\ Len(sales) = 0 /\ DOMAIN charges = {}
  BY DEF CheckoutInit
<1>2. NoDialog \in DialogRow
  BY DEF NoDialog, DialogRow
<1>3. /\ cart = {} /\ preparing = {} /\ dialog = NoDialog /\ polling = {}
      /\ reply = "none" /\ asked = {} /\ callbacks = {} /\ gaveUp = {}
  BY DEF CheckoutInit
<1> HIDE DEF NoDialog
<1>4. CheckoutRows
  BY <1>1, <1>2, <1>3 DEF CheckoutRows, Opened
<1>5. ChargeInv
  BY <1>1, <1>3 DEF ChargeInv, ChargedAgainOnlyAfterGivingUp, RequestInv, DialogInv, Opened
<1> QED
  BY <1>4, <1>5

(* A card is charged again for one payment only after the page has stopped *)
(* waiting for the first charge, also when the clerk leaves a dialog that  *)
(* is busy and what it asked for goes on (nedarim-payment.tsx, pollStatus  *)
(* and its corner button).                                                 *)
THEOREM NoChargeTwice == CheckoutSpec => []ChargedAgainOnlyAfterGivingUp
<1>1. CheckoutRows /\ ChargeInv /\ [CheckoutNext]_checkoutVars => (CheckoutRows /\ ChargeInv)'
  BY RowsKept, ChargesKept
<1>2. CheckoutRows /\ ChargeInv => ChargedAgainOnlyAfterGivingUp
  BY DEF ChargeInv
<1> QED
  BY <1>1, <1>2, CheckoutStarts, PTL DEF CheckoutSpec

-------------------------------------------------------------------------------
(* Types of the other pages.                                               *)

(* Kiosk: a code that is typed is one that was sent, and the bounds hold.  *)
CodesTyped(n) == \A k \in Kiosks : page[k].code \in 0 .. n

KioskTypes ==
  /\ KioskInv /\ Len(codes) <= MaxCodes /\ blocked \subseteq Phones
  /\ deeds \in [Phones -> 0 .. MaxDeeds] /\ CodesTyped(Len(codes))

(* What a step of a page may write of its fields.                          *)
LEMMA CodeKept ==
  ASSUME KioskInv, CodesTyped(Len(codes)), NEW k \in Kiosks, NEW q \in Page,
         q.code \in 0 .. Len(codes), page' = [page EXCEPT ![k] = q], codes' = codes
  PROVE  CodesTyped(Len(codes))'
<1>1. page \in [Kiosks -> Page]
  BY DEF KioskInv, PagesInv
<1> QED
  BY <1>1 DEF CodesTyped

(* The pages type codes that were sent, forget them, or keep them.         *)
LEMMA CodesTypedStep ==
  ASSUME KioskInv, CodesTyped(Len(codes)), KioskNext
  PROVE  CodesTyped(Len(codes))'
<1>1. page \in [Kiosks -> Page] /\ call \in [Kiosks -> Call] /\ codes \in Seq(Code) /\ Len(codes) \in Nat
  BY DEF KioskInv, PagesInv, KioskRows
<1>2. \A k \in Kiosks : page[k] \in Page /\ page[k].code \in 0 .. Len(codes)
  BY <1>1 DEF CodesTyped
<1>3. ASSUME NEW k \in Kiosks, NEW q, q = page'[k], page' = [page EXCEPT ![k] = q], codes' = codes,
             page'[k].code \in 0 .. Len(codes), KioskInv'
      PROVE  CodesTyped(Len(codes))'
  <2>1. q \in Page
    BY <1>3 DEF KioskInv, PagesInv
  <2> QED
    BY <1>3, <2>1, CodeKept
<1>4. KioskInv'
  BY KioskSteps
<1>5. ASSUME NEW k \in Kiosks,
             \/ TypePhone(k) \/ TypeCode(k) \/ Finish(k) \/ Reload(k)
             \/ \E kind \in {"request", "verify", "buy", "open"} : Press(k, kind)
             \/ CodeSent(k) \/ LoadHome(k) \/ HomeLoaded(k) \/ Failed(k)
      PROVE  CodesTyped(Len(codes))'
  <2>1. codes' = codes
    BY <1>5 DEF TypePhone, TypeCode, Finish, Reload, Press, CodeSent, LoadHome, HomeLoaded, Failed, serverVars
  <2>2. CASE TypePhone(k)
    <3>1. PICK p \in Phones : page' = [page EXCEPT ![k].phone = p]
      BY <2>2 DEF TypePhone
    <3>2. page' = [page EXCEPT ![k] = page'[k]] /\ page'[k].code = page[k].code
      BY <1>1, <1>2, <3>1 DEF Page
    <3> QED
      BY <1>2, <1>3, <1>4, <2>1, <3>2
  <2>3. CASE TypeCode(k)
    <3>1. PICK c \in 1 .. Len(codes) : page' = [page EXCEPT ![k].code = c]
      BY <2>3 DEF TypeCode
    <3>2. page' = [page EXCEPT ![k] = page'[k]] /\ page'[k].code = c
      BY <1>1, <1>2, <3>1 DEF Page
    <3>3. page'[k].code \in 0 .. Len(codes)
      BY <1>1, <3>1, <3>2
    <3> QED
      BY <1>3, <1>4, <2>1, <3>2, <3>3
  <2>4. CASE Finish(k)
    <3>1. page' = [page EXCEPT ![k] = Finished(page[k])]
      BY <2>4 DEF Finish
    <3>2. page' = [page EXCEPT ![k] = page'[k]] /\ page'[k].code = 0
      BY <1>1, <1>2, <3>1 DEF Page, Finished, NoCode
    <3> QED
      BY <1>1, <1>3, <1>4, <2>1, <3>2
  <2>5. CASE Reload(k)
    <3>1. page' = [page EXCEPT ![k] = FirstPage]
      BY <2>5 DEF Reload
    <3>2. page' = [page EXCEPT ![k] = page'[k]] /\ page'[k].code = 0
      BY <1>1, <3>1 DEF FirstPage, NoCode
    <3> QED
      BY <1>1, <1>3, <1>4, <2>1, <3>2
  <2>6. CASE LoadHome(k)
    <3>1. page' = [page EXCEPT ![k] = SignedIn(page[k], call[k].token)] \/ page' = page
      BY <2>6 DEF LoadHome
    <3>2. page' = [page EXCEPT ![k] = page'[k]] /\ page'[k].code = page[k].code
      BY <1>1, <1>2, <3>1 DEF Page, SignedIn
    <3> QED
      BY <1>2, <1>3, <1>4, <2>1, <3>2
  <2>7. ASSUME NEW b \in BOOLEAN, page' = [page EXCEPT ![k].busy = b] PROVE CodesTyped(Len(codes))'
    <3>1. page' = [page EXCEPT ![k] = page'[k]] /\ page'[k].code = page[k].code
      BY <1>1, <1>2, <2>7 DEF Page
    <3> QED
      BY <1>2, <1>3, <1>4, <2>1, <3>1
  <2>8. CASE Failed(k) \/ \E kind \in {"request", "verify", "buy", "open"} : Press(k, kind)
    <3>1. \E b \in BOOLEAN : page' = [page EXCEPT ![k].busy = b]
      BY <2>8 DEF Failed, Press
    <3> QED
      BY <2>7, <3>1
  <2>9. CASE CodeSent(k)
    <3>1. page' = [page EXCEPT ![k].step = "code", ![k].busy = FALSE]
      BY <2>9 DEF CodeSent
    <3>2. page' = [page EXCEPT ![k] = page'[k]] /\ page'[k].code = page[k].code
      BY <1>1, <1>2, <3>1 DEF Page
    <3> QED
      BY <1>2, <1>3, <1>4, <2>1, <3>2
  <2>10. CASE HomeLoaded(k)
    <3>1. page' = [page EXCEPT ![k].shown = call[k].shown, ![k].busy = FALSE,
                               ![k].step = IF call[k].kind = "verify" THEN "home" ELSE @]
      BY <2>10 DEF HomeLoaded
    <3>2. page' = [page EXCEPT ![k] = page'[k]] /\ page'[k].code = page[k].code
      BY <1>1, <1>2, <3>1 DEF Page
    <3> QED
      BY <1>2, <1>3, <1>4, <2>1, <3>2
  <2> QED
    BY <1>5, <2>2, <2>3, <2>4, <2>5, <2>6, <2>8, <2>9, <2>10
<1>6. ASSUME page' = page, Len(codes) <= Len(codes'), Len(codes') \in Nat PROVE CodesTyped(Len(codes))'
  BY <1>1, <1>6 DEF CodesTyped
<1>7. ASSUME NEW k \in Kiosks, RequestOtp(k) PROVE CodesTyped(Len(codes))'
  <2>1. page' = page /\ (codes' = codes \/ \E c : codes' = Append(codes, c))
    BY <1>7 DEF RequestOtp
  <2>2. Len(codes) <= Len(codes') /\ Len(codes') \in Nat
    BY <1>1, <2>1
  <2> QED
    BY <1>6, <2>1, <2>2
<1>8. ASSUME page' = page, codes' = codes PROVE CodesTyped(Len(codes))'
  BY <1>8 DEF CodesTyped
<1>9. ASSUME NEW k \in Kiosks, ResolveCustomer(k) \/ VerifyOtp(k) \/ Buy(k) \/ OpenStation(k) \/ Me(k)
      PROVE  CodesTyped(Len(codes))'
  BY <1>8, <1>9 DEF ResolveCustomer, VerifyOtp, Buy, OpenStation, Me, serverVars
<1>10. ASSUME (\E p \in Phones : Block(p)) \/ Restart \/ ClockTicks PROVE CodesTyped(Len(codes))'
  BY <1>8, <1>10 DEF Block, Restart, ClockTicks
<1> QED
  BY <1>5, <1>7, <1>9, <1>10 DEF KioskNext

(* Whatever is pressed, typed, lost and restarted.                         *)
LEMMA KioskTyped == KioskSpec => []KioskTypeOK
<1> USE KioskAssumption
<1>1. KioskInit => KioskTypes
  <2> SUFFICES ASSUME KioskInit PROVE KioskTypes
    OBVIOUS
  <2>1. Len(codes) = 0 /\ blocked = {} /\ deeds = [p \in Phones |-> 0] /\ page = [k \in Kiosks |-> FirstPage]
        /\ FirstPage.code = 0
    BY DEF KioskInit, FirstPage, NoCode
  <2> QED
    BY <2>1, KioskStart DEF KioskTypes, CodesTyped
<1>2. KioskTypes /\ [KioskNext]_kioskVars => KioskTypes'
  <2> SUFFICES ASSUME KioskTypes, [KioskNext]_kioskVars PROVE KioskTypes'
    OBVIOUS
  <2>1. KioskInv /\ KioskInv' /\ codes \in Seq(Code) /\ Len(codes) \in Nat
    <3>1. KioskInv
      BY DEF KioskTypes
    <3>2. KioskInv'
      BY <3>1, KioskSteps
    <3> QED
      BY <3>1, <3>2 DEF KioskInv, KioskRows
  <2>2. CASE UNCHANGED kioskVars
    BY <2>1, <2>2 DEF kioskVars, KioskTypes, CodesTyped
  <2>3. CASE KioskNext
    <3>1. CodesTyped(Len(codes))'
      BY <2>1, <2>3, CodesTypedStep DEF KioskTypes
    <3>2. Len(codes') <= MaxCodes
      <4>1. CASE codes' = codes
        BY <4>1 DEF KioskTypes
      <4>2. CASE codes' # codes
        <5>1. PICK c : codes' = Append(codes, c) /\ Len(codes) < MaxCodes
          BY <2>3, <4>2 DEF KioskNext, TypePhone, TypeCode, Finish, Reload, Press, CodeSent, LoadHome,
             HomeLoaded, Failed, serverVars, RequestOtp, ResolveCustomer, VerifyOtp, Buy, OpenStation, Me,
             Block, Restart, ClockTicks
        <5> QED
          BY <2>1, <5>1
      <4> QED
        BY <4>1, <4>2
    <3>3. blocked' \subseteq Phones
      BY <2>3 DEF KioskTypes, KioskNext, TypePhone, TypeCode, Finish, Reload, Press, CodeSent, LoadHome,
         HomeLoaded, Failed, serverVars, RequestOtp, ResolveCustomer, VerifyOtp, Buy, OpenStation, Me,
         Block, Restart, ClockTicks
    <3>4. deeds' \in [Phones -> 0 .. MaxDeeds]
      <4>1. deeds' = deeds \/ \E p : deeds' = [deeds EXCEPT ![p] = deeds[p] + 1] /\ deeds[p] < MaxDeeds
        BY <2>3 DEF KioskNext, TypePhone, TypeCode, Finish, Reload, Press, CodeSent, LoadHome,
           HomeLoaded, Failed, serverVars, RequestOtp, ResolveCustomer, VerifyOtp, Buy, OpenStation, Me,
           Block, Restart, ClockTicks
      <4> QED
        BY <4>1 DEF KioskTypes
    <3> QED
      BY <2>1, <3>1, <3>2, <3>3, <3>4 DEF KioskTypes
  <2> QED
    BY <2>2, <2>3
<1>3. KioskTypes => KioskTypeOK
  <2> SUFFICES ASSUME KioskTypes PROVE KioskTypeOK
    OBVIOUS
  <2>1. /\ KioskRows /\ CodesHeld /\ Len(codes) \in Nat /\ Len(signIns) \in Nat /\ Len(codes) <= MaxCodes
        /\ deeds \in [Phones -> 0 .. MaxDeeds] /\ blocked \subseteq Phones /\ CodesTyped(Len(codes))
    BY DEF KioskTypes, KioskInv, KioskRows
  <2>2. \A p \in Phones : otps[p] \in 0 .. MaxCodes
    <3> SUFFICES ASSUME NEW p \in Phones PROVE otps[p] \in 0 .. MaxCodes
      OBVIOUS
    <3>1. otps[p] = 0 \/ otps[p] \in 1 .. Len(codes)
      BY <2>1 DEF CodesHeld, NoCode
    <3> QED
      BY <2>1, <3>1
  <2>3. otps \in [Phones -> 0 .. MaxCodes]
    BY <2>1, <2>2 DEF KioskRows
  <2>4. ASSUME NEW k \in Kiosks
        PROVE  page[k].busy = (call[k] # NoCall) /\ page[k].token \in 0 .. Len(signIns)
    <3>1. Together(page[k], call[k], signIns)
      BY DEF KioskTypes, KioskInv, PagesInv, OnePageInv
    <3>2. page[k].busy \in BOOLEAN /\ page[k].token \in Nat
      BY <3>1 DEF Together, Page
    <3>3. page[k].busy = (call[k] # NoCall)
      BY <3>1, <3>2, Zenon DEF Together
    <3> QED
      BY <2>1, <3>1, <3>2, <3>3 DEF Together
  <2> QED
    BY <2>1, <2>3, <2>4 DEF KioskTypeOK, CodesTyped
<1> QED
  BY <1>1, <1>2, <1>3, PTL DEF KioskSpec

(* Checkout: a payment the page speaks of is one of a sale there is.       *)
LEMMA CheckoutTyped == CheckoutSpec => []CheckoutTypeOK
<1>1. CheckoutRows => CheckoutTypeOK
  <2> SUFFICES ASSUME CheckoutRows PROVE CheckoutTypeOK
    OBVIOUS
  <2>1. /\ DOMAIN sales = 1 .. Len(sales)
        /\ cart \subseteq Goods
        /\ preparing \cup polling \cup callbacks \cup gaveUp \subseteq 1 .. Len(sales)
    BY DEF CheckoutRows
  <2>2. CASE dialog = NoDialog
    BY <2>1, <2>2 DEF CheckoutTypeOK, NoDialog
  <2>3. CASE dialog # NoDialog
    BY <2>1, <2>3 DEF CheckoutTypeOK, CheckoutRows, Opened
  <2> QED
    BY <2>2, <2>3
<1> QED
  BY <1>1, CheckoutStarts, RowsKept, PTL DEF CheckoutSpec

(* Inbox: messages are added and marked, never taken away.                 *)
Mail == [customer : Askers, direction : {"INBOUND", "OUTBOUND"}, read : BOOLEAN]
InboxTypes == mail \in Seq(Mail) /\ InboxTypeOK

(* Whoever writes, reads and answers.                                      *)
LEMMA InboxTyped == InboxSpec => []InboxTypeOK
<1>1. InboxInit => InboxTypes
  BY DEF InboxInit, InboxTypes, InboxTypeOK
<1>2. InboxTypes /\ [InboxNext]_inboxVars => InboxTypes'
  <2> SUFFICES ASSUME InboxTypes, [InboxNext]_inboxVars PROVE InboxTypes'
    OBVIOUS
  <2>1. mail \in Seq(Mail) /\ Len(mail) \in Nat /\ DOMAIN mail = 1 .. Len(mail)
        /\ seen \subseteq 1 .. Len(mail) /\ chosen \cup marking \cup sending \subseteq Askers
    BY DEF InboxTypes, InboxTypeOK
  <2>2. ASSUME NEW m \in Mail, mail' = Append(mail, m), UNCHANGED <<chosen, seen, marking>>,
               sending' = sending \/ sending' = {}
        PROVE  InboxTypes'
    <3>1. mail' \in Seq(Mail) /\ DOMAIN mail' = 1 .. Len(mail) + 1
      BY <2>1, <2>2
    <3> QED
      BY <2>1, <2>2, <3>1 DEF InboxTypes, InboxTypeOK
  <2>3. ASSUME NEW c \in Askers, Write(c) \/ Reply(c) PROVE InboxTypes'
    <3>1. Message(c, "INBOUND") \in Mail /\ Message(c, "OUTBOUND") \in Mail
      BY DEF Message, Mail
    <3>2. /\ mail' = Append(mail, Message(c, "INBOUND")) \/ mail' = Append(mail, Message(c, "OUTBOUND"))
          /\ UNCHANGED <<chosen, seen, marking>> /\ (sending' = sending \/ sending' = {})
      BY <2>3 DEF Write, Reply
    <3> QED
      BY <2>2, <3>1, <3>2
  <2>4. ASSUME NEW c \in Askers, MarkRead(c) PROVE InboxTypes'
    <3>1. /\ UNCHANGED <<chosen, seen, marking, sending>>
          /\ mail' = [i \in 1 .. Len(mail) |-> IF i \in ToMark(c) THEN [mail[i] EXCEPT !.read = TRUE] ELSE mail[i]]
      BY <2>1, <2>4 DEF MarkRead
    <3>2. \A i \in 1 .. Len(mail) : mail'[i] \in Mail
      <4>1. \A i \in 1 .. Len(mail) : mail[i] \in Mail
        BY <2>1
      <4> QED
        BY <3>1, <4>1 DEF Mail
    <3>3. mail' \in Seq(Mail) /\ DOMAIN mail' = 1 .. Len(mail)
      BY <2>1, <3>1, <3>2
    <3> QED
      BY <2>1, <3>1, <3>3 DEF InboxTypes, InboxTypeOK
  <2>5. ASSUME mail' = mail, seen' \subseteq DOMAIN mail, chosen' \cup marking' \cup sending' \subseteq Askers
        PROVE  InboxTypes'
    BY <2>1, <2>5 DEF InboxTypes, InboxTypeOK
  <2>6. ASSUME NEW c \in Askers, OpenConversation(c) \/ MarkReadEnds(c) \/ SendAnswer(c) PROVE InboxTypes'
    BY <2>1, <2>5, <2>6 DEF OpenConversation, MarkReadEnds, SendAnswer
  <2>7. CASE ListConversations \/ LoadThread \/ ReplyFailed \/ UNCHANGED inboxVars
    BY <2>1, <2>5, <2>7 DEF ListConversations, LoadThread, ReplyFailed, inboxVars
  <2> QED
    BY <2>3, <2>4, <2>6, <2>7 DEF InboxNext
<1>3. InboxTypes => InboxTypeOK
  BY DEF InboxTypes
<1> QED
  BY <1>1, <1>2, <1>3, PTL DEF InboxSpec

(* Worklists: whatever page asks for it, a row gets a status of its list.  *)
Movable == {"PENDING", "CONFIRMED"}
Stages == {"NEW", "IN_PROGRESS", "RESOLVED", "CLOSED"}
ActRow == [step : {"none", "asked", "read"}, to : {"none", "CONFIRMED"} \cup Ended \cup Stages,
           resolved : BOOLEAN]
Statuses == Movable \cup Ended \cup Stages

WorkTypes ==
  /\ list \in {"reservation", "ticket"} /\ status \in Statuses /\ resolvedAt \in BOOLEAN
  /\ presses \in 0 .. MaxPresses /\ act \in [Calls -> ActRow]
  /\ \A i \in Calls : list = "reservation" /\ act[i].step = "asked" => act[i].to \in {"CONFIRMED"} \cup Ended

(* A call that is made, answered or lost.                                  *)
LEMMA CallWritten ==
  ASSUME WorkTypes, NEW i \in Calls, NEW r \in ActRow, act' = [act EXCEPT ![i] = r], list' = list,
         list = "reservation" /\ r.step = "asked" => r.to \in {"CONFIRMED"} \cup Ended,
         status' \in Statuses, resolvedAt' \in BOOLEAN, presses' \in 0 .. MaxPresses
  PROVE  WorkTypes'
<1>1. act' \in [Calls -> ActRow] /\ \A j \in Calls : act'[j] = IF j = i THEN r ELSE act[j]
  BY DEF WorkTypes
<1> QED
  BY <1>1 DEF WorkTypes

(* Whichever desks act at once.                                            *)
LEMMA WorklistsTyped == WorklistsSpec => []WorklistsTypeOK
<1> USE WorklistsAssumption
<1>1. NoAct \in ActRow /\ NoAct.step = "none"
  BY DEF NoAct, ActRow
<1>2. WorklistsInit => WorkTypes
  <2> SUFFICES ASSUME WorklistsInit PROVE WorkTypes
    OBVIOUS
  <2>1. status \in Statuses /\ act = [i \in Calls |-> NoAct] /\ presses = 0 /\ resolvedAt = FALSE
        /\ list \in {"reservation", "ticket"}
    BY DEF WorklistsInit, FirstStatus, Statuses, Movable, Stages
  <2>2. act \in [Calls -> ActRow] /\ \A i \in Calls : act[i].step = "none"
    BY <1>1, <2>1
  <2>3. presses \in 0 .. MaxPresses /\ resolvedAt \in BOOLEAN
    <3>1. MaxPresses \in Nat
      OBVIOUS
    <3>2. 0 \in 0 .. MaxPresses
      BY <3>1
    <3> QED
      BY <2>1, <3>2
  <2>4. \A i \in Calls : list = "reservation" /\ act[i].step = "asked" => act[i].to \in {"CONFIRMED"} \cup Ended
    BY <2>2
  <2> QED
    BY <2>1, <2>2, <2>3, <2>4 DEF WorkTypes
<1>3. WorkTypes /\ [WorklistsNext]_worklistVars => WorkTypes'
  <2> SUFFICES ASSUME WorkTypes, [WorklistsNext]_worklistVars PROVE WorkTypes'
    OBVIOUS
  <2>1. /\ status \in Statuses /\ resolvedAt \in BOOLEAN /\ presses \in 0 .. MaxPresses
        /\ act \in [Calls -> ActRow] /\ \A i \in Calls : act[i] \in ActRow
    BY DEF WorkTypes
  <2>2. ASSUME NEW i \in Calls, NEW to \in {"none", "CONFIRMED"} \cup Ended \cup Stages, Ask(i, to),
               list = "reservation" => to \in {"CONFIRMED"} \cup Ended
        PROVE  WorkTypes'
    <3>1. PICK r : r = [step |-> "asked", to |-> to, resolved |-> FALSE]
      OBVIOUS
    <3>2. r \in ActRow /\ r.to = to
      BY <3>1 DEF ActRow
    <3>3. /\ act' = [act EXCEPT ![i] = r] /\ UNCHANGED <<list, status, resolvedAt>>
          /\ presses' = presses + 1 /\ presses < MaxPresses
      BY <2>2, <3>1 DEF Ask
    <3>4. presses' \in 0 .. MaxPresses
      BY <2>1, <3>3
    <3> QED
      BY <2>1, <2>2, <3>2, <3>3, <3>4, CallWritten
  <2>3. ASSUME NEW i \in Calls, NEW d \in Desks, Act(d, i) \/ Advance(d, i) PROVE WorkTypes'
    <3>1. CASE Act(d, i)
      <4>1. PICK to \in Buttons(shown[d]) : Ask(i, to)
        BY <3>1 DEF Act
      <4>2. to \in {"CONFIRMED"} \cup Ended
        BY <4>1 DEF Buttons
      <4> QED
        BY <2>2, <4>1, <4>2
    <3>2. CASE Advance(d, i)
      <4>1. list = "ticket" /\ \E to \in {t[2] : t \in {t \in NEXT_STATUS : t[1] = shown[d]}} : Ask(i, to)
        BY <3>2 DEF Advance
      <4>2. PICK t \in NEXT_STATUS : Ask(i, t[2])
        BY <4>1
      <4>3. t[2] \in Stages
        BY DEF NEXT_STATUS, Stages
      <4> QED
        BY <2>2, <4>1, <4>2, <4>3
    <3> QED
      BY <2>3, <3>1, <3>2
  <2>4. ASSUME NEW i \in Calls, EditTicket(i) PROVE WorkTypes'
    BY <2>2, <2>4 DEF EditTicket
  <2>5. ASSUME NEW i \in Calls, ActLost(i) PROVE WorkTypes'
    <3>1. act' = [act EXCEPT ![i] = NoAct] /\ UNCHANGED <<list, status, resolvedAt, presses>>
      BY <2>5 DEF ActLost
    <3> QED
      BY <1>1, <2>1, <3>1, CallWritten
  <2>6. ASSUME NEW i \in Calls, SetStatus(i) PROVE WorkTypes'
    <3>1. act' = [act EXCEPT ![i] = NoAct] /\ status' = act[i].to /\ UNCHANGED <<list, resolvedAt, presses>>
          /\ list = "reservation" /\ act[i].step = "asked"
      BY <2>6 DEF SetStatus
    <3>2. status' \in Statuses
      BY <3>1 DEF WorkTypes, Statuses, Movable
    <3> QED
      BY <1>1, <2>1, <3>1, <3>2, CallWritten
  <2>7. ASSUME NEW i \in Calls, ReadTicket(i) PROVE WorkTypes'
    <3>1. PICK r : r = [act[i] EXCEPT !.step = "read", !.resolved = resolvedAt]
      OBVIOUS
    <3>2. r \in ActRow /\ r.step = "read"
      <4>1. act[i] \in ActRow /\ resolvedAt \in BOOLEAN
        BY <2>1
      <4> QED
        BY <3>1, <4>1 DEF ActRow
    <3>3. act' = [act EXCEPT ![i] = r] /\ UNCHANGED <<list, status, resolvedAt, presses>>
      BY <2>1, <2>7, <3>1 DEF ReadTicket
    <3> QED
      BY <2>1, <3>2, <3>3, CallWritten
  <2>8. ASSUME NEW i \in Calls, UpdateTicket(i) PROVE WorkTypes'
    <3>1. PICK to : to = act[i].to
      OBVIOUS
    <3>2. /\ act' = [act EXCEPT ![i] = NoAct] /\ UNCHANGED <<list, presses>>
          /\ status' = IF to = "none" THEN status ELSE to
          /\ resolvedAt' = ResolvedAt(to, act[i].resolved)
      BY <2>8, <3>1 DEF UpdateTicket
    <3>3. to \in {"none", "CONFIRMED"} \cup Ended \cup Stages /\ act[i].resolved \in BOOLEAN
      BY <2>1, <3>1 DEF ActRow
    <3>4. status' \in Statuses
      BY <2>1, <3>2, <3>3 DEF Statuses, Movable
    <3>5. resolvedAt' \in BOOLEAN
      BY <3>2, <3>3, Zenon DEF ResolvedAt
    <3> QED
      BY <1>1, <2>1, <3>2, <3>4, <3>5, CallWritten
  <2>9. ASSUME UNCHANGED <<list, status, resolvedAt, act, presses>> PROVE WorkTypes'
    BY <2>9 DEF WorkTypes
  <2>10. ASSUME NEW d \in Desks, List(d) PROVE WorkTypes'
    BY <2>9, <2>10 DEF List
  <2>11. CASE UNCHANGED worklistVars
    BY <2>9, <2>11 DEF worklistVars
  <2> QED
    BY <2>3, <2>4, <2>5, <2>6, <2>7, <2>8, <2>10, <2>11 DEF WorklistsNext
<1>4. WorkTypes => WorklistsTypeOK
  BY DEF WorkTypes, WorklistsTypeOK, Statuses, Movable, Stages
<1> QED
  BY <1>2, <1>3, <1>4, PTL DEF WorklistsSpec

(* Forms: what is stored, shown and sent was typed or is the default.      *)
Valued == {r \in [Fields -> Nat] : \A f \in Fields : r[f] \in Typable[f] \cup {DefaultMinutes}}
Cells == {t \in [Fields -> SUBSET Nat] : \A f \in Fields : t[f] \subseteq Typable[f]}
ValuedSave == [at : {"none", "asked", "stored", "left"}, data : Valued]

FormTypes ==
  /\ row \in Valued /\ saves \in 0 .. MaxSaves
  /\ loaded \in [Managers -> Valued] /\ base \in [Managers -> Valued]
  /\ saving \in [Managers -> [Saves -> ValuedSave]]
  /\ typed \in [Managers -> Cells]

(* Whoever edits at once, and from whatever row.                           *)
LEMMA FormsTyped == FormsSpec => []FormsTypeOK
<1> USE FormsAssumption
<1>1. Empty \in Valued /\ NotSaving \in ValuedSave /\ Untyped \in Cells
  <2>1. Empty \in Valued
    BY DEF Empty, Valued, DefaultMinutes
  <2>2. Untyped \in Cells
    BY DEF Untyped, Cells
  <2> QED
    BY <2>1, <2>2 DEF NotSaving, ValuedSave
<1>2. FormsInit => FormTypes
  BY <1>1 DEF FormsInit, FormTypes
<1>3. FormTypes /\ [FormsNext]_formVars => FormTypes'
  <2> SUFFICES ASSUME FormTypes, [FormsNext]_formVars PROVE FormTypes'
    OBVIOUS
  <2>1. /\ row \in Valued /\ saves \in 0 .. MaxSaves
        /\ loaded \in [Managers -> Valued] /\ base \in [Managers -> Valued]
        /\ saving \in [Managers -> [Saves -> ValuedSave]] /\ typed \in [Managers -> Cells]
    BY DEF FormTypes
  <2>2. ASSUME NEW m \in Managers, Typed(m) PROVE typed' \in [Managers -> Cells]
    <3>1. PICK f, v : f \in Fields /\ v \in Typable[f] /\ typed' = [typed EXCEPT ![m][f] = {v}]
      BY <2>2 DEF Typed
    <3>2. PICK t : t = [typed[m] EXCEPT ![f] = {v}]
      OBVIOUS
    <3>3. t \in Cells
      BY <2>1, <3>1, <3>2 DEF Cells
    <3>4. typed' = [typed EXCEPT ![m] = t]
      BY <2>1, <3>1, <3>2
    <3> QED
      BY <2>1, <3>3, <3>4
  <2>3. ASSUME NEW m \in Managers, TypeOnCard(m) \/ TypeInForm(m) \/ Drag(m) PROVE FormTypes'
    <3>1. /\ typed' \in [Managers -> Cells] /\ UNCHANGED <<row, loaded, saving, saves>>
          /\ base' = base \/ base' = [base EXCEPT ![m] = loaded[m]]
      BY <2>2, <2>3 DEF TypeOnCard, TypeInForm, Drag
    <3> QED
      BY <2>1, <3>1 DEF FormTypes
  <2>4. ASSUME NEW m \in Managers, StartEdit(m) \/ CancelEdit(m) \/ LeaveRoom(m) \/ SwitchMode(m) \/ Fetch(m)
        PROVE  FormTypes'
    <3>1. /\ typed' = typed \/ typed' = [typed EXCEPT ![m] = Untyped]
          /\ base' = base \/ base' = [base EXCEPT ![m] = loaded[m]]
          /\ loaded' = loaded \/ loaded' = [loaded EXCEPT ![m] = row]
          /\ UNCHANGED <<row, saving, saves>>
      BY <2>4 DEF StartEdit, CancelEdit, LeaveRoom, ResetForm, SwitchMode, Fetch
    <3> QED
      BY <1>1, <2>1, <3>1 DEF FormTypes
  <2>5. ASSUME NEW m \in Managers, SaveCard(m) \/ SaveForm(m) \/ SavePlan(m) PROVE FormTypes'
    <3>1. Current(m) \in Valued
      <4>1. Beneath(m) \in Valued /\ typed[m] \in Cells
        BY <2>1 DEF Beneath
      <4>2. ASSUME NEW f \in Fields
            PROVE  (IF typed[m][f] = {} THEN Beneath(m)[f] ELSE CHOOSE v \in typed[m][f] : TRUE)
                     \in Nat \cap (Typable[f] \cup {DefaultMinutes})
        <5>1. CASE typed[m][f] = {}
          BY <4>1, <5>1 DEF Valued
        <5>2. CASE typed[m][f] # {}
          <6>1. (CHOOSE v \in typed[m][f] : TRUE) \in typed[m][f]
            BY <5>2
          <6>2. typed[m][f] \subseteq Typable[f] /\ Typable[f] \subseteq Nat
            BY <4>1 DEF Cells
          <6> QED
            BY <5>2, <6>1, <6>2
        <5> QED
          BY <5>1, <5>2
      <4> QED
        BY <4>2 DEF Current, Valued
    <3>2. Sent(Current(m)) \in Valued
      <4>1. PICK c : c = Current(m)
        OBVIOUS
      <4>2. Sent(c) = [c EXCEPT ![Minutes] = IF c[Minutes] = 0 THEN DefaultMinutes ELSE c[Minutes]]
        BY DEF Sent
      <4>3. c \in [Fields -> Nat] /\ \A f \in Fields : c[f] \in Typable[f] \cup {DefaultMinutes}
        BY <3>1, <4>1 DEF Valued
      <4>4. /\ Sent(c) \in [Fields -> Nat]
            /\ \A f \in Fields : Sent(c)[f] = IF f = Minutes /\ c[f] = 0 THEN DefaultMinutes ELSE c[f]
        <5>1. DefaultMinutes \in Nat
          BY DEF DefaultMinutes
        <5> QED
          BY <4>2, <4>3, <5>1
      <4> QED
        <5>1. \A f \in Fields : Sent(c)[f] \in Typable[f] \cup {DefaultMinutes}
          BY <4>3, <4>4
        <5> QED
          BY <4>1, <4>4, <5>1 DEF Valued
    <3>3. PICK data \in Valued : Asks(m, data)
      BY <2>5, <3>1, <3>2 DEF SaveCard, SaveForm, SavePlan
    <3>4. PICK s, i : s = [at |-> "asked", data |-> data] /\ i = saves + 1
      OBVIOUS
    <3>5. s \in ValuedSave /\ i \in Saves /\ saves' \in 0 .. MaxSaves
      BY <2>1, <3>3, <3>4 DEF ValuedSave, Asks, Saves
    <3>6. saving' = [saving EXCEPT ![m][i] = s] /\ UNCHANGED <<row, loaded, base, typed>>
      BY <3>3, <3>4 DEF Asks
    <3>7. saving' \in [Managers -> [Saves -> ValuedSave]]
      BY <2>1, <3>5, <3>6
    <3> QED
      BY <2>1, <3>5, <3>6, <3>7 DEF FormTypes
  <2>6. ASSUME NEW m \in Managers, NEW i \in Saves, NEW at \in {"none", "asked", "stored", "left"},
               saving' = [saving EXCEPT ![m][i].at = at]
        PROVE  saving' \in [Managers -> [Saves -> ValuedSave]]
    <3>1. PICK s : s = [at |-> at, data |-> saving[m][i].data]
      OBVIOUS
    <3>2. saving[m][i] \in ValuedSave
      BY <2>1
    <3>3. s \in ValuedSave /\ s = [saving[m][i] EXCEPT !.at = at]
      BY <3>1, <3>2 DEF ValuedSave
    <3>4. saving' = [saving EXCEPT ![m][i] = s]
      BY <2>1, <2>6, <3>3
    <3> QED
      BY <2>1, <3>3, <3>4
  <2>7. ASSUME NEW m \in Managers, NEW i \in Saves, Stores(m, i) PROVE FormTypes'
    <3>1. PICK at : at = IF saving[m][i].at = "asked" THEN "stored" ELSE "none"
      OBVIOUS
    <3>2. saving[m][i] \in ValuedSave
      BY <2>1
    <3>3. row' \in Valued /\ saving' = [saving EXCEPT ![m][i].at = at] /\ UNCHANGED <<loaded, base, typed, saves>>
      BY <2>7, <3>1, <3>2 DEF Stores, ValuedSave
    <3> QED
      BY <2>1, <2>6, <3>1, <3>3 DEF FormTypes
  <2>8. ASSUME NEW m \in Managers, NEW i \in Saves, Saved(m, i) \/ SaveFailed(m, i) PROVE FormTypes'
    <3>1. /\ saving' = [saving EXCEPT ![m][i].at = "none"] /\ UNCHANGED <<row, loaded, base, saves>>
          /\ typed' = typed \/ typed' = [typed EXCEPT ![m] = Untyped]
      BY <2>8 DEF Saved, SaveFailed, AfterSave, ResetForm
    <3>2. typed' \in [Managers -> Cells]
      BY <1>1, <2>1, <3>1
    <3> QED
      BY <2>1, <2>6, <3>1, <3>2 DEF FormTypes
  <2>9. ASSUME NEW m \in Managers, OpenPage(m) PROVE FormTypes'
    <3>1. PICK all : all = [i \in Saves |-> [at |-> LeftBehind[saving[m][i].at], data |-> saving[m][i].data]]
      OBVIOUS
    <3>2. all \in [Saves -> ValuedSave]
      <4>1. \A i \in Saves : saving[m][i] \in ValuedSave
        BY <2>1
      <4> QED
        BY <3>1, <4>1 DEF ValuedSave, LeftBehind
    <3>3. all = [i \in Saves |-> [saving[m][i] EXCEPT !.at = LeftBehind[@]]]
      <4>1. \A i \in Saves : saving[m][i] \in ValuedSave
        BY <2>1
      <4>2. \A i \in Saves : [saving[m][i] EXCEPT !.at = LeftBehind[saving[m][i].at]]
                               = [at |-> LeftBehind[saving[m][i].at], data |-> saving[m][i].data]
        BY <4>1 DEF ValuedSave
      <4> QED
        BY <3>1, <4>2
    <3>4. /\ saving' = [saving EXCEPT ![m] = all] /\ typed' = [typed EXCEPT ![m] = Untyped]
          /\ loaded' = [loaded EXCEPT ![m] = row] /\ UNCHANGED <<row, base, saves>>
      BY <2>1, <2>9, <3>3 DEF OpenPage
    <3> QED
      BY <1>1, <2>1, <3>2, <3>4 DEF FormTypes
  <2>10. CASE UNCHANGED formVars
    BY <2>1, <2>10 DEF formVars, FormTypes
  <2> QED
    BY <2>3, <2>4, <2>5, <2>7, <2>8, <2>9, <2>10 DEF FormsNext, UpdateOrg, UpdateProfile, SaveFloor
<1>4. FormTypes => FormsTypeOK
  BY DEF FormTypes, FormsTypeOK, Valued, Cells
<1> QED
  BY <1>2, <1>3, <1>4, PTL DEF FormsSpec

-------------------------------------------------------------------------------
(* All parts.  Whichever a behaviour belongs to, it is one of that part,   *)
(* and for every other part it stays as it began.                          *)

(* Every part of the system has its type, whatever its flags are, however  *)
(* many requests overlap and whatever is lost or restarted: requests, rows *)
(* and pages speak of what there is, and numbers stay in their bounds      *)
(* (the services and pages of the parts).                                  *)
THEOREM PartsTyped == Spec => []TypeOK
<1> DEFINE all == <<part, tokenVars, cashVars, numberVars, profileVars, meterVars,
                    kioskVars, checkoutVars, formVars, bootstrapVars, inboxVars, consentVars,
                    worklistVars, reportVars>>
<1>1. Spec => []TokensTypeOK
  <2>1. Init => TokensInit
    BY DEF Init
  <2>2. [Next]_all => [TokensNext]_tokenVars
    BY DEF Next, PartSteps
  <2> QED
    BY <2>1, <2>2, TokensTyped, PTL DEF Spec, TokensSpec
<1>2. Spec => []CashTypeOK
  <2>1. Init => CashInit
    BY DEF Init
  <2>2. [Next]_all => [CashNext]_cashVars
    BY DEF Next, PartSteps
  <2> QED
    BY <2>1, <2>2, DrawerTyped, PTL DEF Spec, CashSpec
<1>3. Spec => []NumbersTypeOK
  <2>1. Init => NumbersInit
    BY DEF Init
  <2>2. [Next]_all => [NumbersNext]_numberVars
    BY DEF Next, PartSteps
  <2> QED
    BY <2>1, <2>2, NumbersTyped, PTL DEF Spec, NumbersSpec
<1>4. Spec => []ProfilesTypeOK
  <2>1. Init => ProfilesInit
    BY DEF Init
  <2>2. [Next]_all => [ProfilesNext]_profileVars
    BY DEF Next, PartSteps
  <2> QED
    BY <2>1, <2>2, ProfilesTyped, PTL DEF Spec, ProfilesSpec
<1>5. Spec => []KioskTypeOK
  <2>1. Init => KioskInit
    BY DEF Init
  <2>2. [Next]_all => [KioskNext]_kioskVars
    BY DEF Next, PartSteps
  <2> QED
    BY <2>1, <2>2, KioskTyped, PTL DEF Spec, KioskSpec
<1>6. Spec => []CheckoutTypeOK
  <2>1. Init => CheckoutInit
    BY DEF Init
  <2>2. [Next]_all => [CheckoutNext]_checkoutVars
    BY DEF Next, PartSteps
  <2> QED
    BY <2>1, <2>2, CheckoutTyped, PTL DEF Spec, CheckoutSpec
<1>7. Spec => []FormsTypeOK
  <2>1. Init => FormsInit
    BY DEF Init
  <2>2. [Next]_all => [FormsNext]_formVars
    BY DEF Next, PartSteps
  <2> QED
    BY <2>1, <2>2, FormsTyped, PTL DEF Spec, FormsSpec
<1>8. Spec => []BootstrapTypeOK
  <2>1. Init => BootstrapInit
    BY DEF Init
  <2>2. [Next]_all => [BootstrapNext]_bootstrapVars
    BY DEF Next, PartSteps
  <2> QED
    BY <2>1, <2>2, BootstrapTyped, PTL DEF Spec, BootstrapSpec
<1>9. Spec => []InboxTypeOK
  <2>1. Init => InboxInit
    BY DEF Init
  <2>2. [Next]_all => [InboxNext]_inboxVars
    BY DEF Next, PartSteps
  <2> QED
    BY <2>1, <2>2, InboxTyped, PTL DEF Spec, InboxSpec
<1>10. Spec => []ConsentsTypeOK
  <2>1. Init => ConsentsInit
    BY DEF Init
  <2>2. [Next]_all => [ConsentsNext]_consentVars
    BY DEF Next, PartSteps
  <2> QED
    BY <2>1, <2>2, ConsentsTyped, PTL DEF Spec, ConsentsSpec
<1>11. Spec => []WorklistsTypeOK
  <2>1. Init => WorklistsInit
    BY DEF Init
  <2>2. [Next]_all => [WorklistsNext]_worklistVars
    BY DEF Next, PartSteps
  <2> QED
    BY <2>1, <2>2, WorklistsTyped, PTL DEF Spec, WorklistsSpec
<1>12. Spec => []ReportsTypeOK
  <2>1. Init => ReportsInit
    BY DEF Init
  <2>2. [Next]_all => [ReportsNext]_reportVars
    BY DEF Next, PartSteps
  <2> QED
    BY <2>1, <2>2, ReportsTyped, PTL DEF Spec
<1>13. /\ TokensTypeOK
      /\ CashTypeOK
      /\ NumbersTypeOK
      /\ ProfilesTypeOK
      /\ KioskTypeOK
      /\ CheckoutTypeOK
      /\ FormsTypeOK
      /\ BootstrapTypeOK
      /\ InboxTypeOK
      /\ ConsentsTypeOK
      /\ WorklistsTypeOK
      /\ ReportsTypeOK
      => TypeOK
  BY DEF TypeOK
<1> QED
  BY <1>1, <1>2, <1>3, <1>4, <1>5, <1>6, <1>7, <1>8, <1>9, <1>10, <1>11, <1>12, <1>13, PTL
===============================================================================
