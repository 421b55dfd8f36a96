-------------------------------- MODULE Tokens --------------------------------
(***************************************************************************)
(* AuthService: login with an optional second factor, refresh tokens that  *)
(* rotate in families, logout, and the set-up of the second factor.  A     *)
(* request is served in steps between database calls; the two writes of a  *)
(* rotation are one transaction.  A refused request changes nothing and is *)
(* not an action.  Time counts the 30 second steps of one-time codes.      *)
(***************************************************************************)
EXTENDS Integers, Sequences

CONSTANTS
  Staff,        \* employees
  Handlers,     \* requests served at the same time
  TabsOverlap,  \* whether two requests of one employee may be served at once
  RefreshTtl,   \* how long a refresh token is accepted
  MaxTokens,    \* bound: refresh tokens issued
  MaxSecrets,   \* bound: second factors set up
  MaxTime       \* bound of the clock

ASSUME TokensAssumption ==
  /\ {RefreshTtl, MaxTokens, MaxSecrets, MaxTime} \subseteq Nat
  /\ TabsOverlap \in BOOLEAN

VARIABLES
  staff,     \* employee -> the columns of its row that matter here
  tokens,    \* RefreshToken rows by age; a client knows a token by its place
  ended,     \* families that a logout or a detected reuse has ended (history)
  confirmed, \* secrets that an employee has shown a code of (history)
  secrets,   \* secrets generated so far
  serving,   \* handler -> the request it is serving
  time

tokenVars == <<staff, tokens, ended, confirmed, secrets, serving, time>>

NoSecret == 0
NewEmployee == [active |-> TRUE, secret |-> NoSecret, enabled |-> FALSE]

Free == [step |-> "free", employee |-> NoSecret, token |-> 0, secret |-> NoSecret]

TokensInit ==
  /\ staff = [e \in Staff |-> NewEmployee]
  /\ tokens = << >>
  /\ ended = {}
  /\ confirmed = {}
  /\ secrets = 0
  /\ serving = [h \in Handlers |-> Free]
  /\ time = 0

Issued == 1 .. Len(tokens)
Serve(h, step, request) == serving' = [serving EXCEPT ![h] = [request EXCEPT !.step = step]]
Done(h) == serving' = [serving EXCEPT ![h] = Free]

(* h is free to serve a request of e.                                      *)
Serves(h, e) ==
  \/ serving[h].employee = e
  \/ serving[h].token # 0 /\ tokens[serving[h].token].employee = e
FreeFor(h, e) ==
  /\ serving[h] = Free
  /\ TabsOverlap \/ ~ \E other \in Handlers : Serves(other, e)

-------------------------------------------------------------------------------
(* One-time codes: a code belongs to a secret and a step of the clock, and *)
(* is accepted for one step of drift each way.                             *)

verifyTotp(secret, code) == code.secret = secret /\ code.at \in time - 1 .. time + 1

(* The codes a client can enter: those its application showed so far.      *)
Codes == [secret : 1 .. secrets, at : 0 .. time]

-------------------------------------------------------------------------------
(* Login, for an employee who knows the password.                          *)

SecondFactorGiven(e) ==
  staff[e].enabled =>
    staff[e].secret # NoSecret /\ \E code \in Codes : verifyTotp(staff[e].secret, code)

Login(h, e) ==
  /\ FreeFor(h, e)
  /\ staff[e].active
  /\ SecondFactorGiven(e)
  /\ Serve(h, "issue", [Free EXCEPT !.employee = e])
  /\ UNCHANGED <<staff, tokens, ended, confirmed, secrets, time>>

(* A row; family is that of the first token, parent (history) the token    *)
(* that was exchanged for it.                                              *)
Row(e, family, parent) ==
  [employee |-> e, family |-> family, parent |-> parent, revoked |-> FALSE,
   expiresAt |-> time + RefreshTtl]

IssueTokens(h) ==
  /\ serving[h].step = "issue"
  /\ Len(tokens) < MaxTokens
  /\ tokens' = Append(tokens, Row(serving[h].employee, Len(tokens) + 1, 0))
  /\ Done(h)
  /\ UNCHANGED <<staff, ended, confirmed, secrets, time>>

-------------------------------------------------------------------------------
(* Refresh.  The token is looked up first; a revoked one ends its family,  *)
(* a valid one is exchanged.  Neither the employee's status nor, again,    *)
(* the token's is looked at when it is exchanged.                          *)

Valid(i) == ~ tokens[i].revoked

Refresh(h, i) ==
  /\ FreeFor(h, tokens[i].employee)
  /\ ~ (tokens[i].expiresAt < time)
  /\ Serve(h, IF Valid(i) THEN "rotate" ELSE "endFamily", [Free EXCEPT !.token = i])
  /\ UNCHANGED <<staff, tokens, ended, confirmed, secrets, time>>

Revoked(rows, those) ==
  [i \in 1 .. Len(rows) |-> IF i \in those THEN [rows[i] EXCEPT !.revoked = TRUE] ELSE rows[i]]

FamilyOf(i) == {j \in Issued : tokens[j].family = tokens[i].family}

EndFamily(h) ==
  LET i == serving[h].token IN
  /\ serving[h].step = "endFamily"
  /\ tokens' = Revoked(tokens, FamilyOf(i))
  /\ ended' = ended \cup {tokens[i].family}
  /\ Done(h)
  /\ UNCHANGED <<staff, confirmed, secrets, time>>

ReplacedLater(i) == {}
Replaced(i) == {i}

Rotate(h) ==
  LET i == serving[h].token IN
  /\ serving[h].step = "rotate"
  /\ Len(tokens) < MaxTokens
  /\ tokens' = Append(Revoked(tokens, Replaced(i)), Row(tokens[i].employee, tokens[i].family, i))
  /\ Done(h)
  /\ UNCHANGED <<staff, ended, confirmed, secrets, time>>

(* A client logs out with the token it has; the family is over when that   *)
(* token was still good.                                                   *)
Logout(h, i) ==
  /\ FreeFor(h, tokens[i].employee)
  /\ tokens' = Revoked(tokens, {i})
  /\ ended' = IF tokens[i].revoked THEN ended ELSE ended \cup {tokens[i].family}
  /\ UNCHANGED <<staff, confirmed, secrets, serving, time>>

-------------------------------------------------------------------------------
(* The second factor, for an employee who has logged in.                   *)

LoggedIn(e) == \E i \in Issued : tokens[i].employee = e

Pending(e) == [staff[e] EXCEPT !.secret = secrets + 1, !.enabled = FALSE]

TwoFactorSetup(h, e) ==
  /\ FreeFor(h, e)
  /\ LoggedIn(e)
  /\ secrets < MaxSecrets
  /\ secrets' = secrets + 1
  /\ staff' = [staff EXCEPT ![e] = Pending(e)]
  /\ UNCHANGED <<tokens, ended, confirmed, serving, time>>

TwoFactorEnable(h, e) ==
  /\ FreeFor(h, e)
  /\ LoggedIn(e)
  /\ staff[e].secret # NoSecret
  /\ \E code \in Codes : verifyTotp(staff[e].secret, code)
  /\ Serve(h, "enable", [Free EXCEPT !.employee = e, !.secret = staff[e].secret])
  /\ confirmed' = confirmed \cup {staff[e].secret}
  /\ UNCHANGED <<staff, tokens, ended, secrets, time>>

StoreEnabled(h) ==
  /\ serving[h].step = "enable"
  /\ staff' = [staff EXCEPT ![serving[h].employee].enabled = TRUE]
  /\ Done(h)
  /\ UNCHANGED <<tokens, ended, confirmed, secrets, time>>

TwoFactorDisable(h, e) ==
  /\ FreeFor(h, e)
  /\ LoggedIn(e)
  /\ staff' = [staff EXCEPT ![e] = [@ EXCEPT !.enabled = FALSE, !.secret = NoSecret]]
  /\ UNCHANGED <<tokens, ended, confirmed, secrets, serving, time>>

(* EmployeesService.update: a manager blocks an employee, or lets it back. *)
UpdateStatus(e) ==
  /\ staff' = [staff EXCEPT ![e].active = ~ @]
  /\ UNCHANGED <<tokens, ended, confirmed, secrets, serving, time>>

PassTime ==
  /\ time < MaxTime
  /\ time' = time + 1
  /\ UNCHANGED <<staff, tokens, ended, confirmed, secrets, serving>>

TokensNext ==
  \/ \E h \in Handlers :
       \/ IssueTokens(h) \/ EndFamily(h) \/ Rotate(h) \/ StoreEnabled(h)
       \/ \E e \in Staff : \/ Login(h, e) \/ TwoFactorSetup(h, e)
                           \/ TwoFactorEnable(h, e) \/ TwoFactorDisable(h, e)
       \/ \E i \in Issued : Refresh(h, i) \/ Logout(h, i)
  \/ \E e \in Staff : UpdateStatus(e)
  \/ PassTime

TokensSpec == TokensInit /\ [][TokensNext]_tokenVars

-------------------------------------------------------------------------------
Employee == [active : BOOLEAN, secret : Nat, enabled : BOOLEAN]
RefreshToken == [employee : Staff, family : Nat, parent : Nat, revoked : BOOLEAN,
                 expiresAt : Nat]
Service == [step : {"free", "issue", "rotate", "endFamily", "enable"},
            employee : Staff \cup {NoSecret}, token : Nat, secret : Nat]

(* Type invariant; every row stems from an older one of its family or      *)
(* begins a family, and a request speaks of rows that exist.               *)
TokensTypeOK ==
  /\ staff \in [Staff -> Employee]
  /\ tokens \in Seq(RefreshToken)
  /\ \A i \in Issued : /\ tokens[i].parent < i
                       /\ tokens[i].family \in 1 .. i
  /\ ended \subseteq Nat
  /\ confirmed \subseteq 1 .. secrets
  /\ secrets \in Nat
  /\ serving \in [Handlers -> Service]
  /\ \A h \in Handlers :
       /\ serving[h].step \in {"rotate", "endFamily"} => serving[h].token \in Issued
       /\ serving[h].step \in {"issue", "enable"} => serving[h].employee \in Staff
  /\ time \in Nat

(* A family never has two tokens that a client could exchange.             *)
OneLiveToken ==
  \A i, j \in Issued :
    tokens[i].family = tokens[j].family /\ ~ tokens[i].revoked /\ ~ tokens[j].revoked => i = j

(* "Rotation detects reuse and revokes the session family": once a revoked *)
(* token has come back, or the client has logged out with the token it     *)
(* held, no token of the family is good for anything, now or later.        *)
EndedFamilyHasNoToken ==
  \A i \in Issued : tokens[i].family \in ended => tokens[i].revoked

(* The second factor that login insists on is one whose code the employee  *)
(* has entered: nobody is locked out by a set-up that was not finished.    *)
SecondFactorUsable ==
  \A e \in Staff : staff[e].enabled => staff[e].secret \in confirmed

(* What an employee holds to get in, tokens and second factor, stays sound *)
(* through every sequence of logins, refreshes, set-ups and logouts.       *)
CredentialsSound == OneLiveToken /\ EndedFamilyHasNoToken /\ SecondFactorUsable
===============================================================================
