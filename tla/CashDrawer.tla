------------------------------ MODULE CashDrawer ------------------------------
(***************************************************************************)
(* CashService: the shifts of the cash registers.  A request is served in  *)
(* steps between database calls: what it has read may be old when it       *)
(* writes.                                                                 *)
(***************************************************************************)
EXTENDS Sums

CONSTANTS
  Registers,
  Clerks,       \* requests served at the same time
  OneTill,      \* whether what is done at one register is done one at a time
  Sums,         \* floats, movements, sales, refunds and counts
  MaxShifts, MaxEntries \* bounds: shifts opened, entries made in them

ASSUME CashAssumption ==
  /\ OneTill \in BOOLEAN
  /\ Sums \subseteq Int
  /\ {MaxShifts, MaxEntries} \subseteq Nat

VARIABLES
  shifts,   \* CashShift rows by age
  entries,  \* movements, cash sales and refunds by age; see Entry
  desk      \* clerk -> the request being served

cashVars == <<shifts, entries, desk>>

AtDesk == [step |-> "free", till |-> "none", shift |-> 0, amount |-> 0, expected |-> 0]

CashInit ==
  /\ shifts = << >>
  /\ entries = << >>
  /\ desk = [c \in Clerks |-> AtDesk]

Shifts == 1 .. Len(shifts)
IsOpen(s) == shifts[s].status = "OPEN"
HasOpenShift(r) == \E s \in Shifts : shifts[s].register = r /\ IsOpen(s)

Undisturbed(r) == OneTill => \A c \in Clerks : desk[c].till # r

(* A clerk turns to register r.                                            *)
Begin(c, r, request) ==
  /\ desk[c] = AtDesk
  /\ Undisturbed(r)
  /\ desk' = [desk EXCEPT ![c] = [request EXCEPT !.till = r]]

(* while (history): whether the shift was open when the entry was made.    *)
Entry(s, kind, amount, open) == [shift |-> s, kind |-> kind, amount |-> amount, while |-> open]

OpenShift(c, r, amount) ==
  /\ ~ HasOpenShift(r)
  /\ Begin(c, r, [AtDesk EXCEPT !.step = "create", !.amount = amount])
  /\ UNCHANGED <<shifts, entries>>

(* The shift and the movement of its float are one nested write.           *)
CreateShift(c) ==
  /\ desk[c].step = "create"
  /\ Len(shifts) < MaxShifts
  /\ shifts' = Append(shifts, [register |-> desk[c].till, status |-> "OPEN",
                               countedMinor |-> 0, expectedMinor |-> 0, varianceMinor |-> 0])
  /\ entries' = Append(entries, Entry(Len(shifts) + 1, "OPENING_FLOAT", desk[c].amount, TRUE))
  /\ desk' = [desk EXCEPT ![c] = AtDesk]

(* The shift is read, then the movement is created.                        *)
MovementTypes == {"OPENING_FLOAT", "DEPOSIT", "PAYOUT", "DROP", "COUNT"}

Movement(c, s, type, amount) ==
  /\ IsOpen(s)
  /\ Begin(c, shifts[s].register, [AtDesk EXCEPT !.step = type, !.shift = s, !.amount = amount])
  /\ UNCHANGED <<shifts, entries>>

CreateMovement(c) ==
  LET s == desk[c].shift IN
  /\ desk[c].step \in MovementTypes
  /\ Len(entries) < MaxEntries
  /\ entries' = Append(entries, Entry(s, desk[c].step, desk[c].amount, IsOpen(s)))
  /\ desk' = [desk EXCEPT ![c] = AtDesk]
  /\ UNCHANGED shifts

(* SalesService stores the shift that the request names, open or closed; a *)
(* refund counts against the shift of its sale, whatever was paid with.    *)
SaleOrRefund(s, kind, amount) ==
  /\ Undisturbed(shifts[s].register)
  /\ Len(entries) < MaxEntries
  /\ entries' = Append(entries, Entry(s, kind, amount, IsOpen(s)))
  /\ UNCHANGED <<shifts, desk>>

(* expectedCash; counts do not add up.                                     *)
DropsKept(e) ==
  CASE e.kind \in {"OPENING_FLOAT", "DEPOSIT", "CASH_SALE"} -> e.amount
    [] e.kind \in {"PAYOUT", "REFUND"} -> - e.amount
    [] e.kind \in {"DROP", "COUNT"} -> 0
Signed(e) ==
  CASE e.kind \in {"OPENING_FLOAT", "DEPOSIT", "CASH_SALE"} -> e.amount
    [] e.kind \in {"PAYOUT", "DROP", "REFUND"} -> - e.amount
    [] e.kind = "COUNT" -> 0

ExpectedCash(s) ==
  SumOf([n \in 1 .. Len(entries) |-> IF entries[n].shift = s THEN Signed(entries[n]) ELSE 0])

(* closeShift: the expected cash is read, then the shift is updated and    *)
(* the count is added to its movements.                                    *)
CloseShift(c, s, counted) ==
  /\ IsOpen(s)
  /\ Begin(c, shifts[s].register, [AtDesk EXCEPT !.step = "close", !.shift = s,
                                     !.amount = counted, !.expected = ExpectedCash(s)])
  /\ UNCHANGED <<shifts, entries>>

Closed(row, counted, expected) ==
  [row EXCEPT !.status = "CLOSED", !.countedMinor = counted, !.expectedMinor = expected,
              !.varianceMinor = counted - expected]

StoreClose(c) ==
  LET s == desk[c].shift IN
  /\ desk[c].step = "close"
  /\ shifts' = [shifts EXCEPT ![s] = Closed(@, desk[c].amount, desk[c].expected)]
  /\ entries' = Append(entries, Entry(s, "COUNT", desk[c].amount, IsOpen(s)))
  /\ desk' = [desk EXCEPT ![c] = AtDesk]

CashNext ==
  \/ \E c \in Clerks :
       \/ CreateShift(c) \/ CreateMovement(c) \/ StoreClose(c)
       \/ \E amount \in Sums :
            \/ \E r \in Registers : OpenShift(c, r, amount)
            \/ \E s \in Shifts : \/ CloseShift(c, s, amount)
                                 \/ \E type \in MovementTypes : Movement(c, s, type, amount)
  \/ \E s \in Shifts, kind \in {"CASH_SALE", "REFUND"}, amount \in Sums :
       SaleOrRefund(s, kind, amount)

CashSpec == CashInit /\ [][CashNext]_cashVars

-------------------------------------------------------------------------------
Shift == [register : Registers, status : {"OPEN", "CLOSED"}, countedMinor : Int,
          expectedMinor : Int, varianceMinor : Int]
Kinds == MovementTypes \cup {"CASH_SALE", "REFUND"}

(* Type invariant; entries and requests belong to shifts that exist.       *)
CashTypeOK ==
  /\ shifts \in Seq(Shift)
  /\ entries \in Seq([shift : Shifts, kind : Kinds, amount : Int, while : BOOLEAN])
  /\ desk \in [Clerks -> [step : {"free", "create", "close"} \cup MovementTypes,
                          till : Registers \cup {"none"}, shift : Shifts \cup {0},
                          amount : Int, expected : Int]]

(* "Expected cash = float + cash sales + deposits - payouts - drops -      *)
(* refunds": a closed shift states the difference between the count and    *)
(* all that went in and out of the drawer while it was open, no entry      *)
(* missed and none counted for another shift.                              *)
SumOfKind(s, kind) ==
  SumOf([n \in 1 .. Len(entries) |->
           IF entries[n].shift = s /\ entries[n].kind = kind /\ entries[n].while
           THEN entries[n].amount ELSE 0])

ClosedShiftSettled ==
  \A s \in Shifts :
    ~ IsOpen(s) =>
      shifts[s].countedMinor =
        shifts[s].varianceMinor
        + SumOfKind(s, "OPENING_FLOAT") + SumOfKind(s, "CASH_SALE") + SumOfKind(s, "DEPOSIT")
        - SumOfKind(s, "PAYOUT") - SumOfKind(s, "DROP") - SumOfKind(s, "REFUND")
===============================================================================
