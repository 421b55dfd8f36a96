------------------------------- MODULE Accounts -------------------------------
(***************************************************************************)
(* The data of the money ledger: an account is one balance unit of one     *)
(* customer.  "cached" is the column of CustomerBalance that the screens   *)
(* read, "rows" are the CustomerBalanceTransaction rows of that unit in    *)
(* the order in which they were committed.  The operators below have no    *)
(* state of their own; every module that moves balances is built on them.  *)
(***************************************************************************)
EXTENDS Sums

Units == {"MONEY", "TIME_SECONDS", "PRINT_BW", "PRINT_COLOR"}

(* A ledger row: signed amount, snapshot of the balance after it and the   *)
(* thing it was posted for (referenceType and referenceId).                *)
Rows(Refs) == [amount : Int, balanceAfter : Int, ref : Refs]

Accounts(Refs) == [cached : Int, rows : Seq(Rows(Refs))]

EmptyAccount == [cached |-> 0, rows |-> << >>]

(* The check of BalanceService.applyWithin: no caller passes allowNegative. *)
Insufficient(read, amount) == read + amount < 0

(* The two writes of applyWithin: the cached column is set to the absolute *)
(* value computed from what was read, and a row with that value is added.  *)
SetCached(acct, value) == [acct EXCEPT !.cached = value]

AppendRow(acct, read, amount, ref) ==
  [acct EXCEPT !.rows =
     Append(@, [amount |-> amount, balanceAfter |-> read + amount, ref |-> ref])]

(* Both writes at once, for the modules in which a transaction commits in  *)
(* one step.                                                               *)
Posted(acct, read, amount, ref) ==
  AppendRow(SetCached(acct, read + amount), read, amount, ref)

-------------------------------------------------------------------------------
(* What an account should look like.                                       *)

BalanceAfterRow(acct, i) == IF i = 0 THEN 0 ELSE acct.rows[i].balanceAfter

NonNegative(acct) ==
  /\ acct.cached >= 0
  /\ \A i \in 1 .. Len(acct.rows) : acct.rows[i].balanceAfter >= 0

CachedIsLastSnapshot(acct) == acct.cached = BalanceAfterRow(acct, Len(acct.rows))

(* Row i continues row i-1: its snapshot is the previous snapshot plus its *)
(* own amount.                                                             *)
Continues(acct, i) ==
  acct.rows[i].balanceAfter = BalanceAfterRow(acct, i - 1) + acct.rows[i].amount

SumOfAmounts(acct) == SumOf([i \in 1 .. Len(acct.rows) |-> acct.rows[i].amount])
===============================================================================
