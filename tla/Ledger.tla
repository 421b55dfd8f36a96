-------------------------------- MODULE Ledger --------------------------------
(***************************************************************************)
(* What BalanceService promises to the rest of the system, whatever the    *)
(* number of concurrent requests: the accounts of one customer change      *)
(* together or not at all, only by appending rows, and the cached balance  *)
(* always is the snapshot of the newest row.  Within the rows that one     *)
(* transaction adds the arithmetic is exact; that it also continues the    *)
(* rows that were there before is not promised.                            *)
(***************************************************************************)
EXTENDS Accounts

CONSTANTS Customers, Refs

VARIABLE accounts

Init == accounts = [c \in Customers |-> [u \in Units |-> EmptyAccount]]

(* new is old with the rows of one transaction appended.                   *)
Extends(old, new) ==
  /\ new \in Accounts(Refs)
  /\ Len(old.rows) < Len(new.rows)
  /\ \A i \in 1 .. Len(old.rows) : new.rows[i] = old.rows[i]
  /\ \A i \in Len(old.rows) + 1 .. Len(new.rows) : new.rows[i].balanceAfter >= 0
  /\ \A i \in Len(old.rows) + 2 .. Len(new.rows) : Continues(new, i)
  /\ CachedIsLastSnapshot(new)

Post(c) ==
  /\ \A u \in Units : \/ accounts'[c][u] = accounts[c][u]
                      \/ Extends(accounts[c][u], accounts'[c][u])
  /\ accounts' = [accounts EXCEPT ![c] = accounts'[c]]

Next == \E c \in Customers : Post(c)

Spec == Init /\ [][Next]_accounts
===============================================================================
