------------------------------ MODULE MCBalanceTx ------------------------------
(* Instances of BalanceTx for TLC: small signed deltas and a                *)
(* package that credits two units and one of them twice.                   *)
EXTENDS BalanceTx

CONSTANTS c1, c2

D(unit, amount, ref) == [unit |-> unit, amount |-> amount, ref |-> ref]

MCRefs == {"load", "session", "sale"}

Load(c) == [customer |-> c, deltas |-> << D("MONEY", 2, "load") >>]
Consume(c) == [customer |-> c, deltas |-> << D("MONEY", -1, "session") >>]
Drain(c) == [customer |-> c, deltas |-> << D("MONEY", -2, "session") >>]
Package(c) ==
  [customer |-> c, deltas |-> << D("MONEY", 1, "sale"), D("PRINT_BW", 1, "sale"),
                                 D("MONEY", 1, "sale") >>]
Mixed(c) == [customer |-> c, deltas |-> << D("PRINT_BW", 1, "sale"), D("MONEY", -1, "sale") >>]

OneCustomer == {Load(c1), Drain(c1), Consume(c1), Package(c1), Mixed(c1)}
TwoCustomers == OneCustomer \cup {Load(c2)}
================================================================================
