------------------------------ MODULE Purchases ------------------------------
(***************************************************************************)
(* What selling promises: a purchase is ordered and then paid, or paid at  *)
(* once.  Paying at once delivers what the purchase is worth in the same   *)
(* step.  An ordered purchase is paid by a claimant that has found it      *)
(* open, which delivers all it is worth, again if another claimant has     *)
(* found it open too; nobody finds a paid purchase open, so a purchase     *)
(* paid at once is delivered once, and every other as often as it was      *)
(* found open at most.                                                     *)
(***************************************************************************)
EXTENDS Naturals

CONSTANTS Sales, Claimants, Units

VARIABLES
  stage,     \* sale -> "none", "open" or "paid"
  worth,     \* sale -> unit -> what the customer is to receive
  delivered, \* sale -> unit -> what the customer has received
  claims     \* sale -> the claimants that found it open and are to pay it

vars == <<stage, worth, delivered, claims>>

Nothing == [u \in Units |-> 0]
Plus(a, b) == [u \in Units |-> a[u] + b[u]]

Init ==
  /\ stage = [s \in Sales |-> "none"]
  /\ worth = [s \in Sales |-> Nothing]
  /\ delivered = [s \in Sales |-> Nothing]
  /\ claims = [s \in Sales |-> {}]

OthersKept(s) ==
  \A t \in Sales \ {s} :
    /\ stage'[t] = stage[t] /\ worth'[t] = worth[t]
    /\ delivered'[t] = delivered[t] /\ claims'[t] = claims[t]

GoodsKept(s) == stage'[s] = stage[s] /\ worth'[s] = worth[s] /\ delivered'[s] = delivered[s]

Order(s) ==
  /\ stage[s] = "none" /\ stage'[s] = "open"
  /\ delivered'[s] = delivered[s]
  /\ claims'[s] = claims[s]
  /\ OthersKept(s)

Sell(s) ==
  /\ stage[s] = "none" /\ stage'[s] = "paid"
  /\ delivered'[s] = worth'[s]
  /\ claims'[s] = claims[s]
  /\ OthersKept(s)

Claim(s, c) ==
  /\ stage[s] = "open"
  /\ claims'[s] = claims[s] \cup {c}
  /\ GoodsKept(s)
  /\ OthersKept(s)

GiveUp(s, c) ==
  /\ c \in claims[s]
  /\ claims'[s] = claims[s] \ {c}
  /\ GoodsKept(s)
  /\ OthersKept(s)

Settle(s, c) ==
  /\ c \in claims[s]
  /\ claims'[s] = claims[s] \ {c}
  /\ stage'[s] = "paid"
  /\ worth'[s] = worth[s]
  /\ delivered'[s] = Plus(delivered[s], worth[s])
  /\ OthersKept(s)

Next ==
  \E s \in Sales :
    \/ Order(s) \/ Sell(s)
    \/ \E c \in Claimants : Claim(s, c) \/ GiveUp(s, c) \/ Settle(s, c)

Spec == Init /\ [][Next]_vars
===============================================================================
