------------------------------ MODULE MCCharges ------------------------------
(* Instances of Charges for TLC.                                            *)
EXTENDS Charges, TLC

CONSTANTS k1, m1, m2, j1, j2, w1, w2, c1

OnePayer == [s \in Subs |-> k1]
Monthly == [s \in Subs |-> 2]
OneJobEach == [j \in Jobs |-> IF j = j1 THEN k1 ELSE WalkIn]
Pages == [j \in Jobs |-> 2]
Cost == [j \in Jobs |-> 1]
Loaded == [u \in {"MONEY", "PRINT_BW"} |-> IF u = "MONEY" THEN 5 ELSE 2]
===============================================================================
