-------------------------------- MODULE MCAgent --------------------------------
(* Instances of Agent for TLC.                                              *)
EXTENDS Agent, TLC

CONSTANTS c1, c2, r1, r2
===============================================================================
