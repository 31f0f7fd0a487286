------------------------------- MODULE MCDrives -------------------------------
(* Instances of Drives for TLC. *)
EXTENDS Drives

(* Drive bases that share a motor, which is the right wheel of one and the *)
(* left wheel of the other: one after the other reuses pbio's drive base.  *)
MCPair == {<<1, 2>>, <<2, 3>>}
MCOnePair == {<<1, 2>>}
===============================================================================
