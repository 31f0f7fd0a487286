----------------------------- MODULE MCAwaitables -----------------------------
(* A small instance of Awaitables for TLC. *)
EXTENDS Awaitables

CONSTANTS o1, o2, o3, o4, o5
===============================================================================
