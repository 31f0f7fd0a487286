----------------------------- MODULE MCEventLoop -----------------------------
(* Small instances of EventLoop for TLC: interchangeable processes. *)
EXTENDS EventLoop, TLC

Symmetry == Permutations(Process)
==============================================================================
