----------------------------- MODULE MotorControl -----------------------------
(* Who may drive the motors of a hub, whatever the calls and the control   *)
(* loop do: a motor follows its own servo controller, or one drive base,   *)
(* or neither, and a drive base takes and lets go of its motors together.  *)
CONSTANTS Motor, Base

VARIABLES
    tracking,  \* the motors that follow their servo controller
    driven     \* the motors that each drive base drives

vars == <<tracking, driven>>

(* No motor is told two things at once. *)
OneController ==
    /\ \A b \in Base : driven[b] \intersect tracking = {}
    /\ \A a, b \in Base : a # b => driven[a] \intersect driven[b] = {}

Without(bs) == [b \in Base |-> IF b \in bs THEN {} ELSE driven[b]]

Init == tracking = {} /\ driven = [b \in Base |-> {}]

(* m follows its servo controller; what drove it, and perhaps other bases, stop. *)
Track(m) == \E bs \in SUBSET Base :
    /\ {b \in Base : m \in driven[b]} \subseteq bs
    /\ tracking' = tracking \union {m}
    /\ driven' = Without(bs)

(* b drives two motors that no other base drives. *)
Drive(b, ms) ==
    /\ \A a \in Base \ {b} : driven[a] \intersect ms = {}
    /\ tracking' = tracking \ ms
    /\ driven' = [driven EXCEPT ![b] = ms]

Release(ms, bs) == tracking' = tracking \ ms /\ driven' = Without(bs)

Next ==
    \/ \E m \in Motor : Track(m)
    \/ \E b \in Base, l, r \in Motor : l # r /\ Drive(b, {l, r})
    \/ \E ms \in SUBSET Motor, bs \in SUBSET Base : Release(ms, bs)

Spec == Init /\ [][Next]_vars
===============================================================================
