SPECIFICATION Spec
CONSTANTS
    Device = {m1, b1}
    DriveBases = {b1}
    o1 = o1
    o2 = o2
    o3 = o3
    o4 = o4
    o5 = o5
    Object = {o1, o2, o3, o4}
    Waits = {}
    NoObject = none
    N = 3
    MaxOps = 2
INVARIANTS OthersAreCancelled
CHECK_DEADLOCK FALSE
