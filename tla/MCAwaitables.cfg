SPECIFICATION Spec
CONSTANTS
    Device = {m1, b1}
    DriveBases = {b1}
    o1 = o1
    o2 = o2
    o3 = o3
    o4 = o4
    o5 = o5
    Object = {o1, o2, o3, o4, o5}
    Waits = {o1}
    NoObject = none
    N = 2
    MaxOps = 3
INVARIANTS TypeOK AwaitsOwnOperation CancelledIsStopped OthersAreCancelled
PROPERTIES ToldOperationWins SupersededGoesOn
CHECK_DEADLOCK FALSE
