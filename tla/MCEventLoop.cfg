CONSTANTS
    Process = {p1, p2}
    NoProcess = tick
SPECIFICATION Spec
INVARIANTS
    TypeOK
    NoLostEvent
    SleepsOnlyWhenIdle
    ListedOnce
    StartedWillRun
PROPERTY
    ImplementsWakeups
