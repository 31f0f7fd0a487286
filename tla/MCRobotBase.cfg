CONSTANTS
    Task = {t1, t2}
    Object = {a, b}
    NoTask = NoTask
    NoObject = NoObject
    MaxTurns <- MCMaxTurns
SPECIFICATION Spec
INVARIANTS TypeOK PoseKeepsUp MotionsAreWatched
PROPERTIES MotionEnds
