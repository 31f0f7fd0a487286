CONSTANTS
    NumMotors = 3
    Pair <- MCPair
    Loose = {2}
    Catches = TRUE
    ResetWhileDriving = FALSE
SPECIFICATION Spec
INVARIANTS TypeOK OneController DrivenIsSupervised AskedIsKept BaseAvailable
PROPERTIES UnpluggedStopsBoth ArbiterSpec
