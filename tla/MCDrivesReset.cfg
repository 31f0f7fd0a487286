CONSTANTS
    NumMotors = 2
    Pair <- MCOnePair
    Loose = {}
    Catches = FALSE
    ResetWhileDriving = TRUE
SPECIFICATION Spec
INVARIANTS DrivenIsSupervised
