SPECIFICATION Spec
CONSTANTS
    Sender = {}
    MaxInputs = 2
    MaxBreaks = 0
    RingSize = 1
    NotiSize = 1
    Race = {}
PROPERTIES RequestsAnswered
CHECK_DEADLOCK FALSE
