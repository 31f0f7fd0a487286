SPECIFICATION Spec
CONSTANTS
    Sender = {t1}
    MaxInputs = 2
    MaxBreaks = 1
    RingSize = 1
    NotiSize = 2
    Race = {"close"}
INVARIANTS TypeOK EndpointIsFree StdoutInOrder ResultIsTrue
PROPERTIES OutputReachesHost FreeBufferAnswers SendEnds
CHECK_DEADLOCK FALSE
