SPECIFICATION Spec
CONSTANTS
    NumSlots = 1
    Word = 1
    Region = 1
    Button = {"center", "right", "bluetooth"}
    Builtin = {128}
    MaxHosts = 2
    MaxChanges = 3
    MoveWhileStarting = FALSE
INVARIANTS TypeOK PressActsOnce AdvertisesWhenAlone
PROPERTIES RunsWhatWasAccepted ShutdownCompletes AcceptedStartRuns
CHECK_DEADLOCK FALSE
