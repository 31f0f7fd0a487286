CONSTANTS
    NumSlots = 2
    Word = 1
    Region = 2
    Button = {"center", "right"}
    Builtin = {128}
    MaxHosts = 1
    MaxChanges = 1
    MoveWhileStarting = TRUE
SPECIFICATION Spec
PROPERTY
    RunsStoredProgram
