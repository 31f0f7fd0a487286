CONSTANTS
    NumSlots = 3
    Word = 2
    Region = 18
    RamSize = 19
    Chunk = {3}
    Claim = {}
    Scenario = {"shutdown"}
SPECIFICATION Spec
VIEW LiveState
INVARIANTS
    TypeOK
    ProgramsTiled
    ProgramsIntact
    SavedProgramsIntact
