CONSTANTS
    NumSlots = 2
    Word = 2
    Region = 8
    RamSize = 9
    Chunk = {1, 3}
    Claim = {}
    Scenario = {"shutdown", "hostDuringSave"}
SPECIFICATION Spec
VIEW LiveState
INVARIANTS
    SavedProgramsIntact
