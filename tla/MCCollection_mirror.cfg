SPECIFICATION FairSpec
CONSTANTS
    s1 = s1
    s2 = s2
    None = None
    Records = {1, 2}
    Segments = {s1}
    Positions = {1}
    RecordsPerPosition = 1
    PageSize = 1
    Contents <- ComesAndGoes
    Files = {}
    TiesAllowed = TRUE
    MaxTime = 2
    MaxImports = 0
    MaxFaults = 1
INVARIANTS
    CursorCoversSource
PROPERTIES
    RunTakesAll
    ObeysMirror
    SourceIsMirrored
