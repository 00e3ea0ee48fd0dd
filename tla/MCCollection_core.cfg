SPECIFICATION Spec
CONSTANTS
    s1 = s1
    s2 = s2
    None = None
    Records = {1, 2}
    Segments = {s1, s2}
    Positions = {1, 2}
    RecordsPerPosition = 1
    PageSize = 1
    Contents <- CoreContents
    Files <- CoreFiles
    TiesAllowed = FALSE
    MaxTime = 2
    MaxImports = 2
    MaxFaults = 1
INVARIANTS
    TypeOK
    OneTicketEach
    StatusFollowsData
    FaultyIsLogged
    FullIsChecked
PROPERTIES
    ObeysLifecycle
