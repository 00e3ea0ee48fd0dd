SPECIFICATION Spec
CONSTANTS
    s1 = s1
    s2 = s2
    None = None
    Records = {1, 2}
    Segments = {s1, s2}
    Positions = {1, 2}
    RecordsPerPosition = 1
    FirstNeed <- NeedThree
    Pricings <- OneOrTwo
    Province <- OneProvince
    Group <- TwoGroups
    Branch <- OneBranch
    People = {ann}
    Overrides = {}
    Deadlines = {0, None}
    Scopes <- TwoScopes
    AlertDays = 0
    EtaDays = 1
    MaxDay = 1
    MaxChanges = 3
    MaxDisturbances = 1
INVARIANTS
    WhiteZonesAreIncomplete
