SPECIFICATION Spec
CONSTANTS
    s1 = s1
    s2 = s2
    w1 = w1
    w2 = w2
    None = None
    Illegible = Illegible
    Segments = {s1, s2}
    Wards = {w1, w2}
    WardOf <- MCWardOf
    People = {ann, bob}
    Dates = {may}
    Branches = {north, south}
    Workbooks = {w}
    MaxFills = 2
    MaxSaves = 2
INVARIANTS
    TypeOK
    RoundTrip
    FilledStays
