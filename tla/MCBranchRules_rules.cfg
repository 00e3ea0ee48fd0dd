SPECIFICATION Spec
CONSTANTS
    s1 = s1
    s2 = s2
    s3 = s3
    w1 = w1
    w2 = w2
    p1 = p1
    p2 = p2
    None = None
    Users = {u1}
    Segments = {s1, s2, s3}
    Wards = {w1, w2}
    Provinces = {p1, p2}
    Branches = {b1, b2}
    WardOf <- MCWardOf
    ProvinceOf <- MCProvinceOf
    MaxSaves = 3
    MaxImports = 1
    MaxFaults = 1
INVARIANTS
    TypeOK
    RulesApplied
PROPERTIES
    RecomputeRepairs
