SPECIFICATION Spec
CONSTANTS
    k1 = k1
    k2 = k2
    k3 = k3
    p1 = p1
    p2 = p2
    w1 = w1
    None = None
    Users = {u1}
    Keys = {k1, k2, k3}
    Provinces = {p1, p2}
    Wards = {w1}
    ProvinceOf <- MCProvinceOf
    WardOf <- MCWardOf
    Prices = {1, 2, 3}
    AMax = 1
    BMax = 2
    Files <- MasterFiles
    MaxImports = 3
    MaxSaves = 2
    MaxFaults = 1
INVARIANTS
    TypeOK
    HandSetKept
    GroupFollowsPrice
    RegisterIsMaster
