\* Overlapping requests, failing store and runtime, expiry and crashes.
CONSTANTS
    None = None
    h1 = h1  a1 = a1  a2 = a2  a3 = a3
    r1 = r1  r2 = r2  r3 = r3  r4 = r4
    Houses = {h1}
    Apps = {a1, a2}
    HouseOf <- OneHouse
    Requests = {r1, r2, r3}
    Inputs <- Questions
    MaxParts = 2
    StoreOutcomes = {"ok", "lost", "failed"}
    RuntimeOutcomes = {"ok", "failed"}
    Overlap = TRUE
    TimeMoves = TRUE
    MayCrash = TRUE
SPECIFICATION Spec
SYMMETRY CallSymmetry
INVARIANTS TypeOK OnlyInitiatingSurface TurnsOnHouseThread OneWorkPerHouse
PROPERTIES KeepsOneChat
