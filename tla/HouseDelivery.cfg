\* Two surfaces that wait for their replies, a store that answers, no expiry.
CONSTANTS
    None = None
    h1 = h1  a1 = a1  a2 = a2  a3 = a3
    r1 = r1  r2 = r2  r3 = r3  r4 = r4
    Houses = {h1}
    Apps = {a1, a2}
    HouseOf <- OneHouse
    Requests = {r1, r2, r3, r4}
    Inputs <- Hesitation
    MaxParts = 3
    StoreOutcomes = {"ok"}
    RuntimeOutcomes = {"ok"}
    Overlap = FALSE
    TimeMoves = FALSE
    MayCrash = FALSE
SPECIFICATION Spec
SYMMETRY CallSymmetry
INVARIANTS NothingLost SaidOnce ChunksInOrder
