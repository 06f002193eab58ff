\* A runtime that may hang or fail, a store that answers, an unbound surface.
CONSTANTS
    None = None
    h1 = h1  a1 = a1  a2 = a2  a3 = a3
    r1 = r1  r2 = r2  r3 = r3  r4 = r4
    Houses = {h1}
    Apps = {a1, a2, a3}
    HouseOf <- Unbound
    Requests = {r1, r2}
    Inputs <- EveryInput
    MaxParts = 2
    StoreOutcomes = {"ok"}
    RuntimeOutcomes = {"ok", "failed"}
    Overlap = TRUE
    TimeMoves = FALSE
    MayCrash = FALSE
SPECIFICATION HungSpec

PROPERTIES EveryRequestAnswered HouseUnlocked ThinkingEnds
