\* Two users with one call at a time each.
CONSTANTS
    None = None
    Users = {u1, u2}
    Requests = {r1, r2, r3}
    MayPanic = FALSE
SPECIFICATION Spec
SYMMETRY RequestSymmetry
INVARIANT EveryCompletionLands
