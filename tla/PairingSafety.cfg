\* An account of two houses, one application, a store that may fail.
CONSTANTS
    None = None
    Houses = {h1, h2}
    Users = {u1}
    Apps = {a1}
    Codes = {k1, k2}
    Calls = {c1, c2, c3}
    Approvals = {p1, p2}
    StoreOutcomes = {"ok", "lost", "failed"}
SPECIFICATION Spec
SYMMETRY IdSymmetry
INVARIANTS TypeOK BoundForGood ApprovedAsTyped ApprovalInForce
