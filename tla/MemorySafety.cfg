\* Interleaved exchanges of two profiles, failures, one Forget.
CONSTANTS
    Profiles = {p1, p2}
    DefaultProfile = p1
    Exchanges = {x1, x2, x3}
    ContextWindow = 2
    MaxWindow = 2
    WindowsSaid = {0}
    MaxForgets = 1
    StoreOutcomes = {"ok", "failed"}
    ProviderOutcomes = {"ok", "failed"}
SPECIFICATION Spec
SYMMETRY ExchangeSymmetry
INVARIANTS TypeOK ProfilesApart SummaryComplete BacklogBounded
PROPERTIES SummaryMovesForward
