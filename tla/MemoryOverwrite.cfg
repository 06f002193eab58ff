\* Two exchanges, a store call that fails.
CONSTANTS
    Profiles = {p1}
    DefaultProfile = p1
    Exchanges = {x1, x2}
    ContextWindow = 1
    MaxWindow = 2
    WindowsSaid = {}
    MaxForgets = 0
    StoreOutcomes = {"ok", "failed"}
    ProviderOutcomes = {"ok"}
SPECIFICATION Spec

INVARIANT FoldedWhateverFails
