\* A user says Forget after an answer; nothing fails.
CONSTANTS
    Profiles = {p1}
    DefaultProfile = p1
    Exchanges = {x1, x2}
    ContextWindow = 1
    MaxWindow = 2
    WindowsSaid = {}
    MaxForgets = 1
    StoreOutcomes = {"ok"}
    ProviderOutcomes = {"ok"}
SPECIFICATION Spec

INVARIANT ForgottenStaysForgotten
