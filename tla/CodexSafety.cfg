\* One call against an app-server that may send anything.  A call ends.
CONSTANTS
    None = None
    Threads = {t1}
    Turns = {n1, n2}
    HomeyEnabled = TRUE
    MaxReads = 7
    MaxQueued = 2
SPECIFICATION Spec
SYMMETRY IdSymmetry
INVARIANTS TypeOK WholeAnswer NoFalseSuccess OnlyOwnConnector ConfinedFirst RequestsNeverIgnored
CHECK_DEADLOCK FALSE
