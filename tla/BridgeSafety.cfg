\* Start-up from files near a good one, then either engine.
CONSTANTS
    c1 = c1  c2 = c2  c3 = c3
    Suffix <- Question
    MaxTextLen = 7
    MaxChunkLimit = 6
    Files <- SomeFiles
    NoFile = NoFile
    Words <- AllWords
    Normal <- NormalOf
    Numerals <- Digits
    Roster <- Family
    Modes <- Tales
    Calls = {c1, c2, c3}
    ContextWindow = 1
    MaxWindow = 2
    Timeout = 3
    ThinkingTtl = 8
    StoreOutcomes = {"ok", "failed"}
    ProviderOutcomes = {"answer", "timeout", "server"}
    Durations = {}
    Nobody = Nobody
    Application = "app"
    Requests <- SomeRequests
    Answers <- SomeAnswers
    Completions <- SomeCompletions
SPECIFICATION Spec
SYMMETRY CallSymmetry
INVARIANTS AcceptedFileBuilds SpeakerOfExchange BilledAsAsked AnswerWithinSlot ControlNeverAsked FitsPlatform SameChunks
PROPERTIES ReadsAloud
