\* Overlapping calls of two users, expiry, panics, a provider that may hang.
CONSTANTS
    None = None
    Users = {u1, u2}
    Requests = {r1, r2, r3}
    MayPanic = TRUE
SPECIFICATION HungSpec
INVARIANTS AnsweredOnce AnswerOfSameUser LostOnlyInRace
PROPERTY EveryRequestAnswered
