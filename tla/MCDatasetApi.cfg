SPECIFICATION FairSpec
CONSTANTS
    Procs = {p1, p2}
    Connections = {c1, c2}
    Ids = {i1}
    Assets = {a1, a2}
    Unsupported = {a2}
    None = None
INVARIANTS
    TypeOK
    KnownIsFound
    RegistrationIsAtomic
    AnswersWhatWasAsked
    StatusNamesCause
PROPERTY RequestIsAnswered
