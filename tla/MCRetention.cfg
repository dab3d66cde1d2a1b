CONSTANTS
    NumThreads = 2
    Lifetime = 1
    MaxNumber = 1
    Clock = {0, 1, 2}
    ClockSteps <- MCClockSteps
    MaxEntries <- MCMaxEntries
SPECIFICATION Spec
INVARIANTS
    TypeOK
    AtMostMaxNumber
    NothingExpired
    ReleasedForAReason
    KeepsNewest
