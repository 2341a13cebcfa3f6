\* Two users, up to three delayed messages, an Expire that may fail, versions
\* and deadlines that reach their ceilings.
CONSTANTS
    User = {u1, u2}
    Program = prog
    Delays = {0, 1, 3}
    MaxHeight = 4
    MaxVersion = 3
    MaxSent = 3
    EmitMayFail = TRUE
SPECIFICATION FairSpec
INVARIANTS
    TypeOK
    ActiveLockHasTimer
    NoStaleMatch
    EventsTellTheLock
PROPERTIES
    OnlyOwnTimerExpires
    EndsEarlyOnlyByCancel
    ImplementsLease
    EveryTermEnds
    LapsesLikeTheLease
