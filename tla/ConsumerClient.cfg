\* Three connections meet a queue of two, across two sessions.
CONSTANTS
    Conns = {k1, k2, k3}
    MaxRounds = 2
    QueueCap = 2
SPECIFICATION FairSpec
INVARIANT TypeOK
PROPERTIES
    DialsOnTheCurrentSession
    QueuedAreServed
    CancelEndsRun
\* The last round may end without a signal.
CHECK_DEADLOCK FALSE
