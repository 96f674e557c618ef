\* Two streams wait; a provider may come, go and come back.
CONSTANTS
    Waiters = {w1, w2}
    Nobody = Nobody
    MaxArrivals = 2
SPECIFICATION FairSpec
INVARIANTS
    TypeOK
    SleepersHaveTimer
PROPERTIES
    KeepsPromise
    HelperEnds
