\* Two sessions, requests that hang, a process that may exit.
CONSTANTS
    Sessions = {s1, s2}
SPECIFICATION FairSpec
INVARIANTS
    TypeOK
    StopLeavesNothing
PROPERTY StopTerminates
\* A stopped server has nothing left to do.
CHECK_DEADLOCK FALSE
