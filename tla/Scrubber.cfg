\* Up to three requests and what may follow them; one request's head is too long
\* for the buffer.
CONSTANTS
    Connections <- Mixed
    Data = {"a"}
    MaxRequests = 3
    MaxHeader = 7
SPECIFICATION Spec
INVARIANTS
    TypeOK
    NothingCorrupted
    AllWritten
    OnlyHeadsHeld
\* The connection ends, or its target fails.
CHECK_DEADLOCK FALSE
