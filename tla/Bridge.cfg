\* A request in two chunks, held until the second, and one chunk down, through
\* pipes that hold one.
CONSTANTS
    Window = 1
    MaxData <- LongRequest
    Whole <- SplitHead
SPECIFICATION FairSpec
INVARIANT TypeOK
PROPERTIES
    TunnelSpec
    Delivered
    BridgesEnd
\* The connection ends.
CHECK_DEADLOCK FALSE
