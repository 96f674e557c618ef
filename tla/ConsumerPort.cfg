\* The comment on Run's listener, against the code.
CONSTANTS
    Conns = {k1}
    MaxRounds = 1
    QueueCap = 1
SPECIFICATION Spec
INVARIANT PortAlwaysAvailable
CHECK_DEADLOCK FALSE
