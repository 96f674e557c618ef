\* The broker's main function, against the comment on Stop.
CONSTANTS
    Sessions = {s1}
SPECIFICATION Spec
INVARIANT ExitsAfterCleanup
CHECK_DEADLOCK FALSE
