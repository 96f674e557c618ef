\* A session with two polls that may overlap, and another; a tick is a second, grace
\* and interval are those of the code.
CONSTANTS
    s1 = s1
    s2 = s2
    r1 = r1
    r2 = r2
    r3 = r3
    Sessions = {s1, s2}
    Requests = {r1, r2, r3}
    SessionOf <- TwoSessions
    Grace = 5
    Interval = 2
    Unmarked = Unmarked
SPECIFICATION FairSpec
INVARIANTS
    TypeOK
    MarksAreSwept
    ResumableSpared
PROPERTY MidPollDeathIsReaped
