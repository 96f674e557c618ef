\* Two names compete for room for one; a provider, a consumer and its stream
\* meet on the first.
CONSTANTS
    n1 = n1
    n2 = n2
    p1 = p1
    p2 = p2
    c1 = c1
    c2 = c2
    s1 = s1
    s2 = s2
    Names = {n1, n2}
    Providers = {p1}
    Consumers = {c1, c2}
    Streams = {s1}
    \* one in the table, and one orphan
    Objects = {o1, o2}
    None = None
    MaxEndpoints = 1
    EndpointOf <- TwoNames
    OwnerOf <- OfFirst
SPECIFICATION FairSpec
INVARIANTS
    TypeOK
    WaiterNeverOrphaned
    EntriesInUse
    TableBounded
    EndpointsIsolated
PROPERTIES
    DirectorySpec
    TableDrains
    NoWaitForTheDeparted
    RetiredProviderLeaves
