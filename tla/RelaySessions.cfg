\* Two providers and two consumers meet on one name; no streams.
CONSTANTS
    n1 = n1
    n2 = n2
    p1 = p1
    p2 = p2
    c1 = c1
    c2 = c2
    s1 = s1
    s2 = s2
    Names = {n1}
    Providers = {p1, p2}
    Consumers = {c1, c2}
    Streams = {}
    \* one in the table, and one orphan for every consumer
    Objects = {o1, o2, o3}
    None = None
    MaxEndpoints = 1
    EndpointOf <- OneName
    OwnerOf <- OfFirst
SPECIFICATION Spec
SYMMETRY Symmetry
INVARIANTS
    ServingIsRegistered
    RegisteredIsServing
    CountedConsumersKnown
    QuietMeansEmpty
