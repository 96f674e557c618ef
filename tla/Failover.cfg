\* A provider, which may connect again beside the session it has left, and a
\* consumer with one stream at a time; one fault.
CONSTANTS
    n1 = n1
    p1 = p1
    p2 = p2
    c1 = c1
    t1 = t1
    provider = provider
    consumer = consumer
    Names = {n1}
    Providers = {p1, p2}
    Consumers = {c1}
    Streams = {t1}
    \* one in the table, and one orphan for the consumer
    Objects = {o1, o2}
    None = None
    MaxEndpoints = 1
    EndpointOf <- OneName
    OwnerOf <- OneOwner
    Clients = {provider, consumer}
    IdsOf <- IdsEach
    MaxFaults = 1
SPECIFICATION FairFailoverSpec
INVARIANT FailoverTypeOK
PROPERTIES
    ServedAgain
    ConsumersReturn
\* All is well in the end.
CHECK_DEADLOCK FALSE
