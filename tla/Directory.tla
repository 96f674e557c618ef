----------------------------- MODULE Directory -----------------------------
(***************************************************************************)
(* What the endpoint table of internal/broker/endpoint.go promises the     *)
(* goroutines that use it: a directory with one record for every name,     *)
(* always there to look at.  A name takes up room while anyone uses it and *)
(* gives it back in the same step as its last user goes.  There are no     *)
(* structs, no pointers to them and no reclaiming; how the table does with *)
(* those is module EndpointRegistry.                                       *)
(***************************************************************************)
EXTENDS Naturals, FiniteSets

CONSTANTS Names, Providers, Consumers, Streams, EndpointOf, OwnerOf, MaxEndpoints, None

VARIABLE record       \* per name

Empty == [provider |-> None, consumers |-> {}, yamuxes |-> {}, waiters |-> {}]

InUse == {n \in Names : record[n] # Empty}

Room(n) == n \in InUse \/ Cardinality(InUse) < MaxEndpoints

Init == record = [n \in Names |-> Empty]

\* One provider at a time.
SetProvider(p) ==
    LET n == EndpointOf[p] IN
    /\ Room(n)
    /\ record[n].provider = None
    /\ record' = [record EXCEPT ![n].provider = p]

\* A provider takes the consumers with it, unless the name is another's.
RemoveProvider(p) ==
    LET n == EndpointOf[p] IN
    /\ record[n].provider \in {None, p}
    /\ record' = [record EXCEPT ![n].provider = None, ![n].consumers = {}, ![n].yamuxes = {}]

Forget(s) ==
    record' = [record EXCEPT ![EndpointOf[s]].provider = IF @ = s THEN None ELSE @,
                             ![EndpointOf[s]].consumers = @ \ {s}]

AddConsumer(c) ==
    /\ Room(EndpointOf[c])
    /\ record' = [record EXCEPT ![EndpointOf[c]].consumers = @ \cup {c}]

\* Only a name in use takes note of a consumer's yamux session.
RegisterConsumerYamux(c) ==
    /\ EndpointOf[c] \in InUse
    /\ record' = [record EXCEPT ![EndpointOf[c]].yamuxes = @ \cup {c}]

UnregisterConsumerYamux(c) ==
    record' = [record EXCEPT ![EndpointOf[c]].yamuxes = @ \ {c}]

\* WaitForProvider counts its stream while it waits.
Enroll(st) ==
    LET n == EndpointOf[OwnerOf[st]] IN
    /\ Room(n)
    /\ record' = [record EXCEPT ![n].waiters = @ \cup {st}]

Leave(st) ==
    LET n == EndpointOf[OwnerOf[st]] IN
    /\ st \in record[n].waiters
    /\ record' = [record EXCEPT ![n].waiters = @ \ {st}]

Next ==
    \/ \E p \in Providers : SetProvider(p) \/ RemoveProvider(p)
    \/ \E s \in Providers \cup Consumers : Forget(s)
    \/ \E c \in Consumers : \/ AddConsumer(c) \/ RegisterConsumerYamux(c)
                            \/ UnregisterConsumerYamux(c)
    \/ \E st \in Streams : Enroll(st) \/ Leave(st)

Spec == Init /\ [][Next]_record
=============================================================================
