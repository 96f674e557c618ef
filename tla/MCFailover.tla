----------------------------- MODULE MCFailover -----------------------------
(* Small instances of Failover: one endpoint. *)
EXTENDS Failover

CONSTANTS n1, p1, p2, c1, t1, provider, consumer

OneName == [s \in Sessions |-> n1]

OneOwner == [st \in Streams |-> c1]

\* One provider, which may connect again beside the session it has left.
IdsEach == [k \in Clients |-> CASE k = provider -> {p1, p2}
                               [] k = consumer -> Consumers]
=============================================================================
