------------------------------ MODULE MCRelay ------------------------------
(* Small instances of Relay. *)
EXTENDS Relay, TLC

CONSTANTS n1, n2, p1, p2, c1, c2, s1, s2

\* Everybody meets on one name.
OneName == [s \in Sessions |-> n1]

\* A consumer on each of two names, the provider and the stream on the first.
TwoNames == (p1 :> n1) @@ (c1 :> n1) @@ (c2 :> n2)

OfFirst == [st \in Streams |-> c1]

\* Without streams the consumers are interchangeable too.
Symmetry == Permutations(Objects) \cup Permutations(Providers) \cup Permutations(Consumers)
=============================================================================
