------------------------------- MODULE Tunnel -------------------------------
(***************************************************************************)
(* What a tunnelled connection promises the program at each end: each      *)
(* direction is a stream of its own, delivered in full and then ended,     *)
(* whatever the other direction does, unless something outside the two     *)
(* bridges fails.  It is what the copies and closes of                     *)
(* internal/broker/relay.go, bridgeConns, and internal/provider/handler.go,*)
(* Handle, are to add up to; how they do is module Bridge.                 *)
(***************************************************************************)
EXTENDS Naturals

Dirs == {"up", "down"}

VARIABLES
    sent,         \* per direction: the chunks due of what its sender has written
    closed,       \* per direction: its sender will write no more
    got,          \* per direction: the chunks its receiver has read
    ended,        \* per direction: its receiver has seen the end
    failed        \* a link, the dial or the broker's search for a provider failed

vars == <<sent, closed, got, ended, failed>>

Init == /\ sent = [d \in Dirs |-> 0] /\ closed = [d \in Dirs |-> FALSE]
        /\ got = [d \in Dirs |-> 0] /\ ended = [d \in Dirs |-> FALSE]
        /\ failed = FALSE

\* One write may make several chunks due: a request head counts once whole.
Send(d) == /\ ~ closed[d] /\ sent'[d] \in Nat /\ sent'[d] > sent[d]
           /\ sent' = [sent EXCEPT ![d] = sent'[d]]
           /\ UNCHANGED <<closed, got, ended, failed>>

Close(d) == /\ ~ closed[d]
            /\ closed' = [closed EXCEPT ![d] = TRUE]
            /\ UNCHANGED <<sent, got, ended, failed>>

Deliver(d) == /\ ~ ended[d] /\ got[d] < sent[d]
              /\ got' = [got EXCEPT ![d] = @ + 1]
              /\ UNCHANGED <<sent, closed, ended, failed>>

End(d) == /\ ~ ended[d]
          /\ ~ failed => closed[d] /\ got[d] = sent[d]
          /\ ended' = [ended EXCEPT ![d] = TRUE]
          /\ UNCHANGED <<sent, closed, got, failed>>

Fail == ~ failed /\ failed' = TRUE /\ UNCHANGED <<sent, closed, got, ended>>

Next == Fail \/ \E d \in Dirs : Send(d) \/ Close(d) \/ Deliver(d) \/ End(d)

Spec == Init /\ [][Next]_vars
=============================================================================
