-------------------------- MODULE ProviderPromise --------------------------
(***************************************************************************)
(* What EndpointRegistry.WaitForProvider promises its callers, from the    *)
(* cases of its return statements: every waiter ends with a provider that  *)
(* was registered when it looked, or gives up because its consumer has     *)
(* left, and it does one of the two once one of them lasts.                *)
(* How it sleeps in between is module ProviderWait.                        *)
(***************************************************************************)
CONSTANT Waiters

VARIABLES
    provider,     \* ep.ProviderYamux # nil
    done,         \* per waiter: its consumer's CloseChan is closed
    outcome       \* per waiter: pending, provider or gaveUp

vars == <<provider, done, outcome>>

Init == /\ provider \in BOOLEAN
        /\ done = [w \in Waiters |-> FALSE]
        /\ outcome = [w \in Waiters |-> "pending"]

Arrive == ~ provider /\ provider' = TRUE /\ UNCHANGED <<done, outcome>>

Depart == provider /\ provider' = FALSE /\ UNCHANGED <<done, outcome>>

ConsumerLeaves(w) == /\ ~ done[w]
                     /\ done' = [done EXCEPT ![w] = TRUE]
                     /\ UNCHANGED <<provider, outcome>>

Serve(w) == /\ outcome[w] = "pending"
            /\ provider
            /\ outcome' = [outcome EXCEPT ![w] = "provider"]
            /\ UNCHANGED <<provider, done>>

GiveUp(w) == /\ outcome[w] = "pending"
             /\ done[w]
             /\ outcome' = [outcome EXCEPT ![w] = "gaveUp"]
             /\ UNCHANGED <<provider, done>>

Next == Arrive \/ Depart \/ \E w \in Waiters : ConsumerLeaves(w) \/ Serve(w) \/ GiveUp(w)

Spec == Init /\ [][Next]_vars

FairSpec == Spec /\ \A w \in Waiters : WF_vars(Serve(w) \/ GiveUp(w))
=============================================================================
