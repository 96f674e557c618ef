---------------------------- MODULE ProviderWait ----------------------------
(***************************************************************************)
(* How EndpointRegistry.WaitForProvider sleeps and is woken: ep.cond with  *)
(* its own mutex L, a 30 s timer per turn of the loop, one goroutine per   *)
(* call that broadcasts when the consumer leaves, and the provider's       *)
(* SetProvider, NotifyProviderArrived and RemoveProvider, which write      *)
(* ep.ProviderYamux and broadcast without holding L.                       *)
(*                                                                         *)
(* One endpoint; each waiter has missed the fast path and is counted in    *)
(* ep.waiters, so the Endpoint stays the same one (WaiterNeverOrphaned in  *)
(* module EndpointRegistry).                                               *)
(*                                                                         *)
(* sync.Cond is external: Wait joins the notify list, releases L, sleeps,  *)
(* and takes L again; Broadcast wakes the goroutines on the list now.      *)
(* A timer fires no earlier than its waiter has fallen asleep: no blocking *)
(* call stands between time.AfterFunc(30s) and the list.                   *)
(***************************************************************************)
EXTENDS Naturals, FiniteSets

CONSTANTS Waiters, MaxArrivals, Nobody

ASSUME WaitAssumption == MaxArrivals \in Nat /\ Nobody \notin Waiters

VARIABLES
    provider,     \* ep.ProviderYamux # nil
    arrivals,     \* how often a provider has registered, up to MaxArrivals
    notifying,    \* providers between SetProvider and NotifyProviderArrived
    done,         \* per waiter: its consumer's CloseChan is closed
    L,            \* the waiter that holds ep.cond.L, or Nobody
    pc,           \* per waiter
    asleep,       \* the notify list of ep.cond
    timer,        \* the waiters whose timer is running
    helper        \* per waiter: its broadcasting goroutine

vars == <<provider, arrivals, notifying, done, L, pc, asleep, timer, helper>>

WaiterPc == {"start", "lock", "done?", "provider?", "arm", "wait",
             "woken", "found", "served", "cancelled", "gaveUp"}

\* Where WaitForProvider holds cond.L.
Critical == {"done?", "provider?", "arm", "wait", "found", "cancelled"}

\* The variables' types, and L is the mutex of whoever is in the loop.
TypeOK ==
    /\ provider \in BOOLEAN
    /\ arrivals \in 0..MaxArrivals /\ notifying \in 0..MaxArrivals
    /\ done \in [Waiters -> BOOLEAN]
    /\ L \in Waiters \cup {Nobody}
    /\ pc \in [Waiters -> WaiterPc]
    /\ asleep \subseteq Waiters /\ timer \subseteq Waiters
    /\ helper \in [Waiters -> {"none", "selecting", "stopping", "over"}]
    /\ \A w \in Waiters : L = w <=> pc[w] \in Critical

Init ==
    /\ provider = FALSE
    /\ arrivals = 0
    /\ notifying = 0
    /\ done = [w \in Waiters |-> FALSE]
    /\ L = Nobody
    /\ pc = [w \in Waiters |-> "start"]
    /\ asleep = {} /\ timer = {}
    /\ helper = [w \in Waiters |-> "none"]

Step(w, from, to) == pc[w] = from /\ pc' = [pc EXCEPT ![w] = to]

Broadcast == asleep' = {}

-----------------------------------------------------------------------------
(* The provider's side: no lock of the waiters' is held. *)

SetProvider ==
    /\ ~ provider
    /\ arrivals < MaxArrivals
    /\ provider' = TRUE
    /\ arrivals' = arrivals + 1
    /\ notifying' = notifying + 1
    /\ UNCHANGED <<done, L, pc, asleep, timer, helper>>

NotifyProviderArrived ==
    /\ notifying > 0
    /\ notifying' = notifying - 1
    /\ Broadcast
    /\ UNCHANGED <<provider, arrivals, done, L, pc, timer, helper>>

\* RemoveProvider, or Forget, which may come before the broadcast and let the
\* next provider register.  Neither broadcasts.
RemoveProvider ==
    /\ provider
    /\ provider' = FALSE
    /\ UNCHANGED <<arrivals, notifying, done, L, pc, asleep, timer, helper>>

ConsumerLeaves(w) ==
    /\ ~ done[w]
    /\ done' = [done EXCEPT ![w] = TRUE]
    /\ UNCHANGED <<provider, arrivals, notifying, L, pc, asleep, timer, helper>>

-----------------------------------------------------------------------------
(* WaitForProvider's slow path. *)

\* Start the goroutine that waits for done or for stopBroadcast ...
StartHelper(w) ==
    /\ Step(w, "start", "lock")
    /\ helper' = [helper EXCEPT ![w] = "selecting"]
    /\ UNCHANGED <<provider, arrivals, notifying, done, L, asleep, timer>>

\* ... and take cond.L, which the loop gives up only while it sleeps.
Lock(w) ==
    /\ Step(w, "lock", "done?")
    /\ L = Nobody /\ L' = w
    /\ UNCHANGED <<provider, arrivals, notifying, done, asleep, timer, helper>>

CheckDone(w) ==
    /\ Step(w, "done?", IF done[w] THEN "cancelled" ELSE "provider?")
    /\ UNCHANGED <<provider, arrivals, notifying, done, L, asleep, timer, helper>>

CheckProvider(w) ==
    /\ Step(w, "provider?", IF provider THEN "found" ELSE "arm")
    /\ UNCHANGED <<provider, arrivals, notifying, done, L, asleep, timer, helper>>

\* Mutant: only the broadcasts wake a waiter.
ArmTimer_None(w) ==
    /\ Step(w, "arm", "wait")
    /\ UNCHANGED <<provider, arrivals, notifying, done, L, asleep, timer, helper>>

ArmTimer(w) ==
    /\ Step(w, "arm", "wait")
    /\ timer' = timer \cup {w}
    /\ UNCHANGED <<provider, arrivals, notifying, done, L, asleep, helper>>

\* cond.Wait: join the list, release L, sleep ...
Sleep(w) ==
    /\ Step(w, "wait", "woken")
    /\ asleep' = asleep \cup {w}
    /\ L' = Nobody
    /\ UNCHANGED <<provider, arrivals, notifying, done, timer, helper>>

\* ... and, off the list, take L; then timer.Stop.
Wake(w) ==
    /\ w \notin asleep
    /\ L = Nobody /\ L' = w
    /\ Step(w, "woken", "done?")
    /\ timer' = timer \ {w}
    /\ UNCHANGED <<provider, arrivals, notifying, done, asleep, helper>>

\* Mutant: the timer wakes one waiter (Signal for Broadcast), not always its own.
TimerFires_Signals(w) ==
    /\ w \in timer
    /\ pc[w] = "woken"
    /\ timer' = timer \ {w}
    /\ \/ asleep = {} /\ UNCHANGED asleep
       \/ \E v \in asleep : asleep' = asleep \ {v}
    /\ UNCHANGED <<provider, arrivals, notifying, done, L, pc, helper>>

TimerFires(w) ==
    /\ w \in timer
    /\ pc[w] = "woken"
    /\ timer' = timer \ {w}
    /\ Broadcast
    /\ UNCHANGED <<provider, arrivals, notifying, done, L, pc, helper>>

\* Mutant: close(stopBroadcast) is forgotten.
Return_HelperStays(w) ==
    /\ \/ Step(w, "found", "served")
       \/ Step(w, "cancelled", "gaveUp")
    /\ L' = Nobody
    /\ UNCHANGED <<provider, arrivals, notifying, done, asleep, timer, helper>>

\* Mutant: cond.L is not unlocked on the way out.
Return_KeepsLock(w) ==
    /\ \/ Step(w, "found", "served")
       \/ Step(w, "cancelled", "gaveUp")
    /\ helper' = [helper EXCEPT ![w] = IF @ = "selecting" THEN "stopping" ELSE @]
    /\ UNCHANGED <<provider, arrivals, notifying, done, L, asleep, timer>>

\* The deferred cond.L.Unlock and close(stopBroadcast).
Return(w) ==
    /\ \/ Step(w, "found", "served")
       \/ Step(w, "cancelled", "gaveUp")
    /\ L' = Nobody
    /\ helper' = [helper EXCEPT ![w] = IF @ = "selecting" THEN "stopping" ELSE @]
    /\ UNCHANGED <<provider, arrivals, notifying, done, asleep, timer>>

\* The helper's select: done has a broadcast, stopBroadcast has none.
HelperBroadcasts(w) ==
    /\ helper[w] \in {"selecting", "stopping"} /\ done[w]
    /\ helper' = [helper EXCEPT ![w] = "over"]
    /\ Broadcast
    /\ UNCHANGED <<provider, arrivals, notifying, done, L, pc, timer>>

HelperStops(w) ==
    /\ helper[w] = "stopping"
    /\ helper' = [helper EXCEPT ![w] = "over"]
    /\ UNCHANGED <<provider, arrivals, notifying, done, L, pc, asleep, timer>>

-----------------------------------------------------------------------------

WaiterStep(w) == \/ StartHelper(w) \/ Lock(w) \/ CheckDone(w) \/ CheckProvider(w)
                 \/ ArmTimer(w) \/ Sleep(w) \/ Wake(w) \/ Return(w)

HelperStep(w) == HelperBroadcasts(w) \/ HelperStops(w)

\* Everyone has an answer, and no goroutine is left behind.
AllReturned == \A w \in Waiters : pc[w] \in {"served", "gaveUp"} /\ helper[w] = "over"

Idle == AllReturned /\ UNCHANGED vars

Next == \/ SetProvider \/ NotifyProviderArrived \/ RemoveProvider \/ Idle
        \/ \E w \in Waiters : \/ ConsumerLeaves(w) \/ WaiterStep(w)
                              \/ HelperStep(w) \/ TimerFires(w)

Spec == Init /\ [][Next]_vars

\* sync.Mutex hands a starving goroutine the lock, hence the strong fairness
\* on taking L; nothing makes providers come or consumers leave.
Fairness ==
    /\ WF_vars(NotifyProviderArrived)
    /\ \A w \in Waiters :
        /\ WF_vars(WaiterStep(w)) /\ SF_vars(Lock(w)) /\ SF_vars(Wake(w))
        /\ WF_vars(TimerFires(w)) /\ WF_vars(HelperStep(w))

FairSpec == Spec /\ Fairness

-----------------------------------------------------------------------------

\* A waiter on the notify list has a timer running, its own: whatever else's
\* broadcast came too early for it, one is still to come.
SleepersHaveTimer == asleep \subseteq timer

\* The outcome is settled when the loop finds a reason to return.
Outcome == [w \in Waiters |->
    IF pc[w] \in {"found", "served"} THEN "provider"
    ELSE IF pc[w] \in {"cancelled", "gaveUp"} THEN "gaveUp" ELSE "pending"]

Promise == INSTANCE ProviderPromise WITH outcome <- Outcome

\* WaitForProvider returns only what it promises, and always does when a
\* provider stays or the consumer has left, although a broadcast may fall
\* between a waiter's check and its sleep: the 30 s timer makes up for it.
KeepsPromise == Promise!FairSpec

\* The goroutine that waits for done does not outlive its call.
HelperEnds ==
    \A w \in Waiters : pc[w] \in {"served", "gaveUp"} ~> helper[w] = "over"
=============================================================================
