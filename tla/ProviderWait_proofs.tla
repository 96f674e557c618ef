-------------------------- MODULE ProviderWait_proofs --------------------------
(***************************************************************************)
(* For any number of waiters and of providers that come and go: ep.cond.L  *)
(* is a mutex, a waiter on the notify list has its own timer running, and  *)
(* WaitForProvider returns nothing but what it promises.  That it does     *)
(* return is a matter of fairness, which is left to the model checker.     *)
(***************************************************************************)
EXTENDS ProviderWait, TLAPS

\* A waiter that is about to sleep has armed its timer, and no provider
\* notifies that has not arrived.
Armed ==
    /\ asleep \subseteq timer
    /\ \A w \in Waiters : pc[w] = "wait" => w \in timer
    /\ notifying <= arrivals

WaitInv == TypeOK /\ Armed

\* Nobody waits at first.
LEMMA WaitInit == Init => WaitInv
<1> SUFFICES ASSUME Init PROVE WaitInv
  OBVIOUS
<1> USE WaitAssumption DEF Init
<1>1. arrivals \in 0..MaxArrivals /\ notifying \in 0..MaxArrivals /\ notifying <= arrivals
  OBVIOUS
<1>2. \A w \in Waiters : (L = w) <=> (pc[w] \in Critical)
  BY DEF Critical
<1>3. TypeOK
  BY <1>1, <1>2 DEF TypeOK, WaiterPc
<1>4. Armed
  BY <1>1 DEF Armed
<1> QED  BY <1>3, <1>4 DEF WaitInv

\* Providers and consumers hold no lock and change no waiter's place.
LEMMA OthersInv ==
    ASSUME WaitInv,
           \/ SetProvider \/ NotifyProviderArrived \/ RemoveProvider
           \/ \E w \in Waiters : ConsumerLeaves(w)
    PROVE  WaitInv'
<1> USE WaitAssumption DEF WaitInv, Broadcast
<1>1. arrivals' \in 0..MaxArrivals /\ notifying' \in 0..MaxArrivals /\ notifying' <= arrivals'
  BY DEF SetProvider, NotifyProviderArrived, RemoveProvider, ConsumerLeaves, TypeOK, Armed
<1>2. /\ UNCHANGED <<L, pc, timer, helper>> /\ asleep' \subseteq asleep
      /\ provider' \in BOOLEAN /\ done' \in [Waiters -> BOOLEAN]
  BY DEF SetProvider, NotifyProviderArrived, RemoveProvider, ConsumerLeaves, TypeOK
<1>3. TypeOK'
  BY <1>1, <1>2 DEF TypeOK
<1>4. Armed'
  BY <1>1, <1>2 DEF Armed
<1> QED  BY <1>3, <1>4

\* A waiter goes from place to place with L in its hands ...
LEMMA LockedInv ==
    ASSUME WaitInv, NEW w \in Waiters,
           \/ StartHelper(w) \/ CheckDone(w) \/ CheckProvider(w) \/ ArmTimer(w)
    PROVE  WaitInv'
<1> USE DEF WaitInv, Step
<1>1. TypeOK'
  BY DEF StartHelper, CheckDone, CheckProvider, ArmTimer, TypeOK, WaiterPc, Critical
<1>2. Armed'
  BY DEF StartHelper, CheckDone, CheckProvider, ArmTimer, TypeOK, Armed
<1> QED  BY <1>1, <1>2

\* ... takes it when nobody has it ...
LEMMA TakesInv ==
    ASSUME WaitInv, NEW w \in Waiters, Lock(w) \/ Wake(w)
    PROVE  WaitInv'
<1> USE WaitAssumption DEF WaitInv, Step
<1>1. TypeOK'
  BY DEF Lock, Wake, TypeOK, WaiterPc, Critical
<1>2. Armed'
  BY DEF Lock, Wake, TypeOK, Armed
<1> QED  BY <1>1, <1>2

\* ... and gives it back when it sleeps or returns.
LEMMA GivesInv ==
    ASSUME WaitInv, NEW w \in Waiters, Sleep(w) \/ Return(w)
    PROVE  WaitInv'
<1> USE WaitAssumption DEF WaitInv, Step
<1>1. TypeOK'
  BY DEF Sleep, Return, TypeOK, WaiterPc, Critical
<1>2. Armed'
  BY DEF Sleep, Return, TypeOK, Armed
<1> QED  BY <1>1, <1>2

\* The helper and the timer wake everyone, or change nothing of it.
LEMMA HelpersInv ==
    ASSUME WaitInv, NEW w \in Waiters, HelperStep(w) \/ TimerFires(w)
    PROVE  WaitInv'
<1> USE DEF WaitInv, Broadcast, HelperStep, HelperBroadcasts, HelperStops
<1>1. TypeOK'
  BY DEF TimerFires, TypeOK
<1>2. Armed'
  BY DEF TimerFires, TypeOK, Armed
<1> QED  BY <1>1, <1>2

\* Every step preserves the invariant.
LEMMA WaitNextInv == WaitInv /\ [Next]_vars => WaitInv'
<1> SUFFICES ASSUME WaitInv, [Next]_vars PROVE WaitInv'
  OBVIOUS
<1>1. CASE Idle \/ UNCHANGED vars
  BY <1>1 DEF Idle, vars, WaitInv, TypeOK, Armed
<1> QED
  BY <1>1, OthersInv, LockedInv, TakesInv, GivesInv, HelpersInv DEF Next, WaiterStep

\* The inductive invariant holds in every reachable state.
THEOREM WaitInvariant == Spec => []WaitInv
BY WaitInit, WaitNextInv, PTL DEF Spec

\* Every variable keeps its type; ep.cond.L is held by the one waiter that is
\* in its critical section.
THEOREM WaitType == Spec => []TypeOK
<1>1. WaitInv => TypeOK
  BY DEF WaitInv
<1> QED  BY <1>1, WaitInvariant, PTL

\* Whoever sleeps has a timer of its own to wake it.
THEOREM SleepersTimed == Spec => []SleepersHaveTimer
<1>1. WaitInv => SleepersHaveTimer
  BY DEF WaitInv, Armed, SleepersHaveTimer
<1> QED  BY <1>1, WaitInvariant, PTL

(***************************************************************************)
(* The promise, step by step.                                              *)
(***************************************************************************)

\* A waiter's look at done decides that it gives up, its look at the provider
\* that it is served; no other step of the loop decides anything.
LEMMA LoopPromise ==
    ASSUME TypeOK, NEW w \in Waiters, WaiterStep(w)
    PROVE  [Promise!Next]_Promise!vars
<1> USE DEF TypeOK, Step
<1>1. CASE CheckDone(w) /\ done[w]
  <2>1. Outcome[w] = "pending" /\ Outcome' = [Outcome EXCEPT ![w] = "gaveUp"]
    BY <1>1 DEF CheckDone, Outcome
  <2> QED  BY <1>1, <2>1 DEF CheckDone, Promise!GiveUp, Promise!Next
<1>2. CASE CheckProvider(w) /\ provider
  <2>1. Outcome[w] = "pending" /\ Outcome' = [Outcome EXCEPT ![w] = "provider"]
    BY <1>2 DEF CheckProvider, Outcome
  <2> QED  BY <1>2, <2>1 DEF CheckProvider, Promise!Serve, Promise!Next
<1>3. CASE ~ (CheckDone(w) /\ done[w]) /\ ~ (CheckProvider(w) /\ provider)
  <2>1. UNCHANGED <<provider, done>>
    BY <1>3 DEF WaiterStep, StartHelper, Lock, CheckDone, CheckProvider, ArmTimer, Sleep,
         Wake, Return
  <2>2. Outcome' = Outcome
    BY <1>3 DEF WaiterStep, StartHelper, Lock, CheckDone, CheckProvider, ArmTimer, Sleep,
         Wake, Return, Outcome
  <2> QED  BY <2>1, <2>2 DEF Promise!vars
<1> QED  BY <1>1, <1>2, <1>3

\* Every step of WaitForProvider and of those around it is one the promise
\* allows, or none of its business.
LEMMA PromiseStep == TypeOK /\ [Next]_vars => [Promise!Next]_Promise!vars
<1> SUFFICES ASSUME TypeOK, [Next]_vars PROVE [Promise!Next]_Promise!vars
  OBVIOUS
<1>1. ASSUME pc' = pc PROVE Outcome' = Outcome
  BY <1>1 DEF Outcome
<1>2. CASE SetProvider
  BY <1>1, <1>2 DEF SetProvider, Promise!Arrive, Promise!Next
<1>3. CASE RemoveProvider
  BY <1>1, <1>3 DEF RemoveProvider, Promise!Depart, Promise!Next
<1>4. ASSUME NEW w \in Waiters, ConsumerLeaves(w) PROVE [Promise!Next]_Promise!vars
  BY <1>1, <1>4 DEF ConsumerLeaves, Promise!ConsumerLeaves, Promise!Next
<1>5. ASSUME NEW w \in Waiters, HelperStep(w) \/ TimerFires(w)
      PROVE  [Promise!Next]_Promise!vars
  BY <1>1, <1>5 DEF HelperStep, HelperBroadcasts, HelperStops, TimerFires, Promise!vars
<1>6. CASE NotifyProviderArrived \/ Idle \/ UNCHANGED vars
  BY <1>1, <1>6 DEF NotifyProviderArrived, Idle, vars, Promise!vars
<1> QED  BY <1>2, <1>3, <1>4, <1>5, <1>6, LoopPromise DEF Next

\* WaitForProvider implements its promise: it serves a stream only while a
\* provider is there, gives up only on a consumer that has left, and decides
\* once.  (KeepsPromise adds that it decides in the end.)
THEOREM WaitPromised == Spec => Promise!Spec
<1>1. Init => Promise!Init
  BY DEF Init, Promise!Init, Outcome
<1> QED  BY <1>1, WaitType, PromiseStep, PTL DEF Spec, Promise!Spec

=============================================================================
