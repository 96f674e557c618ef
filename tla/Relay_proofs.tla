---------------------------- MODULE Relay_proofs ----------------------------
(***************************************************************************)
(* The broker's goroutines use the endpoint table only through its         *)
(* methods, so what EndpointRegistry_proofs shows of the table holds here; *)
(* and with the table's help, who serves an endpoint and who is registered *)
(* for it agree.                                                           *)
(***************************************************************************)
EXTENDS Failover, EndpointRegistry_proofs

(***************************************************************************)
(* Every step of the broker is a call of the registry, or none.            *)
(***************************************************************************)

\* Simulation, step by step.
LEMMA StepIsCall == [Next]_vars => [RegistryNext]_registryVars
<1> SUFFICES ASSUME [Next]_vars PROVE [RegistryNext]_registryVars
  OBVIOUS
<1>1. ASSUME NEW s \in Sessions, SessionStep(s) PROVE [RegistryNext]_registryVars
  <2>1. Forget(s) \/ UNCHANGED registryVars
    BY <1>1 DEF SessionStep, Connect, Retire, OnDisconnect, OpenYamux, OpenYamuxFails,
         YamuxEOF, YamuxFails
  <2> QED  BY <2>1 DEF RegistryNext
<1>2. ASSUME NEW p \in Providers, ProviderStep(p) PROVE [RegistryNext]_registryVars
  <2>1. \/ SetProvider(p) \/ SetProviderFails(p) \/ RemoveProvider(p)
        \/ UNCHANGED registryVars
    BY <1>2 DEF ProviderStep, OnConnectProvider, Register, RegisterFails, ProviderLeaves,
         EvictionDone, CloseConsumer
  <2> QED  BY <2>1 DEF RegistryNext
<1>3. ASSUME NEW c \in Consumers, ConsumerStep(c) PROVE [RegistryNext]_registryVars
  <2>1. \/ AddConsumer(c) \/ AddConsumerFails(c) \/ RegisterLookup(c) \/ RegisterStore(c)
        \/ UnregisterConsumerYamux(c) \/ UNCHANGED registryVars
    BY <1>3 DEF ConsumerStep, OnConnectConsumer, OnConnectRefused, LookUp, Store,
         AcceptFails, Accept
  <2> QED  BY <2>1 DEF RegistryNext
<1>4. ASSUME NEW st \in Streams, StreamStep(st) PROVE [RegistryNext]_registryVars
  <2>1. Enroll(st) \/ EnrollFails(st) \/ Leave(st) \/ UNCHANGED registryVars
    BY <1>4 DEF StreamStep, WaitStep, ReadHeader, ReadHeaderFails, FastPath, StartWait,
         StartWaitFails, CheckDone, CheckProvider, StopWait, OpenStream, OpenStreamFails,
         FinishBridge
  <2> QED  BY <2>1 DEF RegistryNext
<1>5. CASE Idle \/ UNCHANGED vars
  BY <1>5 DEF Idle, vars
<1> QED  BY <1>1, <1>2, <1>3, <1>4, <1>5 DEF Next

\* The goroutines reach the table only through its methods, as each action of
\* Relay is written; what is proved of the methods in any order holds here.
LEMMA RelayCallsRegistry == Spec => RegistrySpec
<1>1. Init => RegistryInit
  BY DEF Init
<1> QED  BY <1>1, StepIsCall, PTL DEF Spec, RegistrySpec

\* In the running broker a waiting stream's struct never leaves the table.
THEOREM RelayWaitersSafe == Spec => []WaiterNeverOrphaned
BY RelayCallsRegistry, WaitersSafe, PTL

(***************************************************************************)
(* What each call does to the records of the names: the directory's view,  *)
(* field by field.                                                         *)
(***************************************************************************)

ProviderAt(n) == RecordAt(n).provider
ConsumersAt(n) == RecordAt(n).consumers
YamuxesAt(n) == RecordAt(n).yamuxes
WaitersAt(n) == RecordAt(n).waiters

SameProviders == \A m \in Names : ProviderAt(m)' = ProviderAt(m)
SameConsumers == \A m \in Names : ConsumersAt(m)' = ConsumersAt(m)
SameYamuxes == \A m \in Names : YamuxesAt(m)' = YamuxesAt(m)
SameWaiters == \A m \in Names : WaitersAt(m)' = WaitersAt(m)

SameRecords == SameProviders /\ SameConsumers /\ SameYamuxes /\ SameWaiters

\* A directory step that leaves the records alone leaves their fields alone.
LEMMA UnchangedRecords ==
    ASSUME UNCHANGED Records
    PROVE  SameRecords
<1>1. \A m \in Names : RecordAt(m)' = RecordAt(m)
  BY DEF Records
<1> QED  BY <1>1 DEF SameRecords, SameProviders, SameConsumers, SameYamuxes, SameWaiters,
              ProviderAt, ConsumersAt, YamuxesAt, WaitersAt

\* So does a step that leaves the table and its structs alone.
LEMMA UnchangedSame ==
    ASSUME UNCHANGED <<endpoints, heap>>
    PROVE  SameRecords
<1>1. UNCHANGED Records
  BY DEF Records, RecordAt
<1> QED  BY <1>1, UnchangedRecords

\* SetProvider finds the place free and takes it.
LEMMA SetProviderAt ==
    ASSUME TableInv, NEW p \in Providers, SetProvider(p)
    PROVE  /\ ProviderAt(EndpointOf[p]) = None
           /\ \A m \in Names : ProviderAt(m)' = IF m = EndpointOf[p] THEN p ELSE ProviderAt(m)
           /\ SameConsumers /\ SameYamuxes /\ SameWaiters
<1>1. Dir!SetProvider(p)
  BY SetProviderDir
<1>2. \A m \in Names : RecordAt(m) \in Endpoint
  BY RecordAtType
<1>3. \A m \in Names : RecordAt(m)' = IF m = EndpointOf[p]
                                 THEN [RecordAt(m) EXCEPT !.provider = p] ELSE RecordAt(m)
  BY <1>1, RegistryAssumption DEF Dir!SetProvider, Sessions
<1>4. ProviderAt(EndpointOf[p]) = None
  BY <1>1, RegistryAssumption DEF Dir!SetProvider, Sessions, ProviderAt
<1> QED  BY <1>2, <1>3, <1>4
          DEF Endpoint, SameConsumers, SameYamuxes, SameWaiters, ProviderAt, ConsumersAt,
              YamuxesAt, WaitersAt

\* RemoveProvider clears its own registration and never another's, nor any
\* other name's consumers; what it takes away it takes from its own name.
LEMMA RemoveProviderAt ==
    ASSUME TableInv, NEW p \in Providers, RemoveProvider(p)
    PROVE  /\ \A m \in Names : /\ ProviderAt(m)' = IF m = EndpointOf[p] /\ ProviderAt(m) = p
                                                   THEN None ELSE ProviderAt(m)
                               /\ ConsumersAt(m)' \subseteq ConsumersAt(m)
                               /\ YamuxesAt(m)' \subseteq YamuxesAt(m)
           /\ SameWaiters
<1>1. CASE MayRemove(p)
  <2>1. \A m \in Names : RecordAt(m) \in Endpoint
    BY RecordAtType
  <2>2. \A m \in Names : RecordAt(m)' =
             IF m = EndpointOf[p]
             THEN [RecordAt(m) EXCEPT !.provider = None, !.consumers = {}, !.yamuxes = {}]
             ELSE RecordAt(m)
    BY <1>1, RemoveProviderDir, RegistryAssumption DEF Dir!RemoveProvider, Sessions
  <2>3. ProviderAt(EndpointOf[p]) \in {None, p}
    BY <1>1, RemoveProviderDir, RegistryAssumption DEF Dir!RemoveProvider, Sessions, ProviderAt
  <2> QED  BY <2>1, <2>2, <2>3
            DEF Endpoint, SameWaiters, ProviderAt, ConsumersAt, YamuxesAt, WaitersAt
<1>2. CASE ~ MayRemove(p)
  <2>1. SameRecords
    BY <1>2, UnchangedSame DEF RemoveProvider
  <2>2. ProviderAt(EndpointOf[p]) # p
    BY <1>2, RegistryAssumption DEF MayRemove, ProviderAt, RecordAt, NewEndpoint
  <2> QED  BY <2>1, <2>2 DEF SameRecords, SameProviders, SameConsumers, SameYamuxes
<1> QED  BY <1>1, <1>2

\* Forget clears the registration of the session that ended, and no other.
LEMMA ForgetAt ==
    ASSUME TableInv, NEW s \in Sessions, Forget(s)
    PROVE  /\ \A m \in Names : /\ ProviderAt(m)' = IF m = EndpointOf[s] /\ ProviderAt(m) = s
                                                   THEN None ELSE ProviderAt(m)
                               /\ ConsumersAt(m)' = IF m = EndpointOf[s]
                                                    THEN ConsumersAt(m) \ {s} ELSE ConsumersAt(m)
           /\ SameYamuxes /\ SameWaiters
<1>1. Dir!Forget(s)
  BY ForgetDir
<1>2. \A m \in Names : RecordAt(m) \in Endpoint
  BY RecordAtType
<1>3. \A m \in Names : RecordAt(m)' = IF m = EndpointOf[s]
                                 THEN [RecordAt(m) EXCEPT !.provider = IF @ = s THEN None ELSE @,
                                                            !.consumers = @ \ {s}]
                                 ELSE RecordAt(m)
  BY <1>1, RegistryAssumption DEF Dir!Forget
<1> QED  BY <1>2, <1>3
          DEF Endpoint, SameYamuxes, SameWaiters, ProviderAt, ConsumersAt, YamuxesAt,
              WaitersAt

\* AddConsumer counts the consumer under its own name.
LEMMA AddConsumerAt ==
    ASSUME TableInv, NEW c \in Consumers, AddConsumer(c)
    PROVE  /\ \A m \in Names : ConsumersAt(m)' = IF m = EndpointOf[c]
                                                 THEN ConsumersAt(m) \cup {c} ELSE ConsumersAt(m)
           /\ SameProviders /\ SameYamuxes /\ SameWaiters
<1>1. Dir!AddConsumer(c)
  BY AddConsumerDir
<1>2. \A m \in Names : RecordAt(m) \in Endpoint
  BY RecordAtType
<1>3. \A m \in Names : RecordAt(m)' = IF m = EndpointOf[c]
                                 THEN [RecordAt(m) EXCEPT !.consumers = @ \cup {c}] ELSE RecordAt(m)
  BY <1>1, RegistryAssumption DEF Dir!AddConsumer, Sessions
<1> QED  BY <1>2, <1>3
          DEF Endpoint, SameProviders, SameYamuxes, SameWaiters, ProviderAt, ConsumersAt,
              YamuxesAt, WaitersAt

\* RegisterConsumerYamux stores under the consumer's own name, or nowhere.
LEMMA RegisterStoreAt ==
    ASSUME RegistryInv, NEW c \in Consumers, RegisterStore(c)
    PROVE  /\ \A m \in Names : \/ YamuxesAt(m)' = YamuxesAt(m)
                               \/ m = EndpointOf[c] /\ YamuxesAt(m)' = YamuxesAt(m) \cup {c}
           /\ SameProviders /\ SameConsumers /\ SameWaiters
<1>1. CASE Dir!RegisterConsumerYamux(c)
  <2>1. \A m \in Names : RecordAt(m) \in Endpoint
    BY RecordAtType DEF RegistryInv
  <2>2. \A m \in Names : RecordAt(m)' = IF m = EndpointOf[c]
                                   THEN [RecordAt(m) EXCEPT !.yamuxes = @ \cup {c}] ELSE RecordAt(m)
    BY <1>1, RegistryAssumption DEF Dir!RegisterConsumerYamux, Sessions
  <2> QED  BY <2>1, <2>2
            DEF Endpoint, SameProviders, SameConsumers, SameWaiters, ProviderAt, ConsumersAt,
                YamuxesAt, WaitersAt
<1>2. CASE UNCHANGED Records
  BY <1>2, UnchangedRecords DEF SameRecords, SameYamuxes
<1> QED  BY <1>1, <1>2, RegisterStoreDir

\* UnregisterConsumerYamux takes the consumer's yamux session off its name.
LEMMA UnregisterAt ==
    ASSUME TableInv, NEW c \in Consumers, UnregisterConsumerYamux(c)
    PROVE  /\ \A m \in Names : YamuxesAt(m)' = IF m = EndpointOf[c]
                                               THEN YamuxesAt(m) \ {c} ELSE YamuxesAt(m)
           /\ SameProviders /\ SameConsumers /\ SameWaiters
<1>1. Dir!UnregisterConsumerYamux(c)
  BY UnregisterDir
<1>2. \A m \in Names : RecordAt(m) \in Endpoint
  BY RecordAtType
<1>3. \A m \in Names : RecordAt(m)' = IF m = EndpointOf[c]
                                 THEN [RecordAt(m) EXCEPT !.yamuxes = @ \ {c}] ELSE RecordAt(m)
  BY <1>1, RegistryAssumption DEF Dir!UnregisterConsumerYamux, Sessions
<1> QED  BY <1>2, <1>3
          DEF Endpoint, SameProviders, SameConsumers, SameWaiters, ProviderAt, ConsumersAt,
              YamuxesAt, WaitersAt

\* A stream that starts to wait is counted under its own name.
LEMMA EnrollAt ==
    ASSUME TableInv, NEW st \in Streams, Enroll(st)
    PROVE  /\ \A m \in Names : WaitersAt(m)' = IF m = StreamEndpoint(st)
                                               THEN WaitersAt(m) \cup {st} ELSE WaitersAt(m)
           /\ SameProviders /\ SameConsumers /\ SameYamuxes
<1>1. Dir!Enroll(st)
  BY EnrollDir
<1>2. \A m \in Names : RecordAt(m) \in Endpoint
  BY RecordAtType
<1>3. \A m \in Names : RecordAt(m)' = IF m = StreamEndpoint(st)
                                 THEN [RecordAt(m) EXCEPT !.waiters = @ \cup {st}] ELSE RecordAt(m)
  BY <1>1, RegistryAssumption DEF Dir!Enroll, StreamEndpoint, Sessions
<1> QED  BY <1>2, <1>3
          DEF Endpoint, SameProviders, SameConsumers, SameYamuxes, ProviderAt, ConsumersAt,
              YamuxesAt, WaitersAt

\* A stream that stops waiting is no longer counted there.
LEMMA LeaveAt ==
    ASSUME RegistryInv, NEW st \in Streams, Leave(st)
    PROVE  /\ \A m \in Names : WaitersAt(m)' = IF m = StreamEndpoint(st)
                                               THEN WaitersAt(m) \ {st} ELSE WaitersAt(m)
           /\ SameProviders /\ SameConsumers /\ SameYamuxes
<1>1. Dir!Leave(st)
  BY LeaveDir
<1>2. \A m \in Names : RecordAt(m) \in Endpoint
  BY RecordAtType DEF RegistryInv
<1>3. \A m \in Names : RecordAt(m)' = IF m = StreamEndpoint(st)
                                 THEN [RecordAt(m) EXCEPT !.waiters = @ \ {st}] ELSE RecordAt(m)
  BY <1>1, RegistryAssumption DEF Dir!Leave, StreamEndpoint, Sessions
<1> QED  BY <1>2, <1>3
          DEF Endpoint, SameProviders, SameConsumers, SameYamuxes, ProviderAt, ConsumersAt,
              YamuxesAt, WaitersAt

(***************************************************************************)
(* Who serves and who is registered.  Either could be the weaker half on   *)
(* its own: a provider that has left must not be found registered, or its  *)
(* departure would be the last chance to clear it; and one that serves     *)
(* must be, or its place could be taken.                                   *)
(***************************************************************************)

ControlOK == /\ pc \in [Sessions \cup Streams -> SessionPc \cup StreamPc]
             /\ session \in [Sessions -> SessionState]

\* Both properties, in terms of ProviderAt.
Serving == \A p \in Providers :
    pc[p] = "serving" /\ session[p] # "gone" => ProviderAt(EndpointOf[p]) = p

Placed == \A n \in Names : \A p \in Providers :
    ProviderAt(n) = p => EndpointOf[p] = n /\ pc[p] = "serving"

ServingInv == RegistryInv /\ ControlOK /\ Serving /\ Placed

\* No goroutine starts or stops serving, and no ended session revives.
SameServing == \A p \in Providers :
    /\ pc'[p] = "serving" <=> pc[p] = "serving"
    /\ session[p] = "gone" => session'[p] = "gone"

\* A step that changes no provider, serving goroutine or ended session is safe.
LEMMA NeutralStep ==
    ASSUME ServingInv, RegistryInv', ControlOK', SameProviders, SameServing
    PROVE  ServingInv'
<1>1. \A p \in Providers : EndpointOf[p] \in Names
  BY RegistryAssumption DEF Sessions
<1>2. Serving'
  BY <1>1 DEF ServingInv, Serving, SameProviders, SameServing
<1>3. Placed'
  BY DEF ServingInv, Placed, SameProviders, SameServing
<1> QED  BY <1>2, <1>3 DEF ServingInv

\* Nobody serves and nobody is registered at first.
LEMMA ServingInit == Init => ServingInv
<1> SUFFICES ASSUME Init PROVE ServingInv
  OBVIOUS
<1>1. RegistryInv
  BY RegistryInitInv DEF Init
<1>2. ControlOK
  BY DEF Init, ControlOK, SessionPc, StreamPc, SessionState
<1>3. Serving
  BY RegistryAssumption DEF Init, Serving, Sessions
<1>4. Placed
  BY RegistryAssumption DEF Init, RegistryInit, Placed, ProviderAt, RecordAt,
       NewEndpoint
<1> QED  BY <1>1, <1>2, <1>3, <1>4 DEF ServingInv

\* A provider starts to serve in the step that registers it.
LEMMA RegisterServing ==
    ASSUME ServingInv, RegistryInv', NEW p \in Providers, Register(p)
    PROVE  ServingInv'
<1>1. /\ ControlOK' /\ pc[p] = "created" /\ pc'[p] = "serving"
      /\ \A q \in Providers : q # p => pc'[q] = pc[q]
      /\ session' = session
  BY DEF Register, Step, Go, ServingInv, ControlOK, SessionPc, StreamPc, Sessions
<1>2. \A m \in Names : IF m = EndpointOf[p]
                       THEN ProviderAt(m) = None /\ ProviderAt(m)' = p
                       ELSE ProviderAt(m)' = ProviderAt(m)
  BY SetProviderAt DEF Register, ServingInv, RegistryInv
<1>3. \A q \in Providers : EndpointOf[q] \in Names /\ q # None
  BY RegistryAssumption DEF Sessions
<1>4. Serving'
  BY <1>1, <1>2, <1>3 DEF ServingInv, Serving
<1>5. Placed'
  BY <1>1, <1>2, <1>3 DEF ServingInv, Placed
<1> QED  BY <1>1, <1>4, <1>5 DEF ServingInv

\* A provider stops serving in the step that removes it: itself and no other.
LEMMA LeavesServing ==
    ASSUME ServingInv, RegistryInv', NEW p \in Providers, ProviderLeaves(p)
    PROVE  ServingInv'
<1>1. /\ ControlOK' /\ pc'[p] = "evicting"
      /\ \A q \in Providers : q # p => pc'[q] = pc[q]
      /\ session' = session
  BY DEF ProviderLeaves, Step, Go, ServingInv, ControlOK, SessionPc, StreamPc, Sessions
<1>2. \A m \in Names : ProviderAt(m)' = IF m = EndpointOf[p] /\ ProviderAt(m) = p
                                        THEN None ELSE ProviderAt(m)
  BY RemoveProviderAt DEF ProviderLeaves, ServingInv, RegistryInv
<1>3. \A q \in Providers : EndpointOf[q] \in Names /\ q # None
  BY RegistryAssumption DEF Sessions
<1>4. Serving'
  BY <1>1, <1>2, <1>3 DEF ServingInv, Serving
<1>5. Placed'
  BY <1>1, <1>2, <1>3 DEF ServingInv, Placed
<1> QED  BY <1>1, <1>4, <1>5 DEF ServingInv

\* A session that ends is forgotten, and no other.
LEMMA DisconnectServing ==
    ASSUME ServingInv, RegistryInv', NEW s \in Sessions, OnDisconnect(s)
    PROVE  ServingInv'
<1>1. /\ ControlOK' /\ session'[s] = "gone" /\ pc' = pc
      /\ \A q \in Providers : q # s => session'[q] = session[q]
  BY DEF OnDisconnect, ServingInv, ControlOK, SessionState, Sessions
<1>2. \A m \in Names : ProviderAt(m)' = IF m = EndpointOf[s] /\ ProviderAt(m) = s
                                        THEN None ELSE ProviderAt(m)
  BY ForgetAt DEF OnDisconnect, ServingInv, RegistryInv
<1>3. \A q \in Providers : EndpointOf[q] \in Names /\ q # None
  BY RegistryAssumption DEF Sessions
<1>4. Serving'
  BY <1>1, <1>2, <1>3 DEF ServingInv, Serving
<1>5. Placed'
  BY <1>1, <1>2, <1>3 DEF ServingInv, Placed
<1> QED  BY <1>1, <1>4, <1>5 DEF ServingInv

\* The other steps of sessions, providers, consumers and streams are neutral.
LEMMA SessionServing ==
    ASSUME ServingInv, RegistryInv', NEW s \in Sessions, SessionStep(s)
    PROVE  ServingInv'
<1>1. CASE OnDisconnect(s)
  BY <1>1, DisconnectServing
<1>2. CASE Connect(s) \/ OpenYamux(s) \/ OpenYamuxFails(s)
  <2>1. ControlOK' /\ SameServing
    BY <1>2 DEF Connect, OpenYamux, OpenYamuxFails, Step, Go, ServingInv, ControlOK,
         SessionPc, StreamPc, SessionState, SameServing, Sessions
  <2>2. SameProviders
    BY <1>2, UnchangedSame DEF SameRecords, registryVars, Connect, OpenYamux, OpenYamuxFails
  <2> QED  BY <2>1, <2>2, NeutralStep
<1>3. CASE Retire(s) \/ YamuxEOF(s) \/ YamuxFails(s)
  <2>1. ControlOK' /\ SameServing
    BY <1>3 DEF Retire, YamuxEOF, YamuxFails, CloseYamux, ServingInv, ControlOK,
         SessionState, SameServing, Sessions
  <2>2. SameProviders
    BY <1>3, UnchangedSame DEF SameRecords, registryVars, Retire, YamuxEOF, YamuxFails
  <2> QED  BY <2>1, <2>2, NeutralStep
<1> QED  BY <1>1, <1>2, <1>3 DEF SessionStep

\* The steps of a provider's goroutine preserve the invariant.
LEMMA ProviderServing ==
    ASSUME ServingInv, RegistryInv', NEW p \in Providers, ProviderStep(p)
    PROVE  ServingInv'
<1>1. CASE Register(p)
  BY <1>1, RegisterServing
<1>2. CASE ProviderLeaves(p)
  BY <1>2, LeavesServing
<1>3. CASE OnConnectProvider(p) \/ EvictionDone(p)
  <2>1. ControlOK' /\ SameServing
    BY <1>3 DEF OnConnectProvider, EvictionDone, Step, Go, ServingInv, ControlOK,
         SessionPc, StreamPc, SameServing, Sessions
  <2>2. SameProviders
    BY <1>3, UnchangedSame DEF SameRecords, registryVars, OnConnectProvider, EvictionDone
  <2> QED  BY <2>1, <2>2, NeutralStep
<1>4. CASE RegisterFails(p)
  <2>1. ControlOK' /\ SameServing
    BY <1>4 DEF RegisterFails, CloseYamux, Step, Go, ServingInv, ControlOK,
         SessionPc, StreamPc, SessionState, SameServing, Sessions
  <2>2. SameProviders
    BY <1>4, UnchangedSame DEF SameRecords, registryVars, RegisterFails, SetProviderFails
  <2> QED  BY <2>1, <2>2, NeutralStep
<1>5. ASSUME NEW c \in Consumers, CloseConsumer(p, c) PROVE ServingInv'
  <2>1. ControlOK' /\ SameServing
    BY <1>5 DEF CloseConsumer, CloseYamux, ServingInv, ControlOK, SessionState,
         SameServing, Sessions
  <2>2. SameProviders
    BY <1>5, UnchangedSame DEF SameRecords, registryVars, CloseConsumer
  <2> QED  BY <2>1, <2>2, NeutralStep
<1> QED  BY <1>1, <1>2, <1>3, <1>4, <1>5 DEF ProviderStep

\* The steps of a consumer's goroutine are neutral.
LEMMA ConsumerServing ==
    ASSUME ServingInv, RegistryInv', NEW c \in Consumers, ConsumerStep(c)
    PROVE  ServingInv'
<1> USE RegistryAssumption
<1>1. CASE OnConnectConsumer(c) \/ LookUp(c) \/ Store(c) \/ AcceptFails(c)
  <2>1. ControlOK' /\ SameServing
    BY <1>1 DEF OnConnectConsumer, LookUp, Store, AcceptFails, Step, Go, ServingInv, ControlOK,
         SessionPc, StreamPc, SameServing, Sessions
  <2>2. SameProviders
    BY <1>1, AddConsumerAt, RegisterStoreAt, UnregisterAt, UnchangedSame
       DEF OnConnectConsumer, LookUp, RegisterLookup, Store, AcceptFails, ServingInv,
           RegistryInv, SameRecords
  <2> QED  BY <2>1, <2>2, NeutralStep
<1>2. CASE OnConnectRefused(c)
  <2>1. ControlOK' /\ SameServing
    BY <1>2 DEF OnConnectRefused, Step, Go, ServingInv, ControlOK, SessionPc, StreamPc,
         SessionState, SameServing, Sessions
  <2>2. SameProviders
    BY <1>2, UnchangedSame DEF SameRecords, registryVars, OnConnectRefused, AddConsumerFails
  <2> QED  BY <2>1, <2>2, NeutralStep
<1>3. ASSUME NEW st \in Streams, Accept(c, st) PROVE ServingInv'
  <2>1. ControlOK' /\ SameServing
    BY <1>3 DEF Accept, Step, Go, ServingInv, ControlOK, SessionPc, StreamPc, SameServing, Sessions
  <2>2. SameProviders
    BY <1>3, UnchangedSame DEF SameRecords, registryVars, Accept
  <2> QED  BY <2>1, <2>2, NeutralStep
<1> QED  BY <1>1, <1>2, <1>3 DEF ConsumerStep

\* The steps of a stream's goroutine are neutral.
LEMMA StreamServing ==
    ASSUME ServingInv, RegistryInv', NEW st \in Streams, StreamStep(st)
    PROVE  ServingInv'
<1>1. ControlOK' /\ SameServing
  BY RegistryAssumption
     DEF StreamStep, WaitStep, ReadHeader, ReadHeaderFails, FastPath, StartWait,
         StartWaitFails, CheckDone, CheckProvider, StopWait, OpenStream, OpenStreamFails,
         FinishBridge, Step, Go, ServingInv, ControlOK, SessionPc, StreamPc, SameServing, Sessions
<1>2. Enroll(st) \/ Leave(st) \/ UNCHANGED registryVars
  BY DEF StreamStep, WaitStep, ReadHeader, ReadHeaderFails, FastPath, StartWait,
         StartWaitFails, CheckDone, CheckProvider, StopWait, OpenStream, OpenStreamFails,
         FinishBridge, EnrollFails
<1>3. SameProviders
  BY <1>2, EnrollAt, LeaveAt, UnchangedSame DEF ServingInv, RegistryInv, registryVars, SameRecords
<1> QED  BY <1>1, <1>3, NeutralStep

\* Every step preserves the invariant.
LEMMA ServingStep == ServingInv /\ [Next]_vars => ServingInv'
<1> SUFFICES ASSUME ServingInv, [Next]_vars PROVE ServingInv'
  OBVIOUS
<1>1. RegistryInv'
  BY StepIsCall, RegistryNextInv DEF ServingInv
<1>2. CASE Idle \/ UNCHANGED vars
  <2>1. SameProviders /\ ControlOK' /\ SameServing
    BY <1>2, UnchangedSame DEF SameRecords, registryVars, Idle, vars, relayVars, ServingInv, ControlOK, SameServing
  <2> QED  BY <1>1, <2>1, NeutralStep
<1> QED
  BY <1>1, <1>2, SessionServing, ProviderServing, ConsumerServing, StreamServing DEF Next

-----------------------------------------------------------------------------

\* The inductive invariant of the relay holds in every reachable state.
THEOREM ServingInvariant == Spec => []ServingInv
BY ServingInit, ServingStep, PTL DEF Spec

\* A serving provider whose session has not ended is the registered one: no
\* rejected duplicate and no late cleanup evicts it.
LEMMA ServingIsRegisteredInv == ServingInv => ServingIsRegistered
BY RegistryAssumption DEF ServingInv, Serving, ServingIsRegistered, Registered, ProviderAt,
     RecordAt, NewEndpoint, Sessions

\* That holds in every reachable state.
THEOREM ServingRegistered == Spec => []ServingIsRegistered
BY ServingInvariant, ServingIsRegisteredInv, PTL

\* The registered provider is still serving: its departure will clear it.
LEMMA RegisteredIsServingInv == ServingInv => RegisteredIsServing
BY DEF ServingInv, Placed, RegisteredIsServing, ProviderAt, RecordAt

\* That holds in every reachable state.
THEOREM RegisteredServes == Spec => []RegisteredIsServing
BY ServingInvariant, RegisteredIsServingInv, PTL

(***************************************************************************)
(* Types, and the local variables of goroutines.                           *)
(***************************************************************************)

Typed == RegistryInv /\ TypeOK

\* Typing: the steps of a session.
LEMMA SessionType ==
    ASSUME Typed, RegistryTypeOK', NEW s \in Sessions, SessionStep(s)
    PROVE  TypeOK'
<1> USE RegistryAssumption
<1>1. ref' = ref
  BY DEF SessionStep, Connect, Retire, OnDisconnect, OpenYamux, OpenYamuxFails,
       YamuxEOF, YamuxFails, Forget, registryVars
<1>2. CASE Connect(s) \/ OpenYamux(s) \/ OpenYamuxFails(s)
  BY <1>1, <1>2 DEF Connect, OpenYamux, OpenYamuxFails, Step, Go, Typed, TypeOK, SessionPc,
       StreamPc, SessionState, YamuxState, Sessions
<1>3. CASE Retire(s) \/ YamuxEOF(s) \/ YamuxFails(s) \/ OnDisconnect(s)
  BY <1>1, <1>3 DEF Retire, YamuxEOF, YamuxFails, OnDisconnect, CloseYamux, Typed, TypeOK,
       SessionState, YamuxState
<1> QED  BY <1>2, <1>3 DEF SessionStep

\* Typing: the steps of a provider's goroutine.
LEMMA ProviderType ==
    ASSUME Typed, RegistryTypeOK', NEW p \in Providers, ProviderStep(p)
    PROVE  TypeOK'
<1> USE RegistryAssumption
<1>1. ref' = ref
  BY DEF ProviderStep, OnConnectProvider, Register, RegisterFails, ProviderLeaves,
       EvictionDone, CloseConsumer, SetProvider, SetProviderFails, RemoveProvider, registryVars
<1>2. CASE OnConnectProvider(p) \/ Register(p) \/ EvictionDone(p)
  BY <1>1, <1>2 DEF OnConnectProvider, Register, EvictionDone, Step, Go, Typed, TypeOK,
       SessionPc, StreamPc, Sessions
<1>3. CASE RegisterFails(p)
  BY <1>1, <1>3 DEF RegisterFails, CloseYamux, Step, Go, Typed, TypeOK,
       SessionPc, StreamPc, SessionState, YamuxState, Sessions
<1>4. CASE ProviderLeaves(p)
  <2>1. SessionsToClose(p) \in SUBSET Consumers
    BY DEF SessionsToClose, MayRemove, Typed, TypeOK, RegistryTypeOK, Endpoint, Sessions
  <2> QED  BY <1>1, <1>4, <2>1 DEF ProviderLeaves, Step, Go, Typed, TypeOK,
       SessionPc, StreamPc, Sessions
<1>5. ASSUME NEW c \in Consumers, CloseConsumer(p, c) PROVE TypeOK'
  BY <1>1, <1>5 DEF CloseConsumer, CloseYamux, Typed, TypeOK, SessionState, YamuxState, Sessions
<1> QED  BY <1>2, <1>3, <1>4, <1>5 DEF ProviderStep

\* Typing: the steps of a consumer's goroutine.
LEMMA ConsumerType ==
    ASSUME Typed, RegistryTypeOK', NEW c \in Consumers, ConsumerStep(c)
    PROVE  TypeOK'
<1> USE RegistryAssumption
<1>1. CASE OnConnectConsumer(c) \/ AcceptFails(c)
  BY <1>1 DEF OnConnectConsumer, AcceptFails, AddConsumer, UnregisterConsumerYamux, Step, Go,
       Typed, TypeOK, SessionPc, StreamPc, Sessions
<1>2. CASE OnConnectRefused(c)
  BY <1>2 DEF OnConnectRefused, AddConsumerFails, registryVars, Step, Go,
       Typed, TypeOK, SessionPc, StreamPc, SessionState, Sessions
<1>3. CASE LookUp(c)
  BY <1>3 DEF LookUp, RegisterLookup, Step, Go, Typed, TypeOK, RegistryTypeOK, SessionPc,
       StreamPc, Sessions, Holders
<1>4. CASE Store(c)
  BY <1>4 DEF Store, RegisterStore, Step, Go, Typed, TypeOK, RegistryTypeOK, SessionPc,
       StreamPc, Sessions, Holders
<1>5. ASSUME NEW st \in Streams, Accept(c, st) PROVE TypeOK'
  BY <1>5 DEF Accept, registryVars, Step, Go, Typed, TypeOK, SessionPc, StreamPc, Sessions
<1> QED  BY <1>1, <1>2, <1>3, <1>4, <1>5 DEF ConsumerStep

\* Typing: the steps of a stream's goroutine.
LEMMA StreamType ==
    ASSUME Typed, RegistryTypeOK', NEW st \in Streams, StreamStep(st)
    PROVE  TypeOK'
<1> USE RegistryAssumption
<1>1. CASE \/ ReadHeader(st) \/ ReadHeaderFails(st) \/ CheckDone(st)
           \/ OpenStream(st) \/ OpenStreamFails(st) \/ FinishBridge(st)
  BY <1>1 DEF ReadHeader, ReadHeaderFails, CheckDone, OpenStream, OpenStreamFails, FinishBridge,
       registryVars, Step, Go, Typed, TypeOK, SessionPc, StreamPc, Sessions
<1>2. CASE FastPath(st)
  <2>1. ProviderOf(st) \in Providers \cup {None}
    BY DEF ProviderOf, StreamEndpoint, Typed, TypeOK, RegistryTypeOK, Endpoint, Sessions
  <2> QED  BY <1>2, <2>1 DEF FastPath, registryVars, Step, Go, Typed, TypeOK, SessionPc,
       StreamPc, Sessions
<1>3. CASE CheckProvider(st)
  <2>1. heap[ref[st]].provider \in Providers \cup {None}
    BY <1>3 DEF CheckProvider, Step, Typed, TypeOK, RegistryTypeOK, Endpoint, Holders
  <2> QED  BY <1>3, <2>1 DEF CheckProvider, registryVars, Step, Go, Typed, TypeOK, SessionPc,
       StreamPc, Sessions
<1>4. CASE StartWait(st)
  BY <1>4 DEF StartWait, Enroll, Step, Go, Typed, TypeOK, RegistryTypeOK, SessionPc,
       StreamPc, Sessions, Holders
<1>5. CASE StartWaitFails(st)
  BY <1>5 DEF StartWaitFails, EnrollFails, registryVars, Step, Go, Typed, TypeOK, SessionPc,
       StreamPc, Sessions
<1>6. CASE StopWait(st)
  BY <1>6 DEF StopWait, Leave, Step, Go, Typed, TypeOK, RegistryTypeOK, SessionPc,
       StreamPc, Sessions, Holders
<1> QED  BY <1>1, <1>2, <1>3, <1>4, <1>5, <1>6 DEF StreamStep, WaitStep

\* Typing: the initial state.
LEMMA TypedInit == Init => Typed
<1> SUFFICES ASSUME Init PROVE Typed
  OBVIOUS
<1>1. RegistryInv
  BY RegistryInitInv DEF Init
<1>2. RegistryTypeOK
  BY <1>1 DEF RegistryInv, TableInv
<1> QED  BY <1>1, <1>2, RegistryAssumption DEF Typed, TypeOK, Init, RegistryInit, SessionPc,
       StreamPc, SessionState, YamuxState, Sessions, Holders

\* Typing: every step.
LEMMA TypedStep == Typed /\ [Next]_vars => Typed'
<1> SUFFICES ASSUME Typed, [Next]_vars PROVE Typed'
  OBVIOUS
<1>1. RegistryInv' /\ RegistryTypeOK'
  BY StepIsCall, RegistryNextInv DEF Typed, RegistryInv, TableInv
<1>2. CASE Idle \/ UNCHANGED vars
  BY <1>1, <1>2 DEF Idle, vars, registryVars, relayVars, Typed, TypeOK
<1>3. TypeOK'
  BY <1>1, <1>2, SessionType, ProviderType, ConsumerType, StreamType DEF Next, Typed
<1> QED  BY <1>1, <1>3 DEF Typed

\* Every variable keeps its type; no goroutine leaves its pointer into the
\* table or its list of sessions to close behind.
THEOREM RelayType == Spec => []TypeOK
<1>1. Typed => TypeOK
  BY DEF Typed
<1> QED  BY <1>1, TypedInit, TypedStep, PTL DEF Spec

(***************************************************************************)
(* Nothing is left behind.  Every use of a name in the table belongs to a  *)
(* goroutine or a session that is still to undo it: a consumer is counted  *)
(* only while OnDisconnect is to come, a yamux session is kept only while  *)
(* its accept loop runs, a waiter only while it holds its pointer.         *)
(***************************************************************************)

Known == {"open", "closed", "retired"}

Connecting == \A s \in Sessions : pc[s] = "connecting" => session[s] \in {"open", "closed"}

Counted == \A n \in Names : \A c \in ConsumersAt(n) : EndpointOf[c] = n /\ session[c] \in Known

Attached == \A n \in Names : \A c \in YamuxesAt(n) : EndpointOf[c] = n /\ pc[c] = "accepting"

Waiting == \A n \in Names : \A st \in WaitersAt(n) : StreamEndpoint(st) = n /\ ref[st] # None

Tidy == Connecting /\ Counted /\ Attached /\ Waiting

TidyInv == RegistryInv /\ TypeOK /\ Tidy

\* The fields of a record have only consumers and streams in them.
LEMMA FieldTypes ==
    ASSUME TableInv, NEW n \in Names
    PROVE  ConsumersAt(n) \subseteq Consumers /\ YamuxesAt(n) \subseteq Consumers
           /\ WaitersAt(n) \subseteq Streams
BY RecordAtType DEF Endpoint, ConsumersAt, YamuxesAt, WaitersAt

\* No session that is known ends, no accept loop and no wait.
SameUsers ==
    /\ \A c \in Consumers : session[c] \in Known => session'[c] \in Known
    /\ \A c \in Consumers : pc[c] = "accepting" => pc'[c] = "accepting"
    /\ \A st \in Streams : ref[st] # None => ref'[st] # None

\* A step that adds nothing to a record and ends no use of one is safe.
LEMMA NeutralTidy ==
    ASSUME TidyInv, Connecting', SameUsers,
           \A n \in Names : /\ ConsumersAt(n)' \subseteq ConsumersAt(n)
                            /\ YamuxesAt(n)' \subseteq YamuxesAt(n)
                            /\ WaitersAt(n)' \subseteq WaitersAt(n)
    PROVE  Tidy'
<1>1. \A n \in Names : /\ ConsumersAt(n) \subseteq Consumers
                       /\ YamuxesAt(n) \subseteq Consumers
                       /\ WaitersAt(n) \subseteq Streams
  BY FieldTypes DEF TidyInv, RegistryInv
<1>2. Counted'
  BY <1>1 DEF TidyInv, Tidy, Counted, SameUsers
<1>3. Attached'
  BY <1>1 DEF TidyInv, Tidy, Attached, SameUsers
<1>4. Waiting'
  BY <1>1 DEF TidyInv, Tidy, Waiting, SameUsers, StreamEndpoint
<1> QED  BY <1>2, <1>3, <1>4 DEF Tidy

\* So is one that leaves the table alone.
LEMMA UnchangedTidy ==
    ASSUME TidyInv, Connecting', SameUsers, UNCHANGED <<endpoints, heap>>
    PROVE  Tidy'
BY UnchangedSame, NeutralTidy DEF SameRecords, SameConsumers, SameYamuxes, SameWaiters

\* A session that ends is no longer counted: onConnect had counted it under
\* the name under which OnDisconnect looks for it.
LEMMA DisconnectTidy ==
    ASSUME TidyInv, NEW s \in Sessions, OnDisconnect(s)
    PROVE  Tidy'
<1> USE DEF TidyInv, Tidy
<1>1. /\ \A m \in Names : ConsumersAt(m)' = IF m = EndpointOf[s]
                                            THEN ConsumersAt(m) \ {s} ELSE ConsumersAt(m)
      /\ SameYamuxes /\ SameWaiters
  BY ForgetAt DEF OnDisconnect, RegistryInv
<1>2. /\ session[s] = "retired" /\ pc' = pc /\ ref' = ref
      /\ \A x \in Sessions : x # s => session'[x] = session[x]
  BY DEF OnDisconnect, Forget, TypeOK
<1>3. Connecting'
  BY <1>2 DEF Connecting
<1>4. Counted'
  <2> SUFFICES ASSUME NEW n \in Names, NEW c \in ConsumersAt(n)'
               PROVE  EndpointOf[c] = n /\ session'[c] \in Known
    BY DEF Counted
  <2>1. c \in ConsumersAt(n) /\ c # s
    BY <1>1 DEF Counted
  <2>2. c \in Sessions
    BY <2>1, FieldTypes DEF RegistryInv, Sessions
  <2> QED  BY <1>2, <2>1, <2>2 DEF Counted
<1>5. Attached' /\ Waiting'
  BY <1>1, <1>2 DEF Attached, Waiting, SameYamuxes, SameWaiters, StreamEndpoint
<1> QED  BY <1>3, <1>4, <1>5

\* The steps of a session.
LEMMA SessionTidy ==
    ASSUME TidyInv, NEW s \in Sessions, SessionStep(s)
    PROVE  Tidy'
<1> USE RegistryAssumption
<1>1. CASE OnDisconnect(s)
  BY <1>1, DisconnectTidy
<1>2. CASE Connect(s) \/ OpenYamux(s) \/ OpenYamuxFails(s)
  <2>1. Connecting' /\ SameUsers
    BY <1>2 DEF Connect, OpenYamux, OpenYamuxFails, Step, Go, registryVars, TidyInv, Tidy,
         TypeOK, Connecting, SameUsers, Known, SessionState, Sessions
  <2> QED  BY <1>2, <2>1, UnchangedTidy DEF Connect, OpenYamux, OpenYamuxFails, registryVars
<1>3. CASE Retire(s) \/ YamuxEOF(s) \/ YamuxFails(s)
  <2>1. Connecting' /\ SameUsers
    BY <1>3 DEF Retire, YamuxEOF, YamuxFails, CloseYamux, registryVars, TidyInv, Tidy,
         TypeOK, Connecting, SameUsers, Known, SessionState, Sessions
  <2> QED  BY <1>3, <2>1, UnchangedTidy DEF Retire, YamuxEOF, YamuxFails, registryVars
<1> QED  BY <1>1, <1>2, <1>3 DEF SessionStep

\* The steps of a provider's goroutine.
LEMMA ProviderTidy ==
    ASSUME TidyInv, NEW p \in Providers, ProviderStep(p)
    PROVE  Tidy'
<1> USE RegistryAssumption
<1>1. CASE OnConnectProvider(p) \/ Register(p) \/ ProviderLeaves(p) \/ EvictionDone(p)
  <2>1. Connecting' /\ SameUsers
    BY <1>1 DEF OnConnectProvider, Register, ProviderLeaves, EvictionDone, SetProvider,
         RemoveProvider, Step, Go, registryVars, TidyInv, Tidy, TypeOK, Connecting, SameUsers,
         Sessions
  <2>2. CASE OnConnectProvider(p) \/ EvictionDone(p)
    BY <2>1, <2>2, UnchangedTidy DEF OnConnectProvider, EvictionDone, registryVars
  <2>3. CASE Register(p)
    BY <2>1, <2>3, SetProviderAt, NeutralTidy
       DEF Register, TidyInv, RegistryInv, SameConsumers, SameYamuxes, SameWaiters
  <2>4. CASE ProviderLeaves(p)
    BY <2>1, <2>4, RemoveProviderAt, NeutralTidy
       DEF ProviderLeaves, TidyInv, RegistryInv, SameWaiters
  <2> QED  BY <1>1, <2>2, <2>3, <2>4
<1>2. CASE RegisterFails(p)
  <2>1. Connecting' /\ SameUsers
    BY <1>2 DEF RegisterFails, SetProviderFails, CloseYamux, Step, Go, registryVars, TidyInv,
         Tidy, TypeOK, Connecting, SameUsers, Known, SessionState, Sessions
  <2> QED  BY <1>2, <2>1, UnchangedTidy DEF RegisterFails, SetProviderFails, registryVars
<1>3. ASSUME NEW c \in Consumers, CloseConsumer(p, c) PROVE Tidy'
  <2>1. Connecting' /\ SameUsers
    BY <1>3 DEF CloseConsumer, CloseYamux, registryVars, TidyInv, Tidy, TypeOK, Connecting,
         SameUsers, Known, SessionState, Sessions
  <2> QED  BY <1>3, <2>1, UnchangedTidy DEF CloseConsumer, registryVars
<1> QED  BY <1>1, <1>2, <1>3 DEF ProviderStep

\* onConnect counts a consumer whose session's end is still to come.
LEMMA ConnectConsumerTidy ==
    ASSUME TidyInv, NEW c \in Consumers, OnConnectConsumer(c)
    PROVE  Tidy'
<1> USE RegistryAssumption DEF TidyInv, Tidy
<1>1. /\ \A m \in Names : ConsumersAt(m)' = IF m = EndpointOf[c]
                                            THEN ConsumersAt(m) \cup {c} ELSE ConsumersAt(m)
      /\ SameYamuxes /\ SameWaiters
  BY AddConsumerAt DEF OnConnectConsumer, RegistryInv
<1>2. /\ pc[c] = "connecting" /\ pc'[c] = "starting" /\ session' = session /\ ref' = ref
      /\ \A x \in Sessions : x # c => pc'[x] = pc[x]
  BY DEF OnConnectConsumer, AddConsumer, Step, Go, TypeOK, Sessions
<1>3. Connecting'
  BY <1>2 DEF Connecting, Sessions
<1>4. session[c] \in Known
  BY <1>2 DEF Connecting, Known, Sessions
<1>5. Counted'
  BY <1>1, <1>2, <1>4 DEF Counted
<1>6. Attached'
  <2> SUFFICES ASSUME NEW n \in Names, NEW d \in YamuxesAt(n)'
               PROVE  EndpointOf[d] = n /\ pc'[d] = "accepting"
    BY DEF Attached
  <2>1. d \in YamuxesAt(n) /\ d \in Consumers
    BY <1>1, FieldTypes DEF SameYamuxes, RegistryInv
  <2> QED  BY <1>2, <2>1 DEF Attached, Sessions
<1>7. Waiting'
  BY <1>1, <1>2 DEF Waiting, SameWaiters, StreamEndpoint
<1> QED  BY <1>3, <1>5, <1>6, <1>7

\* A consumer whose name has no place in the table is not counted anywhere,
\* so its session may be dropped without OnDisconnect.
LEMMA RefusedTidy ==
    ASSUME TidyInv, NEW c \in Consumers, OnConnectRefused(c)
    PROVE  Tidy'
<1> USE RegistryAssumption DEF TidyInv, Tidy
<1>1. SameConsumers /\ SameYamuxes /\ SameWaiters
  BY UnchangedSame DEF OnConnectRefused, AddConsumerFails, registryVars, SameRecords
<1>2. /\ pc[c] = "connecting" /\ pc'[c] = "done" /\ ref' = ref
      /\ \A x \in Sessions : x # c => pc'[x] = pc[x] /\ session'[x] = session[x]
  BY DEF OnConnectRefused, AddConsumerFails, registryVars, Step, Go, TypeOK, Sessions
<1>3. \A n \in Names : c \notin ConsumersAt(n)
  <2>1. ConsumersAt(EndpointOf[c]) = {}
    BY DEF OnConnectRefused, AddConsumerFails, CreateFails, ConsumersAt, RecordAt, NewEndpoint
  <2> QED  BY <2>1 DEF Counted
<1>4. Connecting'
  BY <1>2 DEF Connecting, Sessions
<1>5. \A n \in Names : ConsumersAt(n) \subseteq Sessions /\ YamuxesAt(n) \subseteq Sessions
  BY FieldTypes DEF RegistryInv, Sessions
<1>6. Counted'
  BY <1>1, <1>2, <1>3, <1>5 DEF Counted, SameConsumers
<1>7. Attached'
  BY <1>1, <1>2, <1>5 DEF Attached, SameYamuxes
<1>8. Waiting'
  BY <1>1, <1>2 DEF Waiting, SameWaiters, StreamEndpoint
<1> QED  BY <1>4, <1>6, <1>7, <1>8

\* The yamux session is stored in the step in which the accept loop starts.
LEMMA StoreTidy ==
    ASSUME TidyInv, NEW c \in Consumers, Store(c)
    PROVE  Tidy'
<1> USE RegistryAssumption DEF TidyInv, Tidy
<1>1. /\ \A m \in Names : \/ YamuxesAt(m)' = YamuxesAt(m)
                          \/ m = EndpointOf[c] /\ YamuxesAt(m)' = YamuxesAt(m) \cup {c}
      /\ SameConsumers /\ SameWaiters
  BY RegisterStoreAt DEF Store
<1>2. /\ pc'[c] = "accepting" /\ session' = session
      /\ \A x \in Sessions : x # c => pc'[x] = pc[x]
      /\ \A st \in Streams : ref'[st] = ref[st]
  BY DEF Store, RegisterStore, Step, Go, TypeOK, RegistryTypeOK, Sessions, Holders
<1>3. \A n \in Names : YamuxesAt(n) \subseteq Sessions /\ WaitersAt(n) \subseteq Streams
  BY FieldTypes DEF RegistryInv, Sessions
<1>4. Connecting'
  BY <1>2 DEF Connecting
<1>5. Counted'
  BY <1>1, <1>2 DEF Counted, SameConsumers
<1>6. Attached'
  BY <1>1, <1>2, <1>3 DEF Attached
<1>7. Waiting'
  BY <1>1, <1>2, <1>3 DEF Waiting, SameWaiters, StreamEndpoint
<1> QED  BY <1>4, <1>5, <1>6, <1>7

\* It is taken out in the step in which the accept loop ends.
LEMMA AcceptFailsTidy ==
    ASSUME TidyInv, NEW c \in Consumers, AcceptFails(c)
    PROVE  Tidy'
<1> USE RegistryAssumption DEF TidyInv, Tidy
<1>1. /\ \A m \in Names : YamuxesAt(m)' = IF m = EndpointOf[c]
                                          THEN YamuxesAt(m) \ {c} ELSE YamuxesAt(m)
      /\ SameConsumers /\ SameWaiters
  BY UnregisterAt DEF AcceptFails, RegistryInv
<1>2. /\ pc'[c] = "done" /\ session' = session /\ ref' = ref
      /\ \A x \in Sessions : x # c => pc'[x] = pc[x]
  BY DEF AcceptFails, UnregisterConsumerYamux, Step, Go, TypeOK, Sessions
<1>3. Connecting'
  BY <1>2 DEF Connecting
<1>4. Counted'
  BY <1>1, <1>2 DEF Counted, SameConsumers
<1>5. Attached'
  <2> SUFFICES ASSUME NEW n \in Names, NEW d \in YamuxesAt(n)'
               PROVE  EndpointOf[d] = n /\ pc'[d] = "accepting"
    BY DEF Attached
  <2>1. d \in YamuxesAt(n) /\ d # c /\ d \in Sessions
    BY <1>1, FieldTypes DEF Attached, RegistryInv, Sessions
  <2> QED  BY <1>2, <2>1 DEF Attached
<1>6. Waiting'
  BY <1>1, <1>2 DEF Waiting, SameWaiters, StreamEndpoint
<1> QED  BY <1>3, <1>4, <1>5, <1>6

\* The steps of a consumer's goroutine.
LEMMA ConsumerTidy ==
    ASSUME TidyInv, NEW c \in Consumers, ConsumerStep(c)
    PROVE  Tidy'
<1> USE RegistryAssumption
<1>1. CASE LookUp(c)
  <2>1. Connecting' /\ SameUsers
    BY <1>1 DEF LookUp, RegisterLookup, Step, Go, TidyInv, Tidy, TypeOK, RegistryTypeOK,
         Connecting, SameUsers, Sessions, Holders
  <2> QED  BY <1>1, <2>1, UnchangedTidy DEF LookUp, RegisterLookup
<1>2. ASSUME NEW st \in Streams, Accept(c, st) PROVE Tidy'
  <2>1. Connecting' /\ SameUsers
    BY <1>2 DEF Accept, Step, Go, registryVars, TidyInv, Tidy, TypeOK, Connecting, SameUsers,
         Sessions
  <2> QED  BY <1>2, <2>1, UnchangedTidy DEF Accept, registryVars
<1> QED
  BY <1>1, <1>2, ConnectConsumerTidy, RefusedTidy, StoreTidy, AcceptFailsTidy DEF ConsumerStep

\* A stream is counted from the step in which it takes its pointer to the
\* step in which it drops it.
LEMMA StreamTidy ==
    ASSUME TidyInv, NEW st \in Streams, StreamStep(st)
    PROVE  Tidy'
<1> USE RegistryAssumption DEF TidyInv, Tidy
<1>1. session' = session /\ \A x \in Sessions : pc'[x] = pc[x]
  BY DEF StreamStep, WaitStep, ReadHeader, ReadHeaderFails, FastPath, StartWait,
         StartWaitFails, CheckDone, CheckProvider, StopWait, OpenStream, OpenStreamFails,
         FinishBridge, Step, Go, TypeOK, Sessions
<1>2. Connecting'
  BY <1>1 DEF Connecting
<1>3. CASE StartWait(st)
  <2>1. /\ \A m \in Names : WaitersAt(m)' = IF m = StreamEndpoint(st)
                                            THEN WaitersAt(m) \cup {st} ELSE WaitersAt(m)
        /\ SameConsumers /\ SameYamuxes
    BY <1>3, EnrollAt DEF StartWait, RegistryInv
  <2>2. ref'[st] # None /\ \A x \in Streams : x # st => ref'[x] = ref[x]
    BY <1>3 DEF StartWait, Enroll, TypeOK, RegistryTypeOK, Holders
  <2>3. \A n \in Names : YamuxesAt(n) \subseteq Sessions /\ WaitersAt(n) \subseteq Streams
    BY FieldTypes DEF RegistryInv, Sessions
  <2>4. Counted' /\ Attached'
    BY <1>1, <2>1, <2>3 DEF Counted, Attached, SameConsumers, SameYamuxes
  <2>5. Waiting'
    BY <2>1, <2>2, <2>3 DEF Waiting, StreamEndpoint
  <2> QED  BY <1>2, <2>4, <2>5
<1>4. CASE StopWait(st)
  <2>1. /\ \A m \in Names : WaitersAt(m)' = IF m = StreamEndpoint(st)
                                            THEN WaitersAt(m) \ {st} ELSE WaitersAt(m)
        /\ SameConsumers /\ SameYamuxes
    BY <1>4, LeaveAt DEF StopWait
  <2>2. \A x \in Streams : x # st => ref'[x] = ref[x]
    BY <1>4 DEF StopWait, Leave, TypeOK, RegistryTypeOK, Holders
  <2>3. \A n \in Names : YamuxesAt(n) \subseteq Sessions /\ WaitersAt(n) \subseteq Streams
    BY FieldTypes DEF RegistryInv, Sessions
  <2>4. Counted' /\ Attached'
    BY <1>1, <2>1, <2>3 DEF Counted, Attached, SameConsumers, SameYamuxes
  <2>5. Waiting'
    BY <2>1, <2>2, <2>3 DEF Waiting, StreamEndpoint
  <2> QED  BY <1>2, <2>4, <2>5
<1>5. CASE UNCHANGED registryVars
  <2>1. SameUsers
    BY <1>1, <1>5 DEF SameUsers, registryVars, Sessions
  <2> QED  BY <1>2, <1>5, <2>1, UnchangedTidy DEF registryVars
<1> QED
  BY <1>3, <1>4, <1>5 DEF StreamStep, WaitStep, ReadHeader, ReadHeaderFails, FastPath,
       StartWaitFails, EnrollFails, CheckDone, CheckProvider, OpenStream, OpenStreamFails,
       FinishBridge

\* Nobody uses a name at first.
LEMMA TidyInit == Init => Tidy
<1> SUFFICES ASSUME Init PROVE Tidy
  OBVIOUS
<1>1. \A n \in Names : RecordAt(n) = NewEndpoint
  BY DEF Init, RegistryInit, RecordAt
<1> QED  BY <1>1, RegistryAssumption
            DEF Init, Tidy, Connecting, Counted, Attached, Waiting, ConsumersAt, YamuxesAt,
                WaitersAt, NewEndpoint, Sessions

\* Every step leaves what it found tidy.
LEMMA TidyStep == TidyInv /\ [Next]_vars => Tidy'
<1> SUFFICES ASSUME TidyInv, [Next]_vars PROVE Tidy'
  OBVIOUS
<1>1. CASE Idle \/ UNCHANGED vars
  <2>1. Connecting' /\ SameUsers
    BY <1>1 DEF Idle, vars, registryVars, relayVars, TidyInv, Tidy, Connecting, SameUsers
  <2> QED  BY <1>1, <2>1, UnchangedTidy DEF Idle, vars, registryVars
<1> QED  BY <1>1, SessionTidy, ProviderTidy, ConsumerTidy, StreamTidy DEF Next

\* Every use of a name belongs to somebody who is still to undo it.
THEOREM TidyInvariant == Spec => []TidyInv
<1>1. Init => TidyInv
  BY TypedInit, TidyInit DEF Typed, TidyInv
<1>2. TidyInv /\ [Next]_vars => TidyInv'
  BY TypedStep, TidyStep DEF Typed, TidyInv
<1> QED  BY <1>1, <1>2, PTL DEF Spec

\* Whom /status counts has a session whose end is still to come.
LEMMA CountedKnownInv == TidyInv => CountedConsumersKnown
BY DEF TidyInv, Tidy, Counted, Known, CountedConsumersKnown, Live, ConsumersAt, RecordAt

\* That holds in every reachable state.
THEOREM CountedKnown == Spec => []CountedConsumersKnown
BY TidyInvariant, CountedKnownInv, PTL

\* When every session is gone and every goroutine is done, the table is empty,
\* in whatever order they went: a provider, a consumer, a yamux session or a
\* waiter in a record would each belong to one that is not.
LEMMA QuietEmptyInv == ServingInv /\ TidyInv => QuietMeansEmpty
<1> SUFFICES ASSUME ServingInv, TidyInv, ~ QuietMeansEmpty PROVE FALSE
  OBVIOUS
<1> USE DEF TidyInv, Tidy
<1>1. PICK n \in Names : endpoints[n] # None
  BY DEF QuietMeansEmpty, Live
<1>2. InUse(RecordAt(n)) /\ RecordAt(n) \in Endpoint
  BY <1>1, RecordAtType DEF RegistryInv, TableInv, EntriesInUse, Live, RecordAt
<1>3. CASE ProviderAt(n) # None
  BY <1>2, <1>3 DEF Endpoint, ProviderAt, ServingInv, Placed, QuietMeansEmpty, Sessions
<1>4. CASE ConsumersAt(n) # {}
  BY <1>2, <1>4 DEF Endpoint, ConsumersAt, Counted, Known, QuietMeansEmpty, Sessions
<1>5. CASE YamuxesAt(n) # {}
  BY <1>2, <1>5 DEF Endpoint, YamuxesAt, Attached, QuietMeansEmpty, Sessions
<1>6. CASE WaitersAt(n) # {}
  BY <1>2, <1>6 DEF Endpoint, WaitersAt, Waiting, TypeOK, QuietMeansEmpty
<1> QED  BY <1>2, <1>3, <1>4, <1>5, <1>6
         DEF InUse, ProviderAt, ConsumersAt, YamuxesAt, WaitersAt

\* That holds in every reachable state.
THEOREM QuietEmpty == Spec => []QuietMeansEmpty
BY TidyInvariant, ServingInvariant, QuietEmptyInv, PTL

(***************************************************************************)
(* Endpoints do not touch each other.                                      *)
(***************************************************************************)

OwnConsumersToClose == \A p \in Providers : \A c \in toClose[p] : EndpointOf[c] = EndpointOf[p]

OwnTarget == \A st \in Streams :
    target[st] # None => target[st] \in Providers /\ EndpointOf[target[st]] = StreamEndpoint(st)

Targeted == \A st \in Streams : pc[st] \in {"opening", "bridging"} => target[st] # None

Isolated == OwnConsumersToClose /\ OwnTarget /\ Targeted

\* The consumers a departing provider is to evict are in the record of its
\* own name, and whoever is in it is there for that name.
LEMMA EvictsItsOwn ==
    ASSUME TidyInv, NEW p \in Providers, NEW c \in SessionsToClose(p)
    PROVE  EndpointOf[c] = EndpointOf[p]
<1>1. EndpointOf[p] \in Names
  BY RegistryAssumption DEF Sessions
<1>2. c \in YamuxesAt(EndpointOf[p])
  BY DEF SessionsToClose, MayRemove, YamuxesAt, RecordAt
<1> QED  BY <1>1, <1>2 DEF TidyInv, Tidy, Attached

\* Whom a stream finds in its endpoint's record serves that endpoint.
LEMMA FindsItsOwn ==
    ASSUME ServingInv, NEW st \in Streams
    PROVE  LET p == ProviderAt(StreamEndpoint(st)) IN
           p # None => p \in Providers /\ EndpointOf[p] = StreamEndpoint(st)
<1>1. StreamEndpoint(st) \in Names
  BY RegistryAssumption DEF StreamEndpoint, Sessions
<1>2. ProviderAt(StreamEndpoint(st)) \in Providers \cup {None}
  BY <1>1, RecordAtType DEF ServingInv, RegistryInv, ProviderAt, Endpoint
<1> QED  BY <1>1, <1>2 DEF ServingInv, Placed

\* Only a departing provider makes a list of sessions to close.
LEMMA ToCloseStep ==
    ASSUME ServingInv, TidyInv, OwnConsumersToClose, [Next]_vars
    PROVE  OwnConsumersToClose'
<1> USE DEF OwnConsumersToClose, TidyInv, TypeOK
<1>1. ASSUME NEW p \in Providers, ProviderLeaves(p) PROVE OwnConsumersToClose'
  BY <1>1, EvictsItsOwn DEF ProviderLeaves
<1>2. ASSUME NEW p \in Providers, NEW c \in Consumers, CloseConsumer(p, c)
      PROVE  OwnConsumersToClose'
  BY <1>2 DEF CloseConsumer
<1>3. CASE UNCHANGED toClose
  BY <1>3
<1> QED
  BY <1>1, <1>2, <1>3
  DEF Next, SessionStep, Connect, Retire, OnDisconnect, OpenYamux, OpenYamuxFails, YamuxEOF,
      YamuxFails, ProviderStep, OnConnectProvider, Register, RegisterFails, EvictionDone,
      ConsumerStep, OnConnectConsumer, OnConnectRefused, LookUp, Store, Accept, AcceptFails,
      StreamStep, WaitStep, ReadHeader, ReadHeaderFails, FastPath, StartWait, StartWaitFails,
      CheckDone, CheckProvider, StopWait, OpenStream, OpenStreamFails, FinishBridge, Idle,
      vars, relayVars

\* A stream takes its target from the record of its own name: the fast path
\* reads it there, and a waiter's pointer is the one the table has.
LEMMA TargetStep ==
    ASSUME ServingInv, TidyInv, Isolated, [Next]_vars
    PROVE  OwnTarget' /\ Targeted'
<1> USE DEF Isolated, OwnTarget, Targeted, TidyInv, TypeOK
<1>1. ASSUME NEW st \in Streams, FastPath(st) PROVE OwnTarget' /\ Targeted'
  <2>1. ProviderOf(st) = ProviderAt(StreamEndpoint(st))
    BY DEF ProviderOf, ProviderAt, RecordAt, NewEndpoint
  <2>2. ProviderOf(st) # None
            => ProviderOf(st) \in Providers /\ EndpointOf[ProviderOf(st)] = StreamEndpoint(st)
    BY <2>1, FindsItsOwn
  <2>3. OwnTarget'
    BY <1>1, <2>2 DEF FastPath, StreamEndpoint
  <2>4. Targeted'
    BY <1>1 DEF FastPath, Step, Go
  <2> QED  BY <2>3, <2>4
<1>2. ASSUME NEW st \in Streams, CheckProvider(st) PROVE OwnTarget' /\ Targeted'
  <2> DEFINE q == heap[ref[st]].provider
  <2>1. ref[st] # None
    BY <1>2 DEF CheckProvider, Step
  <2>2. endpoints[StreamEndpoint(st)] = ref[st]
    BY <2>1 DEF RegistryInv, TableInv, WaiterNeverOrphaned
  <2>3. q = ProviderAt(StreamEndpoint(st))
    BY <2>1, <2>2 DEF ProviderAt, RecordAt
  <2>4. q # None => q \in Providers /\ EndpointOf[q] = StreamEndpoint(st)
    BY <2>3, FindsItsOwn
  <2>5. OwnTarget'
    BY <1>2, <2>4 DEF CheckProvider, StreamEndpoint
  <2>6. Targeted'
    BY <1>2 DEF CheckProvider, Step, Go
  <2> QED  BY <2>5, <2>6
<1>3. ASSUME NEW st \in Streams, StreamStep(st), UNCHANGED target
      PROVE  OwnTarget' /\ Targeted'
  <2>1. \A x \in Streams : x # st => pc'[x] = pc[x]
    BY <1>3 DEF StreamStep, WaitStep, ReadHeader, ReadHeaderFails, FastPath, StartWait,
         StartWaitFails, CheckDone, CheckProvider, StopWait, OpenStream, OpenStreamFails,
         FinishBridge, Step, Go
  <2>2. pc'[st] \in {"opening", "bridging"} => target[st] # None
    BY <1>3 DEF StreamStep, WaitStep, ReadHeader, ReadHeaderFails, FastPath, StartWait,
         StartWaitFails, CheckDone, CheckProvider, StopWait, OpenStream, OpenStreamFails,
         FinishBridge, Step, Go
  <2> QED  BY <1>3, <2>1, <2>2 DEF StreamEndpoint
<1>4. ASSUME \A st \in Streams : pc'[st] \in {"opening", "bridging"} => pc'[st] = pc[st],
             UNCHANGED target
      PROVE  OwnTarget' /\ Targeted'
  BY <1>4 DEF StreamEndpoint
<1>5. ASSUME NEW s \in Sessions, SessionStep(s) PROVE OwnTarget' /\ Targeted'
  <2>1. UNCHANGED target /\ \A st \in Streams : pc'[st] = pc[st]
    BY <1>5, RegistryAssumption
       DEF SessionStep, Connect, Retire, OnDisconnect, OpenYamux, OpenYamuxFails, YamuxEOF,
           YamuxFails, Step, Go, Sessions
  <2> QED  BY <1>4, <2>1
<1>6. ASSUME NEW p \in Providers, ProviderStep(p) PROVE OwnTarget' /\ Targeted'
  <2>1. UNCHANGED target /\ \A st \in Streams : pc'[st] = pc[st]
    BY <1>6, RegistryAssumption
       DEF ProviderStep, OnConnectProvider, Register, RegisterFails, ProviderLeaves,
           EvictionDone, CloseConsumer, Step, Go, Sessions
  <2> QED  BY <1>4, <2>1
<1>7. ASSUME NEW c \in Consumers, ConsumerStep(c) PROVE OwnTarget' /\ Targeted'
  <2>1. /\ UNCHANGED target
        /\ \A st \in Streams : pc'[st] \in {"opening", "bridging"} => pc'[st] = pc[st]
    BY <1>7, RegistryAssumption
       DEF ConsumerStep, OnConnectConsumer, OnConnectRefused, LookUp, Store, Accept,
           AcceptFails, Step, Go, Sessions
  <2> QED  BY <1>4, <2>1
<1>8. CASE Idle \/ UNCHANGED vars
  BY <1>4, <1>8 DEF Idle, vars, relayVars
<1>9. ASSUME NEW st \in Streams, StreamStep(st) PROVE OwnTarget' /\ Targeted'
  BY <1>1, <1>2, <1>3, <1>9
     DEF StreamStep, WaitStep, ReadHeader, ReadHeaderFails, StartWait, StartWaitFails,
         CheckDone, StopWait, OpenStream, OpenStreamFails, FinishBridge
<1> QED  BY <1>5, <1>6, <1>7, <1>8, <1>9 DEF Next

\* Every step of the relay keeps the endpoints apart.
LEMMA IsolatedStep == ServingInv /\ TidyInv /\ Isolated /\ [Next]_vars => Isolated'
BY ToCloseStep, TargetStep DEF Isolated

\* No list and no target at first.
LEMMA IsolatedInit == Init => Isolated
BY RegistryAssumption DEF Init, Isolated, OwnConsumersToClose, OwnTarget, Targeted

\* What is kept apart is what the property says.
LEMMA IsolatedInv == Isolated => EndpointsIsolated
BY DEF Isolated, OwnConsumersToClose, OwnTarget, Targeted, EndpointsIsolated

\* A departing provider closes the sessions of its own endpoint's consumers
\* only, and a stream is bridged to a provider of its own endpoint only.
THEOREM EndpointsApart == Spec => []EndpointsIsolated
<1>1. ServingInv /\ TidyInv /\ Isolated /\ [Next]_vars => Isolated'
  BY IsolatedStep
<1>2. Spec => []Isolated
  BY <1>1, IsolatedInit, ServingInvariant, TidyInvariant, PTL DEF Spec
<1> QED  BY <1>2, IsolatedInv, PTL

(***************************************************************************)
(* The relay's goroutines have a directory before them.                    *)
(***************************************************************************)

\* In the running broker too, the table cannot be told from a directory.
THEOREM RelayHasDirectory == Spec => DirectorySpec
BY RelayCallsRegistry, RegistryIsDirectory

(***************************************************************************)
(* What holds above of one broker whose clients come once holds however    *)
(* often its clients crash, leave their sessions behind and come back, and *)
(* however often the broker itself starts again from nothing; and a        *)
(* session id is not used again before the broker has forgotten it.        *)
(***************************************************************************)

RelayInv == ServingInv /\ TypeOK /\ Tidy

\* The inductive invariant of the relay, for each of its own steps.
LEMMA RelayStep == RelayInv /\ [Next]_vars => RelayInv'
BY ServingStep, TypedStep, TidyStep DEF RelayInv, ServingInv, Typed, TidyInv

\* The inductive invariant of the relay, when the broker starts.
LEMMA RelayInit == Init => RelayInv
BY ServingInit, TypedInit, TidyInit DEF RelayInv, Typed

(***************************************************************************)
(* A session nobody has connected yet is known to nobody.                  *)
(***************************************************************************)

\* Unknown, in terms of the names' records.
LEMMA UnknownAt ==
    ASSUME NEW s \in Sessions
    PROVE  Unknown(s) <=> /\ \A n \in Names : /\ ProviderAt(n) # s
                                              /\ s \notin ConsumersAt(n)
                                              /\ s \notin YamuxesAt(n)
                          /\ \A p \in Providers : s \notin toClose[p]
                          /\ \A st \in Streams :
                                 OwnerOf[st] = s \/ target[st] = s => StreamOver(st)
BY FailoverAssumption
   DEF Unknown, Live, ProviderAt, ConsumersAt, YamuxesAt, RecordAt, NewEndpoint

\* A step that brings s nowhere it was not.
NotBrought(s) ==
    /\ \A n \in Names : /\ ProviderAt(n)' = s => ProviderAt(n) = s
                        /\ s \in ConsumersAt(n)' => s \in ConsumersAt(n)
                        /\ s \in YamuxesAt(n)' => s \in YamuxesAt(n)
    /\ \A p \in Providers : s \in toClose'[p] => \/ s \in toClose[p]
                                                 \/ \E n \in Names : s \in YamuxesAt(n)

\* A step that leaves the records and the lists alone.
LEMMA SameNotBrought ==
    ASSUME SameRecords, toClose' = toClose, NEW s
    PROVE  NotBrought(s)
BY DEF SameRecords, SameProviders, SameConsumers, SameYamuxes, NotBrought

\* The lists of sessions to close are made of what the records held.
LEMMA LeavesNotBrought ==
    ASSUME RelayInv, NEW p \in Providers, ProviderLeaves(p), NEW s \in Sessions
    PROVE  NotBrought(s)
<1>1. \A n \in Names : /\ ProviderAt(n)' \in {ProviderAt(n), None}
                       /\ ConsumersAt(n)' \subseteq ConsumersAt(n)
                       /\ YamuxesAt(n)' \subseteq YamuxesAt(n)
  BY RemoveProviderAt DEF ProviderLeaves, RelayInv, ServingInv, RegistryInv
<1>2. \A q \in Providers : toClose'[q] = IF q = p THEN SessionsToClose(p) ELSE toClose[q]
  BY DEF ProviderLeaves, RelayInv, TypeOK
<1>3. SessionsToClose(p) = {} \/ SessionsToClose(p) = YamuxesAt(EndpointOf[p])
  BY DEF SessionsToClose, MayRemove, YamuxesAt, RecordAt
<1>4. EndpointOf[p] \in Names /\ None # s
  BY RegistryAssumption, FailoverAssumption DEF Sessions
<1> QED  BY <1>1, <1>2, <1>3, <1>4 DEF NotBrought

\* Only the goroutine of a session brings it into the table, and that of a
\* session nobody has connected has not started.
LEMMA NewNotBrought ==
    ASSUME RelayInv, [Next]_vars, NEW s \in Sessions, pc[s] = "new"
    PROVE  NotBrought(s)
<1> USE RegistryAssumption
<1> TableInv /\ RegistryInv
  BY DEF RelayInv, ServingInv, RegistryInv
<1>1. ASSUME NEW x \in Sessions, SessionStep(x) PROVE NotBrought(s)
  <2>1. CASE OnDisconnect(x)
    BY <2>1, ForgetAt, FailoverAssumption
       DEF OnDisconnect, NotBrought, SameYamuxes
  <2>2. CASE ~ OnDisconnect(x)
    <3>1. UNCHANGED <<endpoints, heap>> /\ toClose' = toClose
      BY <1>1, <2>2 DEF SessionStep, Connect, Retire, OpenYamux, OpenYamuxFails, YamuxEOF,
           YamuxFails, registryVars
    <3> QED  BY <3>1, UnchangedSame, SameNotBrought
  <2> QED  BY <2>1, <2>2
<1>2. ASSUME NEW p \in Providers, ProviderStep(p) PROVE NotBrought(s)
  <2>1. CASE Register(p)
    <3>1. p # s /\ toClose' = toClose
      BY <2>1 DEF Register, Step
    <3> QED  BY <2>1, <3>1, SetProviderAt DEF Register, NotBrought, SameConsumers, SameYamuxes
  <2>2. CASE ProviderLeaves(p)
    BY <2>2, LeavesNotBrought
  <2>3. ASSUME NEW c \in Consumers, CloseConsumer(p, c) PROVE NotBrought(s)
    <3>1. SameRecords /\ \A q \in Providers : toClose'[q] \subseteq toClose[q]
      BY <2>3, UnchangedSame DEF CloseConsumer, registryVars, RelayInv, TypeOK
    <3> QED  BY <3>1 DEF SameRecords, SameProviders, SameConsumers, SameYamuxes, NotBrought
  <2>4. CASE OnConnectProvider(p) \/ RegisterFails(p) \/ EvictionDone(p)
    <3>1. UNCHANGED <<endpoints, heap>> /\ toClose' = toClose
      BY <2>4 DEF OnConnectProvider, RegisterFails, SetProviderFails, EvictionDone, registryVars
    <3> QED  BY <3>1, UnchangedSame, SameNotBrought
  <2> QED  BY <1>2, <2>1, <2>2, <2>3, <2>4 DEF ProviderStep
<1>3. ASSUME NEW c \in Consumers, ConsumerStep(c) PROVE NotBrought(s)
  <2>1. toClose' = toClose
    BY <1>3 DEF ConsumerStep, OnConnectConsumer, OnConnectRefused, LookUp, Store,
         AcceptFails, Accept
  <2>2. CASE OnConnectConsumer(c)
    <3>1. c # s
      BY <2>2 DEF OnConnectConsumer, Step
    <3> QED  BY <2>1, <2>2, <3>1, AddConsumerAt
             DEF OnConnectConsumer, NotBrought, SameProviders, SameYamuxes
  <2>3. CASE Store(c)
    <3>1. c # s
      BY <2>3 DEF Store, Step
    <3> QED  BY <2>1, <2>3, <3>1, RegisterStoreAt
             DEF Store, NotBrought, SameProviders, SameConsumers
  <2>4. CASE AcceptFails(c)
    BY <2>1, <2>4, UnregisterAt DEF AcceptFails, NotBrought, SameProviders, SameConsumers
  <2>5. CASE ~ (OnConnectConsumer(c) \/ Store(c) \/ AcceptFails(c))
    <3>1. UNCHANGED <<endpoints, heap>>
      BY <1>3, <2>5 DEF ConsumerStep, OnConnectRefused, AddConsumerFails, LookUp,
           RegisterLookup, Accept, registryVars
    <3> QED  BY <2>1, <3>1, UnchangedSame, SameNotBrought
  <2> QED  BY <2>2, <2>3, <2>4, <2>5
<1>4. ASSUME NEW st \in Streams, StreamStep(st) PROVE NotBrought(s)
  <2>1. toClose' = toClose /\ (Enroll(st) \/ Leave(st) \/ UNCHANGED registryVars)
    BY <1>4 DEF StreamStep, WaitStep, ReadHeader, ReadHeaderFails, FastPath, StartWait,
         StartWaitFails, CheckDone, CheckProvider, StopWait, OpenStream, OpenStreamFails,
         FinishBridge, EnrollFails
  <2>2. SameProviders /\ SameConsumers /\ SameYamuxes
    BY <2>1, EnrollAt, LeaveAt, UnchangedSame DEF registryVars, SameRecords
  <2> QED  BY <2>1, <2>2 DEF SameProviders, SameConsumers, SameYamuxes, NotBrought
<1>5. CASE Idle \/ UNCHANGED vars
  BY <1>5, UnchangedSame, SameNotBrought DEF Idle, vars, registryVars, relayVars
<1> QED  BY <1>1, <1>2, <1>3, <1>4, <1>5 DEF Next

\* A stream that looks for a provider has not found one yet.
Aimless == \A st \in Streams :
    pc[st] \in {"idle", "reading", "looking", "enrolling", "waiting", "checking"}
        => target[st] = None

\* Every step keeps that: who finds a provider stops looking.
LEMMA AimlessStep == ASSUME TypeOK, Aimless, [Next]_vars PROVE Aimless'
<1> USE RegistryAssumption DEF TypeOK, Aimless
<1>1. ASSUME UNCHANGED target,
             \A st \in Streams : pc'[st] = pc[st] \/ (pc[st] = "idle" /\ pc'[st] = "reading")
      PROVE  Aimless'
  BY <1>1
<1>2. ASSUME NEW x \in Sessions, SessionStep(x) PROVE Aimless'
  BY <1>1, <1>2 DEF SessionStep, Connect, Retire, OnDisconnect, OpenYamux, OpenYamuxFails,
       YamuxEOF, YamuxFails, Step, Go, Sessions
<1>3. ASSUME NEW p \in Providers, ProviderStep(p) PROVE Aimless'
  BY <1>1, <1>3 DEF ProviderStep, OnConnectProvider, Register, RegisterFails, ProviderLeaves,
       EvictionDone, CloseConsumer, Step, Go, Sessions
<1>4. ASSUME NEW c \in Consumers, ConsumerStep(c) PROVE Aimless'
  BY <1>1, <1>4 DEF ConsumerStep, OnConnectConsumer, OnConnectRefused, LookUp, Store,
       AcceptFails, Accept, Step, Go, Sessions
<1>5. ASSUME NEW st \in Streams, StreamStep(st) PROVE Aimless'
  <2>1. CASE FastPath(st)
    BY <2>1 DEF FastPath, Step, Go
  <2>2. CASE CheckProvider(st)
    BY <2>2 DEF CheckProvider, Step, Go
  <2>3. CASE UNCHANGED target
    BY <1>5, <2>3 DEF StreamStep, WaitStep, ReadHeader, ReadHeaderFails, FastPath, StartWait,
         StartWaitFails, CheckDone, CheckProvider, StopWait, OpenStream, OpenStreamFails,
         FinishBridge, Step, Go
  <2> QED
    BY <1>5, <2>1, <2>2, <2>3 DEF StreamStep, WaitStep, ReadHeader, ReadHeaderFails, StartWait,
       StartWaitFails, CheckDone, StopWait, OpenStream, OpenStreamFails, FinishBridge
<1>6. CASE Idle \/ UNCHANGED vars
  BY <1>1, <1>6 DEF Idle, vars, relayVars
<1> QED  BY <1>2, <1>3, <1>4, <1>5, <1>6 DEF Next

\* No stream of a session that is new starts, and none is sent to it: it is
\* in no record where a stream could find it.
LEMMA NewStreams ==
    ASSUME RelayInv, Aimless, [Next]_vars, NEW s \in Sessions, pc[s] = "new", Unknown(s),
           NEW st \in Streams, OwnerOf[st] = s \/ target'[st] = s
    PROVE  pc'[st] \in {"idle", "done"}
<1> USE RegistryAssumption DEF RelayInv, TypeOK
<1> DEFINE Quiet == OwnerOf[st] = s \/ target[st] = s => pc[st] \in {"idle", "done"}
<1>0. /\ Quiet
      /\ \A n \in Names : ProviderAt(n) # s
      /\ s # None /\ StreamEndpoint(st) \in Names
  BY UnknownAt, FailoverAssumption DEF StreamOver, StreamEndpoint, Sessions
<1>1. ASSUME target'[st] = target[st], pc'[st] = pc[st] PROVE pc'[st] \in {"idle", "done"}
  BY <1>0, <1>1
<1>2. ASSUME NEW x \in Sessions, SessionStep(x) PROVE pc'[st] \in {"idle", "done"}
  BY <1>1, <1>2 DEF SessionStep, Connect, Retire, OnDisconnect, OpenYamux, OpenYamuxFails,
       YamuxEOF, YamuxFails, Step, Go, Sessions
<1>3. ASSUME NEW p \in Providers, ProviderStep(p) PROVE pc'[st] \in {"idle", "done"}
  BY <1>1, <1>3 DEF ProviderStep, OnConnectProvider, Register, RegisterFails, ProviderLeaves,
       EvictionDone, CloseConsumer, Step, Go, Sessions
<1>4. ASSUME NEW c \in Consumers, ConsumerStep(c) PROVE pc'[st] \in {"idle", "done"}
  <2>1. CASE Accept(c, st)
    <3>1. OwnerOf[st] # s /\ target'[st] = None
      BY <2>1 DEF Accept, Aimless, Step
    <3> QED  BY <1>0, <3>1
  <2>2. CASE ~ Accept(c, st)
    BY <1>1, <1>4, <2>2 DEF ConsumerStep, OnConnectConsumer, OnConnectRefused, LookUp, Store,
       AcceptFails, Accept, Step, Go, Sessions
  <2> QED  BY <2>1, <2>2
<1>5. ASSUME NEW x \in Streams, StreamStep(x) PROVE pc'[st] \in {"idle", "done"}
  <2>1. CASE x # st
    BY <1>1, <1>5, <2>1 DEF StreamStep, WaitStep, ReadHeader, ReadHeaderFails, FastPath,
       StartWait, StartWaitFails, CheckDone, CheckProvider, StopWait, OpenStream,
       OpenStreamFails, FinishBridge, Step, Go
  <2>2. CASE x = st
    <3>1. pc[st] \notin {"idle", "done"}
      BY <1>5, <2>2 DEF StreamStep, WaitStep, ReadHeader, ReadHeaderFails, FastPath,
         StartWait, StartWaitFails, CheckDone, CheckProvider, StopWait, OpenStream,
         OpenStreamFails, FinishBridge, Step
    <3>2. target'[st] = s /\ target[st] # s
      BY <1>0, <3>1
    <3>3. CASE FastPath(st)
      <4>1. ProviderOf(st) = ProviderAt(StreamEndpoint(st))
        BY DEF ProviderOf, ProviderAt, RecordAt, NewEndpoint
      <4> QED  BY <1>0, <3>2, <3>3, <4>1 DEF FastPath
    <3>4. CASE CheckProvider(st)
      <4>1. ref[st] # None
        BY <3>4 DEF CheckProvider, Step
      <4>2. endpoints[StreamEndpoint(st)] = ref[st]
        BY <4>1 DEF ServingInv, RegistryInv, TableInv, WaiterNeverOrphaned
      <4>3. heap[ref[st]].provider = ProviderAt(StreamEndpoint(st))
        BY <4>1, <4>2 DEF ProviderAt, RecordAt
      <4> QED  BY <1>0, <3>2, <3>4, <4>3 DEF CheckProvider
    <3> QED
      BY <1>5, <2>2, <3>2, <3>3, <3>4 DEF StreamStep, WaitStep, ReadHeader, ReadHeaderFails,
         StartWait, StartWaitFails, CheckDone, StopWait, OpenStream, OpenStreamFails,
         FinishBridge
  <2> QED  BY <2>1, <2>2
<1>6. CASE Idle \/ UNCHANGED vars
  BY <1>1, <1>6 DEF Idle, vars, relayVars
<1> QED  BY <1>2, <1>3, <1>4, <1>5, <1>6 DEF Next

Fresh == \A s \in Sessions : session[s] = "new" => pc[s] = "new" /\ Unknown(s)

\* No step of the relay makes a session new, and the one that starts the
\* goroutine of a new one connects it.
LEMMA NewStays ==
    ASSUME TypeOK, [Next]_vars, NEW s \in Sessions, session'[s] = "new",
           session[s] = "new" => pc[s] = "new"
    PROVE  session[s] = "new" /\ pc'[s] = "new"
<1> USE RegistryAssumption DEF TypeOK, Step, Go
<1>1. ASSUME NEW x \in Sessions, SessionStep(x) PROVE session[s] = "new" /\ pc'[s] = "new"
  BY <1>1 DEF SessionStep, Connect, Retire, OnDisconnect, OpenYamux, OpenYamuxFails,
       YamuxEOF, YamuxFails, CloseYamux, Sessions
<1>2. ASSUME NEW p \in Providers, ProviderStep(p) PROVE session[s] = "new" /\ pc'[s] = "new"
  BY <1>2 DEF ProviderStep, OnConnectProvider, Register, RegisterFails, ProviderLeaves,
       EvictionDone, CloseConsumer, CloseYamux, Sessions
<1>3. ASSUME NEW c \in Consumers, ConsumerStep(c) PROVE session[s] = "new" /\ pc'[s] = "new"
  BY <1>3 DEF ConsumerStep, OnConnectConsumer, OnConnectRefused, LookUp, Store,
       AcceptFails, Accept, Sessions
<1>4. ASSUME NEW st \in Streams, StreamStep(st) PROVE session[s] = "new" /\ pc'[s] = "new"
  BY <1>4 DEF StreamStep, WaitStep, ReadHeader, ReadHeaderFails, FastPath, StartWait,
       StartWaitFails, CheckDone, CheckProvider, StopWait, OpenStream, OpenStreamFails,
       FinishBridge, Sessions
<1>5. CASE Idle \/ UNCHANGED vars
  BY <1>5 DEF Idle, vars, relayVars
<1> QED  BY <1>1, <1>2, <1>3, <1>4, <1>5 DEF Next

\* The steps of the relay keep new sessions unknown.
LEMMA FreshStep == ASSUME RelayInv, Aimless, Fresh, [Next]_vars PROVE Fresh'
<1> SUFFICES ASSUME NEW s \in Sessions, session'[s] = "new"
             PROVE  pc'[s] = "new" /\ Unknown(s)'
  BY DEF Fresh
<1>1. session[s] = "new" /\ pc[s] = "new" /\ pc'[s] = "new" /\ Unknown(s)
  BY NewStays DEF RelayInv, Fresh
<1>2. NotBrought(s)
  BY <1>1, NewNotBrought
<1>3. /\ \A n \in Names : ProviderAt(n)' # s /\ s \notin ConsumersAt(n)' /\ s \notin YamuxesAt(n)'
      /\ \A p \in Providers : s \notin toClose'[p]
  BY <1>1, <1>2, UnknownAt DEF NotBrought
<1>4. \A st \in Streams : OwnerOf[st] = s \/ target'[st] = s => StreamOver(st)'
  BY <1>1, NewStreams DEF StreamOver
<1>5. Unknown(s)'
  BY <1>3, <1>4, FailoverAssumption
     DEF Unknown, Live, ProviderAt, ConsumersAt, YamuxesAt, RecordAt, NewEndpoint
<1> QED  BY <1>1, <1>5

(***************************************************************************)
(* Crashes, and session ids used again.                                    *)
(***************************************************************************)

\* Nobody knows anyone at first.
LEMMA FreshInit == Init => Fresh /\ Aimless
BY RegistryAssumption
   DEF Init, RegistryInit, Fresh, Aimless, Unknown, StreamOver, Live, Sessions

\* A broker that starts again satisfies what the first one did.
LEMMA CrashInv == BrokerCrashes => RelayInv' /\ Fresh' /\ Aimless'
<1>1. BrokerCrashes => Init'
  BY DEF BrokerCrashes, Init, RegistryInit
<1>2. Init => Fresh /\ Aimless
  BY FreshInit
<1>3. (Init => RelayInv /\ Fresh /\ Aimless)'
  BY <1>2, RelayInit, PTL
<1> QED  BY <1>1, <1>3

\* A session that is new again takes nothing from the one that had its id,
\* nor do its streams.
LEMMA RecycleInv ==
    ASSUME RelayInv, Fresh, Aimless, NEW s \in Sessions, Recycle(s)
    PROVE  RelayInv' /\ Fresh' /\ Aimless'
<1> USE RegistryAssumption DEF RelayInv
<1>1. SameRecords /\ toClose' = toClose /\ ref' = ref
      /\ endpoints' = endpoints /\ heap' = heap
  BY UnchangedSame DEF Recycle, registryVars
<1>2. /\ session'[s] = "new" /\ pc[s] = "done" /\ pc'[s] = "new"
      /\ \A x \in Sessions : x # s => session'[x] = session[x]
      /\ \A x \in Sessions : x # s => pc'[x] = pc[x]
  BY DEF Recycle, TypeOK, OwnStreams, Sessions
<1>3. /\ \A n \in Names : ProviderAt(n) # s /\ s \notin ConsumersAt(n) /\ s \notin YamuxesAt(n)
      /\ \A p \in Providers : s \notin toClose[p]
      /\ \A st \in Streams : OwnerOf[st] = s \/ target[st] = s => StreamOver(st)
  BY UnknownAt DEF Recycle
<1>9. \A st \in Streams : \/ pc'[st] = pc[st] /\ target'[st] = target[st]
                          \/ pc[st] \in {"idle", "done"} /\ pc'[st] = "idle" /\ target'[st] = None
  BY <1>3 DEF Recycle, TypeOK, OwnStreams, StreamOver, Sessions
<1>4. RegistryInv'
  BY UnchangedInv DEF Recycle, ServingInv
<1>5. TypeOK'
  <2>1. RegistryTypeOK'
    BY <1>4 DEF RegistryInv, TableInv
  <2>2. session' \in [Sessions -> SessionState] /\ yamux' \in [Sessions -> YamuxState]
    BY DEF Recycle, TypeOK, SessionState, YamuxState
  <2>3. pc' \in [Sessions \cup Streams -> SessionPc \cup StreamPc]
    BY DEF Recycle, TypeOK, SessionPc, StreamPc
  <2>4. target' \in [Streams -> Providers \cup {None}]
    BY DEF Recycle, TypeOK
  <2>5. \A st \in Streams : ref'[st] # None <=> pc'[st] \in {"waiting", "checking", "leaving"}
    BY <1>1, <1>9 DEF TypeOK
  <2> QED  BY <1>1, <1>2, <2>1, <2>2, <2>3, <2>4, <2>5 DEF TypeOK, Sessions
<1>6. ServingInv'
  <2>1. ControlOK'
    BY <1>5 DEF TypeOK, ControlOK
  <2>2. Serving'
    BY <1>1, <1>2, <1>3 DEF ServingInv, Serving, SameRecords, SameProviders, Sessions
  <2>3. Placed'
    BY <1>1, <1>2, <1>3 DEF ServingInv, Placed, SameRecords, SameProviders, Sessions
  <2> QED  BY <1>4, <2>1, <2>2, <2>3 DEF ServingInv
<1>7. Tidy'
  <2>1. \A n \in Names : /\ ConsumersAt(n) \subseteq Sessions \ {s}
                         /\ YamuxesAt(n) \subseteq Sessions \ {s}
    BY <1>3, FieldTypes DEF ServingInv, RegistryInv, Sessions
  <2>2. Connecting'
    BY <1>2 DEF Tidy, Connecting
  <2>3. Counted'
    BY <1>1, <1>2, <2>1 DEF Tidy, Counted, SameRecords, SameConsumers
  <2>4. Attached'
    BY <1>1, <1>2, <2>1 DEF Tidy, Attached, SameRecords, SameYamuxes
  <2>5. Waiting'
    BY <1>1, <1>2 DEF Tidy, Waiting, SameRecords, SameWaiters, StreamEndpoint
  <2> QED  BY <2>2, <2>3, <2>4, <2>5 DEF Tidy
<1>8. Fresh'
  <2>1. ASSUME NEW x \in Sessions, Unknown(x) PROVE Unknown(x)'
    <3>1. \A st \in Streams : OwnerOf[st] = x \/ target'[st] = x => StreamOver(st)'
      BY <1>9, <2>1, FailoverAssumption DEF Unknown, StreamOver
    <3> QED  BY <1>1, <2>1, <3>1 DEF Unknown, Live
  <2>2. Unknown(s)
    BY DEF Recycle
  <2> QED  BY <1>2, <2>1, <2>2 DEF Fresh
<1>10. Aimless'
  BY <1>9 DEF Aimless
<1> QED  BY <1>5, <1>6, <1>7, <1>8, <1>10

(***************************************************************************)
(* The clients.                                                            *)
(***************************************************************************)

ClientsOK ==
    /\ client \in [Clients -> ClientState] /\ faults \in 0..MaxFaults
    /\ current \in [Clients -> Sessions \cup {None}]
    /\ \A k \in Clients : current[k] \in IdsOf[k] \cup {None}
    /\ \A k \in Clients : current[k] = None <=> client[k] \in {"down", "connecting"}

FailoverInv == RelayInv /\ Isolated /\ Aimless /\ Fresh /\ ClientsOK

\* A crash forgets every list and every target; a session id is used again
\* when no list and no stream that could use it is left.
LEMMA IsolatedSurvives ==
    ASSUME TypeOK, Isolated, BrokerCrashes \/ \E s \in Sessions : Recycle(s)
    PROVE  Isolated'
<1> USE RegistryAssumption DEF Isolated, OwnConsumersToClose, OwnTarget, Targeted
<1>1. CASE BrokerCrashes
  BY <1>1 DEF BrokerCrashes
<1>2. ASSUME NEW s \in Sessions, Recycle(s) PROVE Isolated'
  <2>1. \A st \in Streams : \/ pc'[st] = pc[st] /\ target'[st] = target[st]
                            \/ pc'[st] = "idle" /\ target'[st] = None
    BY <1>2 DEF Recycle, TypeOK, OwnStreams, Sessions
  <2> QED  BY <1>2, <2>1 DEF Recycle, StreamEndpoint
<1> QED  BY <1>1, <1>2

\* A step of the clients and the broker is a step of the relay, the broker's
\* crash, or the end of what anyone knew of a session.
LEMMA FailoverIsRelay ==
    ASSUME [FailoverNext]_allVars
    PROVE  [Next]_vars \/ BrokerCrashes \/ \E s \in Sessions : Recycle(s)
<1>1. ASSUME Fault PROVE [Next]_vars \/ BrokerCrashes
  <2>1. ASSUME NEW k \in Clients, TransportFails(k) \/ Crash(k) PROVE UNCHANGED vars
    BY <2>1 DEF TransportFails, Crash
  <2>2. ASSUME NEW s \in Sessions, SessionFails(s) PROVE SessionStep(s)
    BY <2>2 DEF SessionFails, SessionStep
  <2> QED  BY <1>1, <2>1, <2>2 DEF Fault, Next
<1>2. ASSUME NEW k \in Clients, Start(k) \/ ClientStep(k) PROVE [Next]_vars
  <2>1. CASE RequestConnect(k)
    BY <2>1, FailoverAssumption DEF RequestConnect, Next, SessionStep
  <2> QED  BY <1>2, <2>1 DEF Start, ClientStep, Connected, ConnectFails, ServeEnds
<1>3. ASSUME NEW s \in Sessions, RetireAbandoned(s) \/ KeepaliveFails(s) \/ BrokerSession(s)
      PROVE  [Next]_vars
  BY <1>3 DEF RetireAbandoned, KeepaliveFails, BrokerSession, SessionStep, Next
<1>4. ASSUME NEW p \in Providers, BrokerProvider(p) PROVE [Next]_vars
  BY <1>4 DEF BrokerProvider, Next
<1>5. ASSUME NEW c \in Consumers, BrokerConsumer(c) PROVE [Next]_vars
  BY <1>5 DEF BrokerConsumer, Next
<1>6. ASSUME NEW st \in Streams, BrokerStream(st) PROVE [Next]_vars
  BY <1>6 DEF BrokerStream, Next
<1>7. CASE UNCHANGED allVars
  BY <1>7 DEF allVars
<1> QED  BY <1>1, <1>2, <1>3, <1>4, <1>5, <1>6, <1>7 DEF FailoverNext

\* Each step of a client, and each fault, keeps the clients' types.
LEMMA ClientsStep ==
    ASSUME ClientsOK, [FailoverNext]_allVars
    PROVE  ClientsOK'
<1> USE FailoverAssumption DEF ClientsOK, ClientState
<1>1. ASSUME Fault PROVE ClientsOK'
  <2>1. faults' \in 0..MaxFaults
    BY <1>1 DEF Fault
  <2>2. CASE BrokerCrashes
    BY <2>1, <2>2 DEF BrokerCrashes
  <2>3. ASSUME NEW k \in Clients, TransportFails(k) \/ Crash(k) PROVE ClientsOK'
    BY <2>1, <2>3 DEF TransportFails, Crash, Moves, Leaves
  <2>4. ASSUME NEW s \in Sessions, SessionFails(s) PROVE ClientsOK'
    BY <2>1, <2>4 DEF SessionFails
  <2> QED  BY <1>1, <2>2, <2>3, <2>4 DEF Fault
<1>2. ASSUME NEW k \in Clients, Start(k) PROVE ClientsOK'
  BY <1>2 DEF Start, Moves
<1>3. ASSUME NEW k \in Clients, RequestConnect(k) PROVE ClientsOK'
  BY <1>3 DEF RequestConnect, Moves
<1>4. ASSUME NEW k \in Clients, Connected(k) PROVE ClientsOK'
  BY <1>4 DEF Connected, Moves
<1>5. ASSUME NEW k \in Clients, ConnectFails(k) \/ ServeEnds(k) PROVE ClientsOK'
  BY <1>5 DEF ConnectFails, ServeEnds, Moves, Leaves
<1>6. CASE UNCHANGED clientVars
  BY <1>6 DEF clientVars
<1> QED  BY <1>1, <1>2, <1>3, <1>4, <1>5, <1>6
         DEF FailoverNext, ClientStep, RetireAbandoned, KeepaliveFails, BrokerSession, Recycle,
             BrokerProvider, BrokerConsumer, BrokerStream, allVars

\* The inductive invariant holds in every reachable state.
THEOREM FailoverInvariant == FailoverSpec => []FailoverInv
<1>1. FailoverInit => FailoverInv
  <2> SUFFICES ASSUME FailoverInit PROVE FailoverInv
    OBVIOUS
  <2>1. RelayInv
    BY RelayInit DEF FailoverInit
  <2>2. Fresh /\ Aimless
    BY FreshInit DEF FailoverInit
  <2>3. ClientsOK
    BY FailoverAssumption DEF FailoverInit, ClientsOK, ClientState
  <2>4. Isolated
    BY IsolatedInit DEF FailoverInit
  <2> QED  BY <2>1, <2>2, <2>3, <2>4 DEF FailoverInv
<1>2. FailoverInv /\ [FailoverNext]_allVars => FailoverInv'
  <2>1. RelayInv => ServingInv /\ TidyInv /\ TypeOK
    BY DEF RelayInv, ServingInv, TidyInv
  <2>2. FailoverInv /\ [FailoverNext]_allVars => Isolated'
    BY <2>1, FailoverIsRelay, IsolatedStep, IsolatedSurvives DEF FailoverInv
  <2>3. FailoverInv /\ [FailoverNext]_allVars => Aimless'
    BY <2>1, FailoverIsRelay, AimlessStep, CrashInv, RecycleInv DEF FailoverInv
  <2> QED
    BY <2>2, <2>3, FailoverIsRelay, RelayStep, FreshStep, CrashInv, RecycleInv, ClientsStep
    DEF FailoverInv
<1> QED  BY <1>1, <1>2, PTL DEF FailoverSpec

\* The clients' types hold, and a session id that may be used again is known
\* to no table and no list of the broker.
THEOREM FailoverType == FailoverSpec => []FailoverTypeOK
<1>1. FailoverInv => FailoverTypeOK
  BY DEF FailoverInv, ClientsOK, Fresh, FailoverTypeOK
<1> QED  BY <1>1, FailoverInvariant, PTL

\* Crashes, lost answers and returning clients take nothing away from what
\* the relay promises: the table stays bounded and in use, waiters stay where
\* a provider will look for them, who serves is registered and who is
\* registered serves, endpoints are kept apart, and all quiet means all empty.
THEOREM FailoverSafe ==
    FailoverSpec => [](/\ TypeOK /\ TableBounded /\ EntriesInUse /\ WaiterNeverOrphaned
                       /\ ServingIsRegistered /\ RegisteredIsServing /\ EndpointsIsolated
                       /\ CountedConsumersKnown /\ QuietMeansEmpty)
<1>1. RelayInv => /\ TypeOK /\ TableBounded /\ EntriesInUse /\ WaiterNeverOrphaned
                  /\ ServingIsRegistered /\ RegisteredIsServing
                  /\ CountedConsumersKnown /\ QuietMeansEmpty
  BY ServingIsRegisteredInv, RegisteredIsServingInv, CountedKnownInv, QuietEmptyInv
     DEF RelayInv, ServingInv, RegistryInv, TableInv, TidyInv
<1>2. Isolated => EndpointsIsolated
  BY IsolatedInv
<1> QED  BY <1>1, <1>2, FailoverInvariant, PTL DEF FailoverInv

=============================================================================
