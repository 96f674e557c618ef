-------------------------- MODULE EndpointRegistry --------------------------
(***************************************************************************)
(* The broker's endpoint table, internal/broker/endpoint.go: which named   *)
(* endpoint has a provider, which consumers are attached to it, which of   *)
(* their yamux sessions must be closed when the provider leaves, and how   *)
(* many streams wait for a provider.                                       *)
(*                                                                         *)
(* Every method of the source that holds EndpointRegistry.mu (and, inside  *)
(* it, Endpoint.mu) from its first read to its last write is one atomic    *)
(* operation here.  Two methods keep an *Endpoint pointer after releasing  *)
(* the lock, RegisterConsumerYamux and WaitForProvider; the pointer is     *)
(* the variable ref, and what they do with it later is another operation.  *)
(*                                                                         *)
(* RegistrySpec lets callers make any call in any order.  Module Relay     *)
(* implements it with the calls the broker's goroutines really make.       *)
(***************************************************************************)
EXTENDS Naturals, FiniteSets

CONSTANTS
    Names,        \* endpoint names
    Objects,      \* addresses of Endpoint structs
    Providers,    \* provider session ids
    Consumers,    \* consumer session ids
    Streams,      \* consumer streams being bridged (bridgeStream goroutines)
    EndpointOf,   \* the endpoint a session declared when it connected
    OwnerOf,      \* the consumer session a stream arrived on
    MaxEndpoints, \* const maxEndpoints
    None          \* nil

Sessions == Providers \cup Consumers
Holders == Consumers \cup Streams

ASSUME RegistryAssumption ==
    /\ IsFiniteSet(Names)
    /\ MaxEndpoints \in Nat
    /\ None \notin Objects /\ None \notin Providers
    /\ Providers \cap Consumers = {}
    /\ Consumers \cap Streams = {}
    /\ Providers \cap Streams = {}
    /\ EndpointOf \in [Sessions -> Names]
    /\ OwnerOf \in [Streams -> Consumers]

VARIABLES
    endpoints,    \* EndpointRegistry.endpoints: name -> *Endpoint
    heap,         \* the Endpoint structs
    ref           \* the *Endpoint a goroutine keeps across an unlock

registryVars == <<endpoints, heap, ref>>

\* ProviderSession and ProviderYamux are always set and cleared together, so
\* one field stands for both.  waiters counts streams; each stream counts at
\* most once, so the counter is kept as the set of streams it counts.
Endpoint == [provider : Providers \cup {None}, consumers : SUBSET Consumers,
             yamuxes : SUBSET Consumers, waiters : SUBSET Streams]

NewEndpoint == [provider |-> None, consumers |-> {}, yamuxes |-> {}, waiters |-> {}]

StreamEndpoint(s) == EndpointOf[OwnerOf[s]]

-----------------------------------------------------------------------------
(* The helpers that run under the registry lock. *)

Live == {n \in Names : endpoints[n] # None}

\* Mutant: > for >=.
HasRoom_OffByOne == ~ (Cardinality(Live) > MaxEndpoints)

HasRoom == ~ (Cardinality(Live) >= MaxEndpoints)

\* Mutant: reclaimed structs are pooled, whoever still points to them.
Unused_Pooled(o) == \A n \in Names : endpoints[n] # o

\* An address the allocator may hand out: nothing points to it.
Unused(o) == /\ \A n \in Names : endpoints[n] # o
             /\ \A h \in Holders : ref[h] # o

\* getOrCreateLocked(n) returns the struct at address o ...
GetOrCreate(n, o) == \/ endpoints[n] = o
                     \/ endpoints[n] = None /\ HasRoom /\ Unused(o)

\* ... holding this record ...
RecordOf(n, o) == IF endpoints[n] = o THEN heap[o] ELSE NewEndpoint

\* ... or fails because the table is full.
CreateFails(n) == endpoints[n] = None /\ ~ HasRoom

Put(n, o, ep) == /\ endpoints' = [endpoints EXCEPT ![n] = o]
                 /\ heap' = [heap EXCEPT ![o] = ep]

\* Mutant: deleteIfEmptyLocked forgets ep.waiters.
InUse_NoWaiters(ep) == ep.provider # None \/ ep.consumers # {} \/ ep.yamuxes # {}

InUse(ep) == \/ ep.provider # None
             \/ ep.consumers # {}
             \/ ep.yamuxes # {}
             \/ ep.waiters # {}

\* Store a record, then deleteIfEmptyLocked.
PutOrDelete(n, o, ep) ==
    /\ heap' = [heap EXCEPT ![o] = ep]
    /\ endpoints' = IF ~ InUse(ep) /\ endpoints[n] = o
                    THEN [endpoints EXCEPT ![n] = None]
                    ELSE endpoints

-----------------------------------------------------------------------------
(* The methods, one critical section each. *)

\* SetProvider, called by the provider session p ...
SetProvider(p) ==
    \E o \in Objects : LET n == EndpointOf[p]
                           ep == RecordOf(n, o) IN
        /\ GetOrCreate(n, o)
        /\ ep.provider = None
        /\ Put(n, o, [ep EXCEPT !.provider = p])
        /\ UNCHANGED ref

\* ... refused: the table is full, or the endpoint already has a provider.
SetProviderFails(p) ==
    /\ LET n == EndpointOf[p] IN
       \/ CreateFails(n)
       \/ endpoints[n] # None /\ heap[endpoints[n]].provider # None
    /\ UNCHANGED registryVars

\* Mutant: the check of the provider's session id is dropped.
MayRemove_AnyProvider(p) == endpoints[EndpointOf[p]] # None

\* RemoveProvider returns early when there is no endpoint, or when a
\* different provider owns it.
MayRemove(p) ==
    LET o == endpoints[EndpointOf[p]] IN o # None /\ heap[o].provider \in {None, p}

RemoveProvider(p) ==
    LET n == EndpointOf[p] IN
    /\ IF MayRemove(p)
       THEN PutOrDelete(n, endpoints[n],
              [heap[endpoints[n]] EXCEPT !.provider = None, !.consumers = {}, !.yamuxes = {}])
       ELSE UNCHANGED <<endpoints, heap>>
    /\ UNCHANGED ref

\* The yamux sessions RemoveProvider closes once it has released the locks.
SessionsToClose(p) ==
    IF MayRemove(p) THEN heap[endpoints[EndpointOf[p]]].yamuxes ELSE {}

\* Mutant: only a provider's bookkeeping is removed.
Forget_ProviderOnly(s) ==
    LET n == EndpointOf[s] IN
    /\ IF endpoints[n] # None
       THEN PutOrDelete(n, endpoints[n],
              [heap[endpoints[n]] EXCEPT !.provider = IF @ = s THEN None ELSE @])
       ELSE UNCHANGED <<endpoints, heap>>
    /\ UNCHANGED ref

\* Forget, called from Server.onDisconnect for a session of either role.
Forget(s) ==
    LET n == EndpointOf[s] IN
    /\ IF endpoints[n] # None
       THEN PutOrDelete(n, endpoints[n],
              [heap[endpoints[n]] EXCEPT !.provider = IF @ = s THEN None ELSE @,
                                         !.consumers = @ \ {s}])
       ELSE UNCHANGED <<endpoints, heap>>
    /\ UNCHANGED ref

AddConsumer(c) ==
    \E o \in Objects : LET n == EndpointOf[c]
                           ep == RecordOf(n, o) IN
        /\ GetOrCreate(n, o)
        /\ Put(n, o, [ep EXCEPT !.consumers = @ \cup {c}])
        /\ UNCHANGED ref

AddConsumerFails(c) == CreateFails(EndpointOf[c]) /\ UNCHANGED registryVars

\* RegisterConsumerYamux: read the table under r.mu (RLock) and release it ...
RegisterLookup(c) ==
    /\ ref[c] = None
    /\ ref' = [ref EXCEPT ![c] = endpoints[EndpointOf[c]]]
    /\ UNCHANGED <<endpoints, heap>>

\* ... then write through the pointer, which may no longer be in the table.
RegisterStore(c) ==
    /\ ref[c] # None
    /\ heap' = [heap EXCEPT ![ref[c]].yamuxes = @ \cup {c}]
    /\ ref' = [ref EXCEPT ![c] = None]
    /\ UNCHANGED endpoints

\* Mutant: the emptied endpoint is not reclaimed.
UnregisterConsumerYamux_KeepsEntry(c) ==
    LET n == EndpointOf[c] IN
    /\ IF endpoints[n] # None
       THEN heap' = [heap EXCEPT ![endpoints[n]].yamuxes = @ \ {c}]
       ELSE UNCHANGED heap
    /\ UNCHANGED <<endpoints, ref>>

UnregisterConsumerYamux(c) ==
    LET n == EndpointOf[c] IN
    /\ IF endpoints[n] # None
       THEN PutOrDelete(n, endpoints[n], [heap[endpoints[n]] EXCEPT !.yamuxes = @ \ {c}])
       ELSE UNCHANGED <<endpoints, heap>>
    /\ UNCHANGED ref

\* WaitForProvider's slow path: get the endpoint and count this stream as a
\* waiter in one critical section, keeping the pointer ...
Enroll(st) ==
    \E o \in Objects : LET n == StreamEndpoint(st)
                           ep == RecordOf(n, o) IN
        /\ ref[st] = None
        /\ GetOrCreate(n, o)
        /\ Put(n, o, [ep EXCEPT !.waiters = @ \cup {st}])
        /\ ref' = [ref EXCEPT ![st] = o]

EnrollFails(st) == CreateFails(StreamEndpoint(st)) /\ UNCHANGED registryVars

\* Mutant: the deferred function only decrements the counter.
Leave_KeepsEntry(st) ==
    /\ ref[st] # None
    /\ heap' = [heap EXCEPT ![ref[st]].waiters = @ \ {st}]
    /\ ref' = [ref EXCEPT ![st] = None]
    /\ UNCHANGED endpoints

\* The deferred function that gives the count back.
Leave(st) ==
    /\ ref[st] # None
    /\ PutOrDelete(StreamEndpoint(st), ref[st], [heap[ref[st]] EXCEPT !.waiters = @ \ {st}])
    /\ ref' = [ref EXCEPT ![st] = None]

-----------------------------------------------------------------------------

RegistryInit ==
    /\ endpoints = [n \in Names |-> None]
    /\ heap = [o \in Objects |-> NewEndpoint]
    /\ ref = [h \in Holders |-> None]

RegistryNext ==
    \/ \E p \in Providers : SetProvider(p) \/ SetProviderFails(p) \/ RemoveProvider(p)
    \/ \E s \in Sessions : Forget(s)
    \/ \E c \in Consumers : \/ AddConsumer(c) \/ AddConsumerFails(c)
                            \/ RegisterLookup(c) \/ RegisterStore(c)
                            \/ UnregisterConsumerYamux(c)
    \/ \E st \in Streams : Enroll(st) \/ EnrollFails(st) \/ Leave(st)

RegistrySpec == RegistryInit /\ [][RegistryNext]_registryVars

-----------------------------------------------------------------------------

\* Every variable has its type, and no two names share an Endpoint struct.
RegistryTypeOK ==
    /\ endpoints \in [Names -> Objects \cup {None}]
    /\ heap \in [Objects -> Endpoint]
    /\ ref \in [Holders -> Objects \cup {None}]
    /\ \A m, n \in Names : endpoints[m] = endpoints[n] => m = n \/ endpoints[m] = None

\* A stream that WaitForProvider has enrolled holds the struct the table
\* still maps its endpoint's name to, and is counted there: a provider that
\* registers under that name registers where the stream is looking.
\* Everyone who removes a provider, a consumer or another waiter while it
\* sleeps goes through deleteIfEmptyLocked and must leave the struct alone.
WaiterNeverOrphaned ==
    \A st \in Streams : ref[st] # None =>
        /\ endpoints[StreamEndpoint(st)] = ref[st]
        /\ st \in heap[ref[st]].waiters

\* No entry outlives its last provider, consumer, yamux session and waiter:
\* with a bounded table, an entry nobody can remove is a name lost for good.
EntriesInUse == \A n \in Live : InUse(heap[endpoints[n]])

\* However the calls that create endpoints and those that reclaim them
\* interleave, the table stays within maxEndpoints.
TableBounded == Cardinality(Live) <= MaxEndpoints

\* The record of a name, which is empty while the name is not in the table.
RecordAt(n) == IF endpoints[n] = None THEN NewEndpoint ELSE heap[endpoints[n]]

Dir == INSTANCE Directory WITH record <- [n \in Names |-> RecordAt(n)]

\* The table is a directory: nobody can tell from it where its structs are,
\* which of them have been reclaimed, nor that a consumer has stored its yamux
\* session in one that was.  Every method reads and changes the record of its
\* own name, and all of it that counts.
DirectorySpec == Dir!Spec

=============================================================================
