---------------------- MODULE EndpointRegistry_proofs ----------------------
(***************************************************************************)
(* What holds of the endpoint table whatever its callers do.  The          *)
(* inductive invariant is the conjunction of the four properties           *)
(* themselves and one more: a waiter keeps its entry in use, an entry in   *)
(* use is not deleted, and no two names share a struct, so nobody writes   *)
(* to the waiter's struct under another name.  From it follows that the    *)
(* table is a directory: structs and pointers cannot be told from outside. *)
(***************************************************************************)
EXTENDS EndpointRegistry, FiniteSetTheorems, TLAPS

TableInv == RegistryTypeOK /\ EntriesInUse /\ TableBounded

\* The struct a consumer is about to store in may have left the table, but it
\* has not come back under another name.
PointersOwn == \A c \in Consumers : \A n \in Names :
    ref[c] # None /\ endpoints[n] = ref[c] => n = EndpointOf[c]

RegistryInv == TableInv /\ WaiterNeverOrphaned /\ PointersOwn

\* The stream st is counted as a waiter by the struct o, in the table.
WaitsAt(st, o) == endpoints[StreamEndpoint(st)] = o /\ st \in heap[o].waiters

(***************************************************************************)
(* Put: what getOrCreateLocked and a store into its result preserve.       *)
(***************************************************************************)

\* The record getOrCreateLocked returns is an Endpoint.
LEMMA RecordType ==
    ASSUME RegistryTypeOK, NEW n \in Names, NEW o \in Objects
    PROVE  RecordOf(n, o) \in Endpoint
BY RegistryAssumption DEF RegistryTypeOK, RecordOf, NewEndpoint, Endpoint

\* Creating or updating an entry keeps the table well formed and bounded, if
\* what is stored is in use.
LEMMA PutTable ==
    ASSUME TableInv, NEW n \in Names, NEW o \in Objects, NEW ep \in Endpoint,
           GetOrCreate(n, o), InUse(ep), Put(n, o, ep),
           ref' \in [Holders -> Objects \cup {None}]
    PROVE  TableInv'
<1> USE RegistryAssumption
<1>1. RegistryTypeOK'
  BY DEF TableInv, RegistryTypeOK, GetOrCreate, Unused, Put
<1>2. EntriesInUse'
  BY DEF TableInv, RegistryTypeOK, EntriesInUse, Live, InUse, GetOrCreate, Unused, Put
<1>3. TableBounded'
  <2>1. IsFiniteSet(Live) /\ Cardinality(Live) \in Nat
    BY FS_Subset, FS_CardinalityType DEF Live
  <2>2. Live' = Live \cup {n}
    BY DEF Live, Put, TableInv, RegistryTypeOK
  <2>3. CASE n \in Live
    BY <2>2, <2>3 DEF TableInv, TableBounded
  <2>4. CASE n \notin Live
    <3>1. Cardinality(Live') = Cardinality(Live) + 1
      BY <2>1, <2>2, <2>4, FS_AddElement
    <3>2. HasRoom
      BY <2>4 DEF GetOrCreate, Live, TableInv, RegistryTypeOK
    <3> QED  BY <2>1, <3>1, <3>2 DEF HasRoom, TableBounded
  <2> QED  BY <2>3, <2>4
<1> QED  BY <1>1, <1>2, <1>3 DEF TableInv

\* A waiter stays where it is if its own record keeps its waiters.
LEMMA PutWaiter ==
    ASSUME TableInv, NEW n \in Names, NEW o \in Objects, NEW ep,
           GetOrCreate(n, o), Put(n, o, ep),
           RecordOf(n, o).waiters \subseteq ep.waiters,
           NEW st \in Streams, NEW x \in Objects, WaitsAt(st, x)
    PROVE  WaitsAt(st, x)'
<1>1. StreamEndpoint(st) \in Names
  BY RegistryAssumption DEF StreamEndpoint, Sessions
<1>2. x # None
  BY RegistryAssumption
<1>3. CASE StreamEndpoint(st) = n
  BY <1>1, <1>2, <1>3 DEF TableInv, RegistryTypeOK, GetOrCreate, RecordOf, Put, WaitsAt, StreamEndpoint
<1>4. CASE StreamEndpoint(st) # n
  BY <1>1, <1>2, <1>4 DEF TableInv, RegistryTypeOK, GetOrCreate, Unused, Put, WaitsAt, StreamEndpoint
<1> QED  BY <1>3, <1>4

(***************************************************************************)
(* PutOrDelete: what a store followed by deleteIfEmptyLocked preserves.    *)
(***************************************************************************)

\* Shrinking an entry keeps the table well formed and bounded: the entry goes
\* when it is no longer in use.
LEMMA PutOrDeleteTable ==
    ASSUME TableInv, NEW n \in Names, NEW o \in Objects, endpoints[n] = o,
           NEW ep \in Endpoint, PutOrDelete(n, o, ep),
           ref' \in [Holders -> Objects \cup {None}]
    PROVE  TableInv'
<1> USE RegistryAssumption
<1>1. RegistryTypeOK'
  BY DEF TableInv, RegistryTypeOK, PutOrDelete
<1>2. EntriesInUse'
  BY DEF TableInv, RegistryTypeOK, EntriesInUse, Live, InUse, PutOrDelete
<1>3. TableBounded'
  <2>1. IsFiniteSet(Live) /\ Cardinality(Live) \in Nat
    BY FS_Subset, FS_CardinalityType DEF Live
  <2>2. Live' \subseteq Live
    BY DEF Live, PutOrDelete, TableInv, RegistryTypeOK
  <2>3. Cardinality(Live') \leq Cardinality(Live) /\ Cardinality(Live') \in Nat
    BY <2>1, <2>2, FS_Subset, FS_CardinalityType
  <2> QED  BY <2>1, <2>3 DEF TableInv, TableBounded
<1> QED  BY <1>1, <1>2, <1>3 DEF TableInv

\* A waiter stays where it is if the store leaves it counted.
LEMMA PutOrDeleteWaiter ==
    ASSUME TableInv, NEW n \in Names, NEW o \in Objects, endpoints[n] = o,
           NEW ep \in Endpoint, PutOrDelete(n, o, ep),
           NEW st \in Streams, NEW x \in Objects, WaitsAt(st, x),
           st \in heap[o].waiters => st \in ep.waiters
    PROVE  WaitsAt(st, x)'
<1>1. StreamEndpoint(st) \in Names /\ x # None
  BY RegistryAssumption DEF StreamEndpoint, Sessions
<1>2. CASE x = o
  <2>1. StreamEndpoint(st) = n
    BY <1>1, <1>2 DEF TableInv, RegistryTypeOK, WaitsAt
  <2>2. InUse(ep) /\ st \in ep.waiters
    BY <1>2 DEF WaitsAt, InUse
  <2> QED  BY <1>2, <2>1, <2>2 DEF TableInv, RegistryTypeOK, PutOrDelete, WaitsAt, StreamEndpoint
<1>3. CASE x # o
  BY <1>1, <1>3 DEF TableInv, RegistryTypeOK, PutOrDelete, WaitsAt, StreamEndpoint
<1> QED  BY <1>2, <1>3

(***************************************************************************)
(* The two ways in which the methods write the table.                      *)
(***************************************************************************)

\* getOrCreateLocked and a store: the caller may enrol itself as a waiter.
LEMMA GrowInv ==
    ASSUME RegistryInv, NEW n \in Names, NEW o \in Objects, NEW ep \in Endpoint,
           GetOrCreate(n, o), InUse(ep), Put(n, o, ep),
           RecordOf(n, o).waiters \subseteq ep.waiters,
           ref' \in [Holders -> Objects \cup {None}],
           \A st \in Streams : ref'[st] \in {None, ref[st]} \/ WaitsAt(st, ref[st])',
           \A c \in Consumers : ref'[c] = ref[c]
    PROVE  RegistryInv'
<1>1. TableInv'
  BY PutTable DEF RegistryInv
<1>2. ASSUME NEW st \in Streams, ref'[st] # None
      PROVE  WaitsAt(st, ref[st])'
  <2>1. CASE ref'[st] = ref[st]
    <3>1. ref[st] \in Objects /\ WaitsAt(st, ref[st])
      BY <1>2, <2>1 DEF RegistryInv, TableInv, RegistryTypeOK, Holders, WaiterNeverOrphaned, WaitsAt
    <3>2. PICK x \in Objects : x = ref[st]
      BY <3>1
    <3>3. WaitsAt(st, x)'
      BY <3>1, <3>2, PutWaiter DEF RegistryInv
    <3> QED  BY <2>1, <3>2, <3>3 DEF WaitsAt, StreamEndpoint
  <2> QED  BY <1>2, <2>1
<1>3. PointersOwn'
  BY RegistryAssumption
     DEF RegistryInv, TableInv, RegistryTypeOK, PointersOwn, GetOrCreate, Unused, Put, Holders
<1> QED  BY <1>1, <1>2, <1>3 DEF RegistryInv, WaiterNeverOrphaned, WaitsAt, StreamEndpoint

\* A store and deleteIfEmptyLocked: nobody but a waiter that leaves is
\* uncounted.
LEMMA ShrinkInv ==
    ASSUME RegistryInv, NEW n \in Names, NEW o \in Objects, endpoints[n] = o,
           NEW ep \in Endpoint, PutOrDelete(n, o, ep),
           ref' \in [Holders -> Objects \cup {None}],
           \A st \in Streams : ref'[st] \in {None, ref[st]},
           \A st \in heap[o].waiters : st \in ep.waiters \/ ref'[st] = None,
           \A c \in Consumers : ref'[c] = ref[c]
    PROVE  RegistryInv'
<1>1. TableInv'
  BY PutOrDeleteTable DEF RegistryInv
<1>2. ASSUME NEW st \in Streams, ref'[st] # None
      PROVE  WaitsAt(st, ref[st])'
  <2>1. ref'[st] = ref[st] /\ ref[st] \in Objects /\ WaitsAt(st, ref[st])
    BY <1>2 DEF RegistryInv, TableInv, RegistryTypeOK, Holders, WaiterNeverOrphaned, WaitsAt
  <2>2. PICK x \in Objects : x = ref[st]
    BY <2>1
  <2>3. WaitsAt(st, x)'
    BY <1>2, <2>1, <2>2, PutOrDeleteWaiter DEF RegistryInv
  <2> QED  BY <2>1, <2>2, <2>3 DEF WaitsAt, StreamEndpoint
<1>3. PointersOwn'
  BY RegistryAssumption
     DEF RegistryInv, TableInv, RegistryTypeOK, PointersOwn, PutOrDelete, Holders
<1> QED  BY <1>1, <1>2, <1>3 DEF RegistryInv, WaiterNeverOrphaned, WaitsAt, StreamEndpoint

(***************************************************************************)
(* The invariant, operation by operation.                                  *)
(***************************************************************************)

\* A call that fails changes nothing.
LEMMA UnchangedInv ==
    ASSUME RegistryInv, UNCHANGED registryVars
    PROVE  RegistryInv'
BY DEF RegistryInv, TableInv, RegistryTypeOK, EntriesInUse, Live, TableBounded, InUse,
       WaiterNeverOrphaned, PointersOwn, StreamEndpoint, registryVars

\* SetProvider stores a record with a provider: in use, and its waiters kept.
LEMMA SetProviderInv ==
    ASSUME RegistryInv, NEW p \in Providers, SetProvider(p)
    PROVE  RegistryInv'
<1> DEFINE n == EndpointOf[p]
<1>1. n \in Names
  BY RegistryAssumption DEF Sessions
<1>2. PICK o \in Objects : /\ GetOrCreate(n, o)
                           /\ Put(n, o, [RecordOf(n, o) EXCEPT !.provider = p])
                           /\ UNCHANGED ref
  BY DEF SetProvider
<1> HIDE DEF n
<1> DEFINE ep == [RecordOf(n, o) EXCEPT !.provider = p]
<1>3. ep \in Endpoint /\ InUse(ep) /\ ep.waiters = RecordOf(n, o).waiters
  BY <1>1, RecordType, RegistryAssumption DEF RegistryInv, TableInv, Endpoint, InUse
<1>4. ref' \in [Holders -> Objects \cup {None}]
  BY <1>2 DEF RegistryInv, TableInv, RegistryTypeOK
<1>5. Put(n, o, ep)
  BY <1>2
<1> HIDE DEF ep
<1> QED  BY <1>1, <1>2, <1>3, <1>4, <1>5, GrowInv

\* AddConsumer stores a record with a consumer.
LEMMA AddConsumerInv ==
    ASSUME RegistryInv, NEW c \in Consumers, AddConsumer(c)
    PROVE  RegistryInv'
<1> DEFINE n == EndpointOf[c]
<1>1. n \in Names
  BY RegistryAssumption DEF Sessions
<1>2. PICK o \in Objects : /\ GetOrCreate(n, o)
                           /\ Put(n, o, [RecordOf(n, o) EXCEPT !.consumers = @ \cup {c}])
                           /\ UNCHANGED ref
  BY DEF AddConsumer
<1> HIDE DEF n
<1> DEFINE ep == [RecordOf(n, o) EXCEPT !.consumers = @ \cup {c}]
<1>3. ep \in Endpoint /\ InUse(ep) /\ ep.waiters = RecordOf(n, o).waiters
  BY <1>1, RecordType DEF RegistryInv, TableInv, Endpoint, InUse
<1>4. ref' \in [Holders -> Objects \cup {None}]
  BY <1>2 DEF RegistryInv, TableInv, RegistryTypeOK
<1>5. Put(n, o, ep)
  BY <1>2
<1> HIDE DEF ep
<1> QED  BY <1>1, <1>2, <1>3, <1>4, <1>5, GrowInv

\* WaitForProvider enrols in the same critical section that finds the struct.
LEMMA EnrollInv ==
    ASSUME RegistryInv, NEW st \in Streams, Enroll(st)
    PROVE  RegistryInv'
<1> DEFINE n == StreamEndpoint(st)
<1>1. n \in Names
  BY RegistryAssumption DEF Sessions, StreamEndpoint
<1>2. PICK o \in Objects : /\ GetOrCreate(n, o)
                           /\ Put(n, o, [RecordOf(n, o) EXCEPT !.waiters = @ \cup {st}])
                           /\ ref' = [ref EXCEPT ![st] = o]
  BY DEF Enroll
<1>3. StreamEndpoint(st)' = n
  BY DEF StreamEndpoint
<1> HIDE DEF n
<1> DEFINE ep == [RecordOf(n, o) EXCEPT !.waiters = @ \cup {st}]
<1>4. ep \in Endpoint /\ InUse(ep) /\ ep.waiters = RecordOf(n, o).waiters \cup {st}
  BY <1>1, RecordType DEF RegistryInv, TableInv, Endpoint, InUse
<1>5. /\ ref' \in [Holders -> Objects \cup {None}]
      /\ ref'[st] = o
      /\ \A x \in Holders : x # st => ref'[x] = ref[x]
  BY <1>2 DEF RegistryInv, TableInv, RegistryTypeOK, Holders
<1>6. WaitsAt(st, ref[st])'
  BY <1>1, <1>2, <1>3, <1>4, <1>5 DEF WaitsAt, Put, RegistryInv, TableInv, RegistryTypeOK, StreamEndpoint
<1>7. Put(n, o, ep)
  BY <1>2
<1> HIDE DEF ep
<1>8. /\ \A x \in Streams : x # st => ref'[x] = ref[x]
      /\ \A c \in Consumers : ref'[c] = ref[c]
  BY <1>5, RegistryAssumption DEF Holders
<1> QED  BY <1>1, <1>2, <1>4, <1>5, <1>6, <1>7, <1>8, GrowInv

\* RemoveProvider clears a record except for its waiters, who keep it in use.
LEMMA RemoveProviderInv ==
    ASSUME RegistryInv, NEW p \in Providers, RemoveProvider(p)
    PROVE  RegistryInv'
<1>1. EndpointOf[p] \in Names
  BY RegistryAssumption DEF Sessions
<1>2. CASE ~ MayRemove(p)
  BY <1>2, UnchangedInv DEF RemoveProvider, registryVars
<1>3. CASE MayRemove(p)
  <2>1. PICK n \in Names, o \in Objects :
          /\ endpoints[n] = o
          /\ PutOrDelete(n, o, [heap[o] EXCEPT !.provider = None, !.consumers = {}, !.yamuxes = {}])
    BY <1>1, <1>3 DEF RemoveProvider, MayRemove, RegistryInv, TableInv, RegistryTypeOK
  <2> DEFINE ep == [heap[o] EXCEPT !.provider = None, !.consumers = {}, !.yamuxes = {}]
  <2>2. ep \in Endpoint /\ ep.waiters = heap[o].waiters
    BY DEF RegistryInv, TableInv, RegistryTypeOK, Endpoint
  <2>3. UNCHANGED ref /\ ref' \in [Holders -> Objects \cup {None}]
    BY DEF RemoveProvider, RegistryInv, TableInv, RegistryTypeOK
  <2>4. PutOrDelete(n, o, ep)
    BY <2>1
  <2> HIDE DEF ep
  <2> QED  BY <2>1, <2>2, <2>3, <2>4, ShrinkInv
<1> QED  BY <1>2, <1>3

\* Forget removes one session and leaves the waiters alone.
LEMMA ForgetInv ==
    ASSUME RegistryInv, NEW s \in Sessions, Forget(s)
    PROVE  RegistryInv'
<1>1. EndpointOf[s] \in Names
  BY RegistryAssumption
<1>2. CASE endpoints[EndpointOf[s]] = None
  BY <1>2, UnchangedInv DEF Forget, registryVars
<1>3. CASE endpoints[EndpointOf[s]] # None
  <2>1. PICK n \in Names, o \in Objects :
          /\ endpoints[n] = o
          /\ PutOrDelete(n, o, [heap[o] EXCEPT !.provider = IF @ = s THEN None ELSE @,
                                               !.consumers = @ \ {s}])
    BY <1>1, <1>3 DEF Forget, RegistryInv, TableInv, RegistryTypeOK
  <2> DEFINE ep == [heap[o] EXCEPT !.provider = IF @ = s THEN None ELSE @, !.consumers = @ \ {s}]
  <2>2. ep \in Endpoint /\ ep.waiters = heap[o].waiters
    BY DEF RegistryInv, TableInv, RegistryTypeOK, Endpoint
  <2>3. UNCHANGED ref /\ ref' \in [Holders -> Objects \cup {None}]
    BY DEF Forget, RegistryInv, TableInv, RegistryTypeOK
  <2>4. PutOrDelete(n, o, ep)
    BY <2>1
  <2> HIDE DEF ep
  <2> QED  BY <2>1, <2>2, <2>3, <2>4, ShrinkInv
<1> QED  BY <1>2, <1>3

\* UnregisterConsumerYamux removes one yamux session and leaves the waiters alone.
LEMMA UnregisterInv ==
    ASSUME RegistryInv, NEW c \in Consumers, UnregisterConsumerYamux(c)
    PROVE  RegistryInv'
<1>1. EndpointOf[c] \in Names
  BY RegistryAssumption DEF Sessions
<1>2. CASE endpoints[EndpointOf[c]] = None
  BY <1>2, UnchangedInv DEF UnregisterConsumerYamux, registryVars
<1>3. CASE endpoints[EndpointOf[c]] # None
  <2>1. PICK n \in Names, o \in Objects :
          /\ endpoints[n] = o
          /\ PutOrDelete(n, o, [heap[o] EXCEPT !.yamuxes = @ \ {c}])
    BY <1>1, <1>3 DEF UnregisterConsumerYamux, RegistryInv, TableInv, RegistryTypeOK
  <2> DEFINE ep == [heap[o] EXCEPT !.yamuxes = @ \ {c}]
  <2>2. ep \in Endpoint /\ ep.waiters = heap[o].waiters
    BY DEF RegistryInv, TableInv, RegistryTypeOK, Endpoint
  <2>3. UNCHANGED ref /\ ref' \in [Holders -> Objects \cup {None}]
    BY DEF UnregisterConsumerYamux, RegistryInv, TableInv, RegistryTypeOK
  <2>4. PutOrDelete(n, o, ep)
    BY <2>1
  <2> HIDE DEF ep
  <2> QED  BY <2>1, <2>2, <2>3, <2>4, ShrinkInv
<1> QED  BY <1>2, <1>3

\* A waiter that leaves uncounts itself and no other.
LEMMA LeaveInv ==
    ASSUME RegistryInv, NEW st \in Streams, Leave(st)
    PROVE  RegistryInv'
<1>1. PICK n \in Names, o \in Objects :
        /\ endpoints[n] = o
        /\ PutOrDelete(n, o, [heap[o] EXCEPT !.waiters = @ \ {st}])
  BY RegistryAssumption DEF Leave, RegistryInv, TableInv, RegistryTypeOK, WaiterNeverOrphaned,
       StreamEndpoint, Sessions, Holders
<1> DEFINE ep == [heap[o] EXCEPT !.waiters = @ \ {st}]
<1>2. ep \in Endpoint /\ ep.waiters = heap[o].waiters \ {st}
  BY DEF RegistryInv, TableInv, RegistryTypeOK, Endpoint
<1>3. PutOrDelete(n, o, ep)
  BY <1>1
<1> HIDE DEF ep
<1>4. /\ ref' \in [Holders -> Objects \cup {None}]
      /\ ref'[st] = None
      /\ \A x \in Streams : ref'[x] \in {None, ref[x]}
      /\ \A c \in Consumers : ref'[c] = ref[c]
  BY RegistryAssumption DEF Leave, RegistryInv, TableInv, RegistryTypeOK, Holders
<1>5. \A x \in heap[o].waiters : x \in ep.waiters \/ ref'[x] = None
  BY <1>2, <1>4
<1> QED  BY <1>1, <1>2, <1>3, <1>4, <1>5, ShrinkInv

\* A consumer's pointer is no concern of the table's.
LEMMA RegisterLookupInv ==
    ASSUME RegistryInv, NEW c \in Consumers, RegisterLookup(c)
    PROVE  RegistryInv'
<1>1. RegistryTypeOK'
  BY RegistryAssumption DEF RegisterLookup, RegistryInv, TableInv, RegistryTypeOK, Sessions
<1>2. EntriesInUse' /\ TableBounded'
  BY DEF RegisterLookup, RegistryInv, TableInv, EntriesInUse, TableBounded, Live, InUse
<1>3. WaiterNeverOrphaned'
  BY RegistryAssumption DEF RegisterLookup, RegistryInv, TableInv, RegistryTypeOK,
       WaiterNeverOrphaned, StreamEndpoint, Holders
<1>4. PointersOwn'
  BY RegistryAssumption DEF RegisterLookup, RegistryInv, TableInv, RegistryTypeOK, PointersOwn,
       Sessions, Holders
<1> QED  BY <1>1, <1>2, <1>3, <1>4 DEF RegistryInv, TableInv

\* The write through a pointer that may be orphaned touches nothing but one
\* struct's yamux sessions, so it cannot put an entry out of use.
LEMMA RegisterStoreInv ==
    ASSUME RegistryInv, NEW c \in Consumers, RegisterStore(c)
    PROVE  RegistryInv'
<1>1. PICK o \in Objects : /\ heap' = [heap EXCEPT ![o].yamuxes = @ \cup {c}]
                           /\ ref' = [ref EXCEPT ![c] = None]
                           /\ UNCHANGED endpoints
  BY DEF RegisterStore, RegistryInv, TableInv, RegistryTypeOK, Holders
<1>2. heap' \in [Objects -> Endpoint]
  BY <1>1 DEF RegistryInv, TableInv, RegistryTypeOK, Endpoint
<1>3. \A x \in Objects : /\ heap'[x].waiters = heap[x].waiters
                          /\ InUse(heap[x]) => InUse(heap'[x])
  BY <1>1 DEF RegistryInv, TableInv, RegistryTypeOK, Endpoint, InUse
<1>4. RegistryTypeOK'
  BY <1>1, <1>2 DEF RegistryInv, TableInv, RegistryTypeOK
<1>5. EntriesInUse' /\ TableBounded'
  BY <1>1, <1>3 DEF RegistryInv, TableInv, RegistryTypeOK, EntriesInUse, TableBounded, Live, InUse
<1>6. WaiterNeverOrphaned'
  BY <1>1, <1>3, RegistryAssumption DEF RegistryInv, TableInv, RegistryTypeOK,
       WaiterNeverOrphaned, StreamEndpoint, Holders
<1>7. PointersOwn'
  BY <1>1 DEF RegistryInv, TableInv, RegistryTypeOK, PointersOwn, Holders
<1> QED  BY <1>4, <1>5, <1>6, <1>7 DEF RegistryInv, TableInv

\* The empty table satisfies the invariant.
LEMMA RegistryInitInv == RegistryInit => RegistryInv
<1> SUFFICES ASSUME RegistryInit PROVE RegistryInv
  OBVIOUS
<1> USE RegistryAssumption
<1>1. RegistryTypeOK
  BY DEF RegistryInit, RegistryTypeOK, NewEndpoint, Endpoint
<1>2. Live = {}
  BY DEF RegistryInit, Live
<1>3. EntriesInUse /\ TableBounded
  BY <1>2, FS_EmptySet DEF EntriesInUse, TableBounded
<1>4. WaiterNeverOrphaned
  BY DEF RegistryInit, WaiterNeverOrphaned, Holders
<1>5. PointersOwn
  BY DEF RegistryInit, PointersOwn, Holders
<1> QED  BY <1>1, <1>3, <1>4, <1>5 DEF RegistryInv, TableInv

\* Every call preserves the invariant.
LEMMA RegistryNextInv == RegistryInv /\ [RegistryNext]_registryVars => RegistryInv'
<1> SUFFICES ASSUME RegistryInv, [RegistryNext]_registryVars PROVE RegistryInv'
  OBVIOUS
<1>1. ASSUME NEW p \in Providers, SetProvider(p) PROVE RegistryInv'
  BY <1>1, SetProviderInv
<1>2. ASSUME NEW p \in Providers, SetProviderFails(p) PROVE RegistryInv'
  BY <1>2, UnchangedInv DEF SetProviderFails
<1>3. ASSUME NEW p \in Providers, RemoveProvider(p) PROVE RegistryInv'
  BY <1>3, RemoveProviderInv
<1>4. ASSUME NEW s \in Sessions, Forget(s) PROVE RegistryInv'
  BY <1>4, ForgetInv
<1>5. ASSUME NEW c \in Consumers, AddConsumer(c) PROVE RegistryInv'
  BY <1>5, AddConsumerInv
<1>6. ASSUME NEW c \in Consumers, AddConsumerFails(c) PROVE RegistryInv'
  BY <1>6, UnchangedInv DEF AddConsumerFails
<1>7. ASSUME NEW c \in Consumers, RegisterLookup(c) PROVE RegistryInv'
  BY <1>7, RegisterLookupInv
<1>8. ASSUME NEW c \in Consumers, RegisterStore(c) PROVE RegistryInv'
  BY <1>8, RegisterStoreInv
<1>9. ASSUME NEW c \in Consumers, UnregisterConsumerYamux(c) PROVE RegistryInv'
  BY <1>9, UnregisterInv
<1>10. ASSUME NEW st \in Streams, Enroll(st) PROVE RegistryInv'
  BY <1>10, EnrollInv
<1>11. ASSUME NEW st \in Streams, EnrollFails(st) PROVE RegistryInv'
  BY <1>11, UnchangedInv DEF EnrollFails
<1>12. ASSUME NEW st \in Streams, Leave(st) PROVE RegistryInv'
  BY <1>12, LeaveInv
<1>13. CASE UNCHANGED registryVars
  BY <1>13, UnchangedInv
<1> QED
  BY <1>1, <1>2, <1>3, <1>4, <1>5, <1>6, <1>7, <1>8, <1>9, <1>10, <1>11, <1>12, <1>13
     DEF RegistryNext

(***************************************************************************)
(* The table is a directory: what each method does to the records.         *)
(***************************************************************************)

\* The names in use are those in the table.
LEMMA LiveInUse == ASSUME TableInv PROVE Dir!InUse = Live
<1>1. \A n \in Live : RecordAt(n) # Dir!Empty
  BY DEF TableInv, EntriesInUse, Live, InUse, RecordAt, Dir!Empty
<1>2. \A n \in Names \ Live : RecordAt(n) = Dir!Empty
  BY DEF Live, RecordAt, NewEndpoint, Dir!Empty
<1> QED  BY <1>1, <1>2 DEF Dir!InUse, Live

\* A name's record is always an Endpoint.
LEMMA RecordAtType == ASSUME TableInv, NEW n \in Names PROVE RecordAt(n) \in Endpoint
BY DEF TableInv, RegistryTypeOK, RecordAt, NewEndpoint, Endpoint

\* getOrCreateLocked returns the name's record, and there is room for it.
LEMMA Created ==
    ASSUME TableInv, NEW n \in Names, NEW o \in Objects, GetOrCreate(n, o)
    PROVE  RecordOf(n, o) = RecordAt(n) /\ Dir!Room(n)
<1>1. RecordOf(n, o) = RecordAt(n)
  BY RegistryAssumption DEF TableInv, RegistryTypeOK, GetOrCreate, RecordOf, RecordAt
<1>2. IsFiniteSet(Live) /\ Cardinality(Live) \in Nat
  BY RegistryAssumption, FS_Subset, FS_CardinalityType DEF Live
<1>3. n \in Live \/ Cardinality(Live) < MaxEndpoints
  BY <1>2, RegistryAssumption DEF GetOrCreate, HasRoom, Live
<1>4. Dir!Cardinality(Live) = Cardinality(Live)
  BY DEF Dir!Cardinality, Cardinality
<1> QED  BY <1>1, <1>3, <1>4, LiveInUse DEF Dir!Room

\* The directory with another record for one name.
Records == [n \in Names |-> RecordAt(n)]

Becomes(n, ep) == Records' = [Records EXCEPT ![n] = ep]

\* A store into the struct of a name changes the record of that name only.
LEMMA PutRecord ==
    ASSUME TableInv, NEW n \in Names, NEW o \in Objects, NEW ep,
           GetOrCreate(n, o), Put(n, o, ep)
    PROVE  Becomes(n, ep)
<1>1. \A m \in Names : RecordAt(m)' = IF m = n THEN ep ELSE RecordAt(m)
  BY RegistryAssumption DEF TableInv, RegistryTypeOK, GetOrCreate, Unused, Put, RecordAt
<1> QED  BY <1>1 DEF Becomes, Records

\* deleteIfEmptyLocked makes no difference to any record: what it deletes is
\* as empty as a name that is not there.
LEMMA PutOrDeleteRecord ==
    ASSUME TableInv, NEW n \in Names, NEW o \in Objects, endpoints[n] = o,
           NEW ep \in Endpoint, PutOrDelete(n, o, ep)
    PROVE  Becomes(n, ep)
<1>1. ~ InUse(ep) => ep = NewEndpoint
  BY DEF InUse, NewEndpoint, Endpoint
<1>2. \A m \in Names : RecordAt(m)' = IF m = n THEN ep ELSE RecordAt(m)
  BY <1>1, RegistryAssumption DEF TableInv, RegistryTypeOK, PutOrDelete, RecordAt
<1> QED  BY <1>2 DEF Becomes, Records

\* SetProvider.
LEMMA SetProviderDir ==
    ASSUME TableInv, NEW p \in Providers, SetProvider(p)
    PROVE  Dir!SetProvider(p)
<1>1. PICK n \in Names, o \in Objects :
        /\ n = EndpointOf[p] /\ GetOrCreate(n, o) /\ RecordOf(n, o).provider = None
        /\ Put(n, o, [RecordOf(n, o) EXCEPT !.provider = p])
  BY RegistryAssumption DEF SetProvider, Sessions
<1>2. RecordOf(n, o) = RecordAt(n) /\ Dir!Room(n)
  BY <1>1, Created
<1>3. Becomes(n, [RecordAt(n) EXCEPT !.provider = p])
  BY <1>1, <1>2, PutRecord
<1> QED  BY <1>1, <1>2, <1>3 DEF Becomes, Records, Dir!SetProvider

\* AddConsumer.
LEMMA AddConsumerDir ==
    ASSUME TableInv, NEW c \in Consumers, AddConsumer(c)
    PROVE  Dir!AddConsumer(c)
<1>1. PICK n \in Names, o \in Objects :
        /\ n = EndpointOf[c] /\ GetOrCreate(n, o)
        /\ Put(n, o, [RecordOf(n, o) EXCEPT !.consumers = @ \cup {c}])
  BY RegistryAssumption DEF AddConsumer, Sessions
<1>2. RecordOf(n, o) = RecordAt(n) /\ Dir!Room(n)
  BY <1>1, Created
<1>3. Becomes(n, [RecordAt(n) EXCEPT !.consumers = @ \cup {c}])
  BY <1>1, <1>2, PutRecord
<1> QED  BY <1>1, <1>2, <1>3 DEF Becomes, Records, Dir!AddConsumer

\* WaitForProvider, on its way in.
LEMMA EnrollDir ==
    ASSUME TableInv, NEW st \in Streams, Enroll(st)
    PROVE  Dir!Enroll(st)
<1>1. PICK n \in Names, o \in Objects :
        /\ n = EndpointOf[OwnerOf[st]] /\ GetOrCreate(n, o)
        /\ Put(n, o, [RecordOf(n, o) EXCEPT !.waiters = @ \cup {st}])
  BY RegistryAssumption DEF Enroll, StreamEndpoint, Sessions
<1>2. RecordOf(n, o) = RecordAt(n) /\ Dir!Room(n)
  BY <1>1, Created
<1>3. Becomes(n, [RecordAt(n) EXCEPT !.waiters = @ \cup {st}])
  BY <1>1, <1>2, PutRecord
<1> QED  BY <1>1, <1>2, <1>3 DEF Becomes, Records, Dir!Enroll

\* RemoveProvider, which may find nothing to remove.
LEMMA RemoveProviderDir ==
    ASSUME TableInv, NEW p \in Providers, RemoveProvider(p)
    PROVE  IF MayRemove(p) THEN Dir!RemoveProvider(p) ELSE UNCHANGED Records
<1>1. CASE ~ MayRemove(p)
  BY <1>1 DEF RemoveProvider, Records, RecordAt
<1>2. CASE MayRemove(p)
  <2>1. PICK n \in Names, o \in Objects :
          /\ n = EndpointOf[p] /\ endpoints[n] = o /\ heap[o].provider \in {None, p}
          /\ PutOrDelete(n, o, [heap[o] EXCEPT !.provider = None, !.consumers = {}, !.yamuxes = {}])
    BY <1>2, RegistryAssumption DEF RemoveProvider, MayRemove, TableInv, RegistryTypeOK, Sessions
  <2>2. heap[o] = RecordAt(n) /\ RecordAt(n) \in Endpoint
    BY <2>1, RecordAtType, RegistryAssumption DEF RecordAt
  <2>3. [heap[o] EXCEPT !.provider = None, !.consumers = {}, !.yamuxes = {}] \in Endpoint
    BY <2>2 DEF Endpoint
  <2>4. Becomes(n, [heap[o] EXCEPT !.provider = None, !.consumers = {}, !.yamuxes = {}])
    BY <2>1, <2>3, PutOrDeleteRecord
  <2> QED  BY <1>2, <2>1, <2>2, <2>4 DEF Becomes, Records, Dir!RemoveProvider
<1> QED  BY <1>1, <1>2

\* Forget, which may find nothing to forget.
LEMMA ForgetDir ==
    ASSUME TableInv, NEW s \in Sessions, Forget(s)
    PROVE  Dir!Forget(s)
<1>1. PICK n \in Names : n = EndpointOf[s]
  BY RegistryAssumption
<1>2. RecordAt(n) \in Endpoint
  BY RecordAtType
<1> DEFINE ep == [RecordAt(n) EXCEPT !.provider = IF @ = s THEN None ELSE @,
                                     !.consumers = @ \ {s}]
<1>3. ep \in Endpoint
  BY <1>2 DEF Endpoint
<1>4. CASE endpoints[n] = None
  <2>1. UNCHANGED Records
    BY <1>1, <1>4 DEF Forget, Records, RecordAt
  <2>2. RecordAt(n) = NewEndpoint
    BY <1>4 DEF RecordAt
  <2>3. NewEndpoint.consumers \ {s} = NewEndpoint.consumers
    BY DEF NewEndpoint
  <2>4. (IF NewEndpoint.provider = s THEN None ELSE NewEndpoint.provider) = NewEndpoint.provider
    BY DEF NewEndpoint
  <2>5. ep = RecordAt(n)
    <3>1. [NewEndpoint EXCEPT !.provider = NewEndpoint.provider,
                              !.consumers = NewEndpoint.consumers] = NewEndpoint
      BY DEF NewEndpoint
    <3> QED  BY <2>2, <2>3, <2>4, <3>1
  <2>6. Becomes(n, RecordAt(n))
    BY <2>1 DEF Becomes, Records
  <2> QED  BY <1>1, <2>5, <2>6 DEF Becomes, Records, Dir!Forget
<1>5. CASE endpoints[n] # None
  <2>1. PICK o \in Objects : endpoints[n] = o /\ heap[o] = RecordAt(n) /\ PutOrDelete(n, o, ep)
    BY <1>1, <1>5 DEF Forget, RecordAt, TableInv, RegistryTypeOK
  <2>2. Becomes(n, ep)
    BY <1>3, <2>1, PutOrDeleteRecord
  <2> QED  BY <1>1, <2>2 DEF Becomes, Records, Dir!Forget
<1> QED  BY <1>4, <1>5

\* UnregisterConsumerYamux.
LEMMA UnregisterDir ==
    ASSUME TableInv, NEW c \in Consumers, UnregisterConsumerYamux(c)
    PROVE  Dir!UnregisterConsumerYamux(c)
<1>1. PICK n \in Names : n = EndpointOf[c]
  BY RegistryAssumption DEF Sessions
<1>2. RecordAt(n) \in Endpoint
  BY RecordAtType
<1> DEFINE ep == [RecordAt(n) EXCEPT !.yamuxes = @ \ {c}]
<1>3. ep \in Endpoint
  BY <1>2 DEF Endpoint
<1>4. CASE endpoints[n] = None
  <2>1. ep = RecordAt(n) /\ UNCHANGED Records
    BY <1>1, <1>4 DEF UnregisterConsumerYamux, Records, RecordAt, NewEndpoint
  <2> QED  BY <1>1, <2>1 DEF Records, Dir!UnregisterConsumerYamux
<1>5. CASE endpoints[n] # None
  <2>1. PICK o \in Objects : endpoints[n] = o /\ heap[o] = RecordAt(n) /\ PutOrDelete(n, o, ep)
    BY <1>1, <1>5 DEF UnregisterConsumerYamux, RecordAt, TableInv, RegistryTypeOK
  <2>2. Becomes(n, ep)
    BY <1>3, <2>1, PutOrDeleteRecord
  <2> QED  BY <1>1, <2>2 DEF Becomes, Records, Dir!UnregisterConsumerYamux
<1> QED  BY <1>4, <1>5

\* A waiter that leaves.
LEMMA LeaveDir ==
    ASSUME RegistryInv, NEW st \in Streams, Leave(st)
    PROVE  Dir!Leave(st)
<1>1. PICK n \in Names, o \in Objects :
        /\ n = EndpointOf[OwnerOf[st]] /\ endpoints[n] = o /\ st \in heap[o].waiters
        /\ PutOrDelete(n, o, [heap[o] EXCEPT !.waiters = @ \ {st}])
  BY RegistryAssumption DEF Leave, RegistryInv, TableInv, RegistryTypeOK, WaiterNeverOrphaned,
       StreamEndpoint, Sessions, Holders
<1>2. heap[o] = RecordAt(n) /\ RecordAt(n) \in Endpoint
  BY <1>1, RecordAtType, RegistryAssumption DEF RegistryInv, RecordAt
<1>3. [heap[o] EXCEPT !.waiters = @ \ {st}] \in Endpoint
  BY <1>2 DEF Endpoint
<1>4. Becomes(n, [heap[o] EXCEPT !.waiters = @ \ {st}])
  BY <1>1, <1>3, PutOrDeleteRecord DEF RegistryInv
<1> QED  BY <1>1, <1>2, <1>4 DEF Becomes, Records, Dir!Leave

\* RegisterConsumerYamux stores in its own name's record, or in a struct that
\* is no name's any more.
LEMMA RegisterStoreDir ==
    ASSUME RegistryInv, NEW c \in Consumers, RegisterStore(c)
    PROVE  Dir!RegisterConsumerYamux(c) \/ UNCHANGED Records
<1>1. PICK n \in Names, o \in Objects :
        /\ n = EndpointOf[c] /\ ref[c] = o
        /\ heap' = [heap EXCEPT ![o].yamuxes = @ \cup {c}] /\ UNCHANGED endpoints
  BY RegistryAssumption
     DEF RegisterStore, RegistryInv, TableInv, RegistryTypeOK, Sessions, Holders
<1>2. \A m \in Names : m # n => RecordAt(m)' = RecordAt(m)
  BY <1>1, RegistryAssumption
     DEF RegistryInv, TableInv, RegistryTypeOK, PointersOwn, RecordAt
<1>3. CASE endpoints[n] # o
  BY <1>1, <1>2, <1>3 DEF RegistryInv, TableInv, RegistryTypeOK, Records, RecordAt
<1>4. CASE endpoints[n] = o
  <2>1. RecordAt(n)' = [RecordAt(n) EXCEPT !.yamuxes = @ \cup {c}]
    BY <1>1, <1>4, RegistryAssumption DEF RegistryInv, TableInv, RegistryTypeOK, RecordAt
  <2>2. Becomes(n, [RecordAt(n) EXCEPT !.yamuxes = @ \cup {c}])
    BY <1>2, <2>1 DEF Becomes, Records
  <2>3. n \in Dir!InUse
    BY <1>4, LiveInUse, RegistryAssumption DEF RegistryInv, Live
  <2> QED  BY <1>1, <2>2, <2>3 DEF Becomes, Records, Dir!RegisterConsumerYamux
<1> QED  BY <1>3, <1>4

\* Every call of the registry is a step of the directory, or of nobody's concern.
LEMMA CallIsDirectory ==
    ASSUME RegistryInv, [RegistryNext]_registryVars
    PROVE  [Dir!Next]_Records
<1>1. ASSUME UNCHANGED <<endpoints, heap>> PROVE UNCHANGED Records
  BY <1>1 DEF Records, RecordAt
<1>2. ASSUME NEW p \in Providers, SetProvider(p) \/ SetProviderFails(p) \/ RemoveProvider(p)
      PROVE  [Dir!Next]_Records
  <2>1. Dir!SetProvider(p) \/ Dir!RemoveProvider(p) \/ UNCHANGED Records
    BY <1>1, <1>2, SetProviderDir, RemoveProviderDir DEF RegistryInv, SetProviderFails, registryVars
  <2> QED  BY <2>1 DEF Dir!Next
<1>3. ASSUME NEW s \in Sessions, Forget(s) PROVE [Dir!Next]_Records
  <2>1. Dir!Forget(s)
    BY <1>3, ForgetDir DEF RegistryInv
  <2> QED  BY <2>1 DEF Dir!Next, Sessions
<1>4. ASSUME NEW c \in Consumers,
             \/ AddConsumer(c) \/ AddConsumerFails(c) \/ RegisterLookup(c)
             \/ RegisterStore(c) \/ UnregisterConsumerYamux(c)
      PROVE  [Dir!Next]_Records
  <2>1. \/ Dir!AddConsumer(c) \/ Dir!RegisterConsumerYamux(c)
        \/ Dir!UnregisterConsumerYamux(c) \/ UNCHANGED Records
    BY <1>1, <1>4, AddConsumerDir, RegisterStoreDir, UnregisterDir
       DEF RegistryInv, AddConsumerFails, RegisterLookup, registryVars
  <2> QED  BY <2>1 DEF Dir!Next
<1>5. ASSUME NEW st \in Streams, Enroll(st) \/ EnrollFails(st) \/ Leave(st)
      PROVE  [Dir!Next]_Records
  <2>1. Dir!Enroll(st) \/ Dir!Leave(st) \/ UNCHANGED Records
    BY <1>1, <1>5, EnrollDir, LeaveDir DEF RegistryInv, EnrollFails, registryVars
  <2> QED  BY <2>1 DEF Dir!Next
<1>6. CASE UNCHANGED registryVars
  BY <1>1, <1>6 DEF registryVars
<1> QED  BY <1>2, <1>3, <1>4, <1>5, <1>6 DEF RegistryNext

-----------------------------------------------------------------------------

\* The inductive invariant of the table holds in every reachable state.
THEOREM RegistryInvariant == RegistrySpec => []RegistryInv
<1>1. RegistryInit => RegistryInv
  BY RegistryInitInv
<1>2. RegistryInv /\ [RegistryNext]_registryVars => RegistryInv'
  BY RegistryNextInv
<1> QED  BY <1>1, <1>2, PTL DEF RegistrySpec

\* The table is well typed and no two names share a struct.
THEOREM RegistryType == RegistrySpec => []RegistryTypeOK
<1>1. RegistryInv => RegistryTypeOK
  BY DEF RegistryInv, TableInv
<1> QED  BY <1>1, RegistryInvariant, PTL

\* WaitForProvider never sleeps on a struct that has left the table, whatever
\* the other goroutines do to the endpoint meanwhile.
THEOREM WaitersSafe == RegistrySpec => []WaiterNeverOrphaned
<1>1. RegistryInv => WaiterNeverOrphaned
  BY DEF RegistryInv
<1> QED  BY <1>1, RegistryInvariant, PTL

\* Every entry is held by someone: no sequence of calls leaks a name.
THEOREM NoEntryLeaks == RegistrySpec => []EntriesInUse
<1>1. RegistryInv => EntriesInUse
  BY DEF RegistryInv, TableInv
<1> QED  BY <1>1, RegistryInvariant, PTL

\* The table never exceeds maxEndpoints.
THEOREM TableStaysBounded == RegistrySpec => []TableBounded
<1>1. RegistryInv => TableBounded
  BY DEF RegistryInv, TableInv
<1> QED  BY <1>1, RegistryInvariant, PTL

\* The table implements the directory: which structs there are, and when they
\* are reclaimed, is nobody's business outside the registry.
THEOREM RegistryIsDirectory == RegistrySpec => DirectorySpec
<1>1. RegistryInit => Dir!Init
  BY DEF RegistryInit, RecordAt, NewEndpoint, Dir!Init, Dir!Empty
<1>2. RegistryInv /\ [RegistryNext]_registryVars => [Dir!Next]_Records
  BY CallIsDirectory
<1> QED  BY <1>1, <1>2, RegistryInvariant, PTL DEF RegistrySpec, DirectorySpec, Dir!Spec, Records

=============================================================================
