------------------------- MODULE ConsumerClient_proofs -------------------------
(***************************************************************************)
(* For every number of connections and sessions and every capacity: the    *)
(* queue holds the connections that wait for a session, each once, and     *)
(* never more than it has room for, however acceptLoop, the serveLoops of  *)
(* old and new sessions and the drain put in and take out; and nothing is  *)
(* dialled but on the session Run serves.                                  *)
(***************************************************************************)
EXTENDS ConsumerClient, SequenceTheorems, TLAPS

(***************************************************************************)
(* Queues without duplicates.                                              *)
(***************************************************************************)

\* The members of a sequence, by index.
LEMMA Members ==
    ASSUME NEW S, NEW q \in Seq(S)
    PROVE  /\ ToSet(q) = {q[i] : i \in 1..Len(q)}
           /\ IsInjective(q) <=> \A i, j \in 1..Len(q) : q[i] = q[j] => i = j
BY LenProperties DEF ToSet, IsInjective

\* A new member joins at the end.
LEMMA QueueAppend ==
    ASSUME NEW S, NEW q \in Seq(S), NEW k \in S, IsInjective(q), k \notin ToSet(q)
    PROVE  /\ Append(q, k) \in Seq(S)
           /\ Len(Append(q, k)) = Len(q) + 1
           /\ ToSet(Append(q, k)) = ToSet(q) \cup {k}
           /\ IsInjective(Append(q, k))
<1> DEFINE a == Append(q, k)
<1>1. /\ a \in Seq(S) /\ Len(a) = Len(q) + 1 /\ Len(q) \in Nat
      /\ \A i \in 1..Len(q) : a[i] = q[i]
      /\ a[Len(q) + 1] = k
  BY AppendProperties, LenProperties
<1>2. /\ ToSet(q) = {q[i] : i \in 1..Len(q)}
      /\ \A i, j \in 1..Len(q) : q[i] = q[j] => i = j
  BY Members
<1> HIDE DEF a
<1>3. ToSet(a) = {a[i] : i \in 1..Len(a)}
  BY <1>1, Members
<1>4. \A i \in 1..Len(a) : i \in 1..Len(q) \/ i = Len(q) + 1
  BY <1>1
<1>5. ToSet(a) = ToSet(q) \cup {k}
  <2>1. ASSUME NEW x \in ToSet(a) PROVE x \in ToSet(q) \cup {k}
    BY <1>1, <1>2, <1>3, <1>4, <2>1
  <2>2. ASSUME NEW x \in ToSet(q) PROVE x \in ToSet(a)
    <3>1. PICK i \in 1..Len(q) : x = q[i]
      BY <1>2
    <3> QED  BY <1>1, <1>3, <3>1
  <2>3. k \in ToSet(a)
    BY <1>1, <1>3
  <2> QED  BY <2>1, <2>2, <2>3
<1>6. \A i, j \in 1..Len(a) : a[i] = a[j] => i = j
  <2>1. \A i \in 1..Len(q) : q[i] # k
    BY <1>2
  <2> QED  BY <1>1, <1>2, <1>4, <2>1
<1>7. IsInjective(a)
  BY <1>1, <1>6, Members
<1> QED  BY <1>1, <1>5, <1>7 DEF a

\* The first member leaves; the others keep their order.
LEMMA QueueTail ==
    ASSUME NEW S, NEW q \in Seq(S), q # <<>>, IsInjective(q)
    PROVE  /\ Head(q) \in ToSet(q) /\ Head(q) \in S
           /\ Tail(q) \in Seq(S)
           /\ Len(Tail(q)) = Len(q) - 1 /\ Len(q) \in Nat
           /\ ToSet(Tail(q)) = ToSet(q) \ {Head(q)}
           /\ IsInjective(Tail(q))
<1> DEFINE t == Tail(q)
<1>1. /\ t \in Seq(S) /\ Len(t) = Len(q) - 1 /\ Len(q) \in Nat \ {0}
      /\ \A i \in 1..Len(t) : t[i] = q[i + 1]
      /\ Head(q) = q[1] /\ Head(q) \in S
  BY HeadTailProperties, LenProperties, EmptySeq
<1>2. /\ ToSet(q) = {q[i] : i \in 1..Len(q)}
      /\ \A i, j \in 1..Len(q) : q[i] = q[j] => i = j
  BY Members
<1> HIDE DEF t
<1>3. ToSet(t) = {t[i] : i \in 1..Len(t)}
  BY <1>1, Members
<1>4. ToSet(t) = ToSet(q) \ {Head(q)}
  <2>1. ASSUME NEW x \in ToSet(t) PROVE x \in ToSet(q) /\ x # Head(q)
    <3>1. PICK i \in 1..Len(t) : x = t[i]
      BY <1>3
    <3>2. i + 1 \in 1..Len(q) /\ x = q[i + 1] /\ i + 1 # 1 /\ 1 \in 1..Len(q)
      BY <1>1, <3>1
    <3> QED  BY <1>1, <1>2, <3>2
  <2>2. ASSUME NEW x \in ToSet(q), x # Head(q) PROVE x \in ToSet(t)
    <3>1. PICK i \in 1..Len(q) : x = q[i]
      BY <1>2
    <3>2. i # 1
      BY <1>1, <2>2, <3>1
    <3>3. i - 1 \in 1..Len(t) /\ t[i - 1] = q[(i - 1) + 1] /\ (i - 1) + 1 = i
      BY <1>1, <3>2
    <3> QED  BY <1>3, <3>1, <3>3
  <2> QED  BY <2>1, <2>2
<1>5. \A i, j \in 1..Len(t) : t[i] = t[j] => i = j
  <2> SUFFICES ASSUME NEW i \in 1..Len(t), NEW j \in 1..Len(t), t[i] = t[j] PROVE i = j
    OBVIOUS
  <2>1. i + 1 \in 1..Len(q) /\ j + 1 \in 1..Len(q) /\ q[i + 1] = q[j + 1]
    BY <1>1
  <2>2. i + 1 = j + 1
    BY <1>2, <2>1
  <2> QED  BY <2>2
<1>6. IsInjective(t)
  BY <1>1, <1>5, Members
<1>7. Head(q) \in ToSet(q)
  BY <1>1, <1>2
<1> QED  BY <1>1, <1>4, <1>6, <1>7 DEF t

(***************************************************************************)
(* The inductive invariant.                                                *)
(***************************************************************************)

ClientInv == TypeOK /\ queue \in Seq(Conns)

\* A step that leaves the queue alone and the connections in it queued.
LEMMA NotQueued ==
    ASSUME ClientInv, NEW k \in Conns, NEW from \in ConnState, NEW to \in ConnState,
           Becomes(k, from, to), from # "queued", to # "queued", queue' = queue
    PROVE  /\ conn' \in [Conns -> ConnState]
           /\ ToSet(queue') = {x \in Conns : conn'[x] = "queued"}
BY DEF ClientInv, TypeOK, Becomes

\* Taking the first connection out of the queue, whoever does it.
LEMMA Taken ==
    ASSUME ClientInv, queue # <<>>, NEW to \in ConnState, to # "queued",
           Becomes(Head(queue), "queued", to), queue' = Tail(queue)
    PROVE  /\ conn' \in [Conns -> ConnState]
           /\ ToSet(queue') = {x \in Conns : conn'[x] = "queued"}
           /\ IsInjective(queue') /\ Len(queue') <= QueueCap /\ queue' \in Seq(Conns)
<1>1. /\ Head(queue) \in Conns /\ Tail(queue) \in Seq(Conns)
      /\ Len(Tail(queue)) = Len(queue) - 1 /\ Len(queue) \in Nat
      /\ ToSet(Tail(queue)) = ToSet(queue) \ {Head(queue)}
      /\ IsInjective(Tail(queue))
  BY QueueTail DEF ClientInv, TypeOK
<1>2. Len(queue') <= QueueCap
  BY <1>1, ClientAssumption DEF ClientInv, TypeOK
<1>3. conn' \in [Conns -> ConnState] /\ ToSet(queue') = {x \in Conns : conn'[x] = "queued"}
  BY <1>1 DEF Becomes, ClientInv, TypeOK
<1> QED  BY <1>1, <1>2, <1>3

\* The queue is empty at first.
LEMMA ClientInit == Init => ClientInv
<1> SUFFICES ASSUME Init PROVE ClientInv
  OBVIOUS
<1>1. queue \in Seq(Conns) /\ Len(queue) = 0
  BY DEF Init
<1>2. ToSet(queue) = {} /\ IsInjective(queue)
  <2>1. 1..Len(queue) = {} /\ DOMAIN queue = 1..Len(queue)
    BY <1>1, LenProperties
  <2>2. \A x \in ToSet(queue) : FALSE
    BY <1>1, <2>1 DEF ToSet
  <2>3. IsInjective(queue)
    BY <1>1, <2>1, Members
  <2> QED  BY <2>2, <2>3
<1>3. {k \in Conns : conn[k] = "queued"} = {}
  BY DEF Init
<1>4. Len(queue) <= QueueCap /\ 0 \in 0..MaxRounds
  BY <1>1, ClientAssumption
<1>5. /\ conn \in [Conns -> ConnState] /\ servedBy \in [Conns -> 0..MaxRounds]
      /\ round \in 0..MaxRounds
  BY <1>4 DEF Init, ConnState
<1> QED  BY <1>1, <1>2, <1>3, <1>4, <1>5 DEF Init, ClientInv, TypeOK, RunState

\* What the environment does.
LEMMA OutsideInv ==
    ASSUME ClientInv,
           \/ Cancel \/ \E g \in Rounds : TransportFails(g) \/ YamuxCloses(g)
           \/ \E k \in Conns : ClientDials(k) \/ TunnelEnds(k)
    PROVE  ClientInv'
<1>1. CASE Cancel \/ \E g \in Rounds : TransportFails(g) \/ YamuxCloses(g)
  BY <1>1 DEF Cancel, TransportFails, YamuxCloses, session, ClientInv, TypeOK
<1>2. ASSUME NEW k \in Conns, ClientDials(k) \/ TunnelEnds(k) PROVE ClientInv'
  <2>1. /\ conn' \in [Conns -> ConnState]
        /\ ToSet(queue') = {x \in Conns : conn'[x] = "queued"}
    BY <1>2, NotQueued DEF ClientDials, TunnelEnds, ConnState
  <2> QED  BY <1>2, <2>1 DEF ClientDials, TunnelEnds, session, ClientInv, TypeOK
<1> QED  BY <1>1, <1>2

\* acceptLoop: it puts a connection in only if there is space.
LEMMA AcceptInv ==
    ASSUME ClientInv, AcceptStep \/ AcceptFails
    PROVE  ClientInv'
<1>1. CASE AcceptClosed \/ AcceptFails
  BY <1>1 DEF AcceptClosed, AcceptFails, session, ClientInv, TypeOK
<1>2. ASSUME NEW k \in Conns, Accept(k) \/ EnqueueCancelled(k) \/ QueueFull(k)
      PROVE  ClientInv'
  <2>1. /\ conn' \in [Conns -> ConnState]
        /\ ToSet(queue') = {x \in Conns : conn'[x] = "queued"}
    BY <1>2, NotQueued DEF Accept, EnqueueCancelled, QueueFull, ConnState
  <2> QED  BY <1>2, <2>1 DEF Accept, EnqueueCancelled, QueueFull, session, ClientInv, TypeOK
<1>3. ASSUME NEW k \in Conns, Enqueue(k) PROVE ClientInv'
  <2>1. k \notin ToSet(queue)
    BY <1>3 DEF Enqueue, Becomes, ClientInv, TypeOK
  <2>2. /\ queue' \in Seq(Conns)
        /\ Len(queue') = Len(queue) + 1
        /\ ToSet(queue') = ToSet(queue) \cup {k}
        /\ IsInjective(queue')
    BY <1>3, <2>1, QueueAppend DEF Enqueue, ClientInv, TypeOK
  <2>3. Len(queue') <= QueueCap
    BY <1>3, <2>2, LenProperties, ClientAssumption DEF Enqueue, HasSpace, ClientInv
  <2>4. conn' \in [Conns -> ConnState] /\ ToSet(queue') = {x \in Conns : conn'[x] = "queued"}
    BY <1>3, <2>2 DEF Enqueue, Becomes, ConnState, ClientInv, TypeOK
  <2> QED  BY <1>3, <2>2, <2>3, <2>4 DEF Enqueue, session, ClientInv, TypeOK
<1> QED  BY <1>1, <1>2, <1>3 DEF AcceptStep

\* Run, its reconnect loop and the drain.
LEMMA RunInv ==
    ASSUME ClientInv, Connect \/ RunStep
    PROVE  ClientInv'
<1>1. CASE Connect
  BY <1>1, ClientAssumption DEF Connect, ClientInv, TypeOK, RunState
<1>2. CASE OpenYamux \/ OpenYamuxFails \/ LoopReturns \/ RunReturns
  BY <1>2 DEF OpenYamux, OpenYamuxFails, LoopReturns, RunReturns, session, ClientInv, TypeOK,
       RunState
<1>3. CASE ServeReturns
  BY <1>3 DEF ServeReturns, ClientInv, TypeOK, RunState
<1>4. CASE Drain
  <2>1. /\ conn' \in [Conns -> ConnState]
        /\ ToSet(queue') = {x \in Conns : conn'[x] = "queued"}
        /\ IsInjective(queue') /\ Len(queue') <= QueueCap /\ queue' \in Seq(Conns)
    BY <1>4, Taken DEF Drain, ConnState
  <2> QED  BY <1>4, <2>1 DEF Drain, session, ClientInv, TypeOK
<1> QED  BY <1>1, <1>2, <1>3, <1>4
         DEF RunStep, ServeShutdown, ServeTransportFailed, ServePeerClosed

\* The serveLoops, of which several may take from the queue.
LEMMA LoopInv ==
    ASSUME ClientInv, NEW g \in Rounds, LoopStep(g)
    PROVE  ClientInv'
<1>1. CASE LoopStops(g)
  BY <1>1 DEF LoopStops, session, ClientInv, TypeOK
<1>2. CASE Take(g)
  <2>1. /\ conn' \in [Conns -> ConnState]
        /\ ToSet(queue') = {x \in Conns : conn'[x] = "queued"}
        /\ IsInjective(queue') /\ Len(queue') <= QueueCap /\ queue' \in Seq(Conns)
    BY <1>2, Taken DEF Take, ConnState
  <2>2. g \in 0..MaxRounds
    BY ClientAssumption DEF Rounds
  <2> QED  BY <1>2, <2>1, <2>2 DEF Take, session, ClientInv, TypeOK
<1> QED  BY <1>1, <1>2 DEF LoopStep

\* A connection's own goroutine.
LEMMA ConnInv ==
    ASSUME ClientInv, NEW k \in Conns, ConnStep(k)
    PROVE  ClientInv'
<1>1. /\ conn' \in [Conns -> ConnState]
      /\ ToSet(queue') = {x \in Conns : conn'[x] = "queued"}
  BY NotQueued DEF ConnStep, Dial, DialFails, ConnState
<1>2. 0 \in 0..MaxRounds
  BY ClientAssumption
<1> QED  BY <1>1, <1>2 DEF ConnStep, Dial, DialFails, session, ClientInv, TypeOK

\* Every step preserves the invariant.
LEMMA ClientNextInv == ClientInv /\ [Next]_vars => ClientInv'
<1> SUFFICES ASSUME ClientInv, [Next]_vars PROVE ClientInv'
  OBVIOUS
<1>1. CASE UNCHANGED vars
  BY <1>1 DEF vars, session, ClientInv, TypeOK
<1> QED  BY <1>1, OutsideInv, AcceptInv, RunInv, LoopInv, ConnInv DEF Next

\* The inductive invariant holds in every reachable state.
THEOREM ClientInvariant == Spec => []ClientInv
BY ClientInit, ClientNextInv, PTL DEF Spec

\* The queue holds exactly the queued connections, each once, and never more
\* than its capacity; every other variable keeps its type.
THEOREM ClientType == Spec => []TypeOK
<1>1. ClientInv => TypeOK
  BY DEF ClientInv
<1> QED  BY <1>1, ClientInvariant, PTL

(***************************************************************************)
(* Which session a connection is dialled on: Serve leaves no session open, *)
(* so the one that is open is the one Run serves.                          *)
(***************************************************************************)

OneSession == \A g \in Rounds : yamux[g] = "open" => g = round /\ run = "serving"

\* A connection in its handshake was taken by some round's serveLoop.
Assigned == \A k \in Conns : conn[k] = "handshake" => servedBy[k] \in Rounds

SessionInv == ClientInv /\ OneSession /\ Assigned

\* Serve opens its session when no other is open, and closes it on its way out.
LEMMA OneSessionStep == SessionInv /\ [Next]_vars => OneSession'
<1> SUFFICES ASSUME SessionInv, [Next]_vars PROVE OneSession'
  OBVIOUS
<1> USE DEF SessionInv, OneSession, ClientInv, TypeOK
<1>1. CASE Connect \/ OpenYamuxFails \/ LoopReturns \/ RunReturns
  BY <1>1 DEF Connect, OpenYamuxFails, LoopReturns, RunReturns, session
<1>2. CASE OpenYamux
  BY <1>2 DEF OpenYamux
<1>3. CASE ServeReturns
  BY <1>3 DEF ServeReturns
<1>4. ASSUME NEW g \in Rounds, YamuxCloses(g) PROVE OneSession'
  BY <1>4 DEF YamuxCloses
<1>5. CASE UNCHANGED <<yamux, round, run>>
  BY <1>5
<1> QED
  BY <1>1, <1>2, <1>3, <1>4, <1>5
  DEF Next, Cancel, RunStep, ServeShutdown, ServeTransportFailed, ServePeerClosed, Drain,
      AcceptStep, AcceptFails, AcceptClosed, Accept, Enqueue, EnqueueCancelled, QueueFull,
      TransportFails, LoopStep, LoopStops, Take, ClientDials, ConnStep, Dial, DialFails,
      TunnelEnds, session, vars

\* A connection enters its handshake with the round that took it, and leaves
\* the handshake when it forgets it.
LEMMA AssignedStep == SessionInv /\ [Next]_vars => Assigned'
<1> SUFFICES ASSUME SessionInv, [Next]_vars PROVE Assigned'
  OBVIOUS
<1> USE DEF SessionInv, Assigned, ClientInv, TypeOK
<1>1. ASSUME NEW x \in Conns, NEW from \in ConnState, NEW to \in ConnState,
             Becomes(x, from, to), to # "handshake", servedBy' = servedBy
      PROVE  Assigned'
  BY <1>1 DEF Becomes
<1>2. ASSUME NEW x \in Conns,
             \/ Accept(x) \/ Enqueue(x) \/ EnqueueCancelled(x) \/ QueueFull(x)
             \/ ClientDials(x) \/ TunnelEnds(x)
      PROVE  Assigned'
  BY <1>1, <1>2 DEF Accept, Enqueue, EnqueueCancelled, QueueFull, ClientDials, TunnelEnds,
       ConnState
<1>3. ASSUME NEW x \in Conns, ConnStep(x) PROVE Assigned'
  BY <1>3 DEF ConnStep, Dial, DialFails, Becomes
<1>4. ASSUME NEW g \in Rounds, Take(g) PROVE Assigned'
  BY <1>4 DEF Take, Becomes
<1>5. CASE Drain
  BY <1>5 DEF Drain, Becomes
<1>6. CASE UNCHANGED <<conn, servedBy>>
  BY <1>6
<1> QED
  BY <1>2, <1>3, <1>4, <1>5, <1>6
  DEF Next, Cancel, Connect, RunStep, OpenYamux, OpenYamuxFails, ServeReturns, ServeShutdown,
      ServeTransportFailed, ServePeerClosed, LoopReturns, RunReturns, AcceptStep, AcceptFails,
      AcceptClosed, TransportFails, YamuxCloses, LoopStep, LoopStops, vars

\* The strengthened invariant holds in every reachable state: the only session
\* that is open is the one Run serves.
THEOREM SessionInvariant == Spec => []SessionInv
<1>1. Init => SessionInv
  BY ClientInit DEF Init, SessionInv, OneSession, Assigned
<1>2. SessionInv /\ [Next]_vars => SessionInv'
  BY ClientNextInv, OneSessionStep, AssignedStep DEF SessionInv
<1> QED  BY <1>1, <1>2, PTL DEF Spec

Tunnelled(k) == conn[k] = "handshake" /\ conn'[k] = "tunnelled"

\* Only Dial tunnels a connection, and only on a session that is open.
LEMMA OnlyDial ==
    ASSUME SessionInv, [Next]_vars, NEW k \in Conns, Tunnelled(k)
    PROVE  run = "serving" /\ servedBy[k] = round
<1> USE DEF Tunnelled, SessionInv, ClientInv, TypeOK
<1>1. ASSUME NEW x \in Conns, Dial(x) PROVE run = "serving" /\ servedBy[k] = round
  <2>1. x = k /\ yamux[servedBy[k]] = "open"
    BY <1>1 DEF Dial, Becomes
  <2>2. servedBy[k] \in Rounds
    BY <2>1 DEF Assigned
  <2> QED  BY <2>1, <2>2 DEF OneSession
<1>2. ASSUME NEW x \in Conns, NEW from \in ConnState, NEW to \in ConnState,
             Becomes(x, from, to), to # "tunnelled"
      PROVE  FALSE
  BY <1>2 DEF Becomes
<1>3. ASSUME Drain \/ \E g \in Rounds : Take(g) PROVE FALSE
  BY <1>3 DEF Take, Drain, Becomes
<1>4. ASSUME NEW x \in Conns,
             \/ Accept(x) \/ Enqueue(x) \/ EnqueueCancelled(x) \/ QueueFull(x)
             \/ ClientDials(x) \/ DialFails(x) \/ TunnelEnds(x)
      PROVE  FALSE
  BY <1>2, <1>4 DEF Accept, Enqueue, EnqueueCancelled, QueueFull, ClientDials, DialFails,
       TunnelEnds, ConnState
<1>5. CASE conn' = conn
  BY <1>5
<1> QED
  BY <1>1, <1>3, <1>4, <1>5
  DEF Next, Cancel, Connect, RunStep, OpenYamux, OpenYamuxFails, ServeReturns, ServeShutdown,
      ServeTransportFailed, ServePeerClosed, LoopReturns, RunReturns, AcceptStep, AcceptFails,
      AcceptClosed, ConnStep, TransportFails, YamuxCloses, LoopStep, LoopStops, vars

\* Although the serveLoops and handshakes of several rounds overlap, nothing
\* is tunnelled over a session that Serve has left: a stream is opened on the
\* session Run is serving, or not at all.
THEOREM DialledOnCurrent == Spec => DialsOnTheCurrentSession
<1>1. SessionInv /\ [Next]_vars
          => [\A k \in Conns : conn[k] = "handshake" /\ conn'[k] = "tunnelled"
                  => run = "serving" /\ servedBy[k] = round]_vars
  BY OnlyDial DEF Tunnelled
<1> QED  BY <1>1, SessionInvariant, PTL DEF Spec, DialsOnTheCurrentSession

=============================================================================
