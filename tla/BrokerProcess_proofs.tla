------------------------- MODULE BrokerProcess_proofs -------------------------
(***************************************************************************)
(* For every set of sessions and every way their requests, the sweeper,    *)
(* the reaper and the exit of the process fall between the steps of Stop:  *)
(* what Stop can leave behind is at most a session that was still          *)
(* connecting when the drain's deadline had passed and Stop took its list. *)
(***************************************************************************)
EXTENDS BrokerProcess, TLAPS

\* A session is stored and ended once, after its only connect request.
Once ==
    /\ \A s \in store \cup ended : connect[s] = "over"
    /\ store \cap ended = {}

\* The server takes requests until Stop begins.
Door == http = "serving" <=> stop = "idle"

\* If the drain has ended in time there is no request left, nor a new one.
Drained == stop \in {"snapshot", "closing", "done"} /\ ~ expired => Active = {}

\* From the list on: who connects is late, and who is in the store is late or
\* still on the list.
Listed ==
    stop \in {"closing", "done"} =>
        /\ Connecting \subseteq late
        /\ store \subseteq toClose \cup late
        /\ expired \/ late = {}

Emptied == stop = "done" => toClose = {}

BrokerInv == TypeOK /\ Once /\ Door /\ Drained /\ Listed /\ Emptied

\* Nothing has happened yet.
LEMMA BrokerInit == Init => BrokerInv
BY DEF Init, BrokerInv, TypeOK, Once, Door, Drained, Listed, Emptied

\* A request arrives only while the server serves.
LEMMA ArrivesInv ==
    ASSUME BrokerInv, NEW s \in Sessions, ConnectArrives(s) \/ PollArrives(s) \/ DeleteArrives(s)
    PROVE  BrokerInv'
<1> USE DEF BrokerInv
<1>1. stop = "idle" /\ stop' = stop /\ http' = http /\ store' = store /\ ended' = ended
  BY DEF ConnectArrives, PollArrives, DeleteArrives, Accepts, Door
<1>2. TypeOK'
  BY DEF ConnectArrives, PollArrives, DeleteArrives, TypeOK, requests
<1>3. Once'
  BY <1>1 DEF ConnectArrives, PollArrives, DeleteArrives, Once, TypeOK
<1> QED  BY <1>1, <1>2, <1>3 DEF Door, Drained, Listed, Emptied

\* A connect request stores its session: once its like cannot arrive any
\* more, only a session that is late.
LEMMA ConnectStoresInv ==
    ASSUME BrokerInv, NEW s \in Sessions, ConnectStores(s)
    PROVE  BrokerInv'
<1> USE DEF BrokerInv, ConnectStores
<1>1. TypeOK'
  BY DEF TypeOK, Once
<1>2. Once'
  BY DEF TypeOK, Once
<1>3. Active' \subseteq Active /\ Connecting' \subseteq Connecting /\ s \in Connecting
  BY DEF Active, Connecting, TypeOK
<1>4. Drained' /\ Listed'
  BY <1>3 DEF Drained, Listed
<1> QED  BY <1>1, <1>2, <1>4 DEF Door, Emptied

\* The other requests end without storing anything.
LEMMA PollEndsInv ==
    ASSUME BrokerInv, NEW s \in Sessions, PollEnds(s)
    PROVE  BrokerInv'
<1> USE DEF BrokerInv, PollEnds
<1>1. TypeOK' /\ Once'
  BY DEF TypeOK, Once
<1>2. Active' \subseteq Active /\ Connecting' = Connecting
  BY DEF Active, Connecting, TypeOK
<1> QED  BY <1>1, <1>2 DEF Door, Drained, Listed, Emptied

\* Nor does whoever closes a session: a DELETE, a sweep or Stop itself.
LEMMA ClosesInv ==
    ASSUME BrokerInv, NEW s \in Sessions, DeleteCloses(s) \/ Sweep(s) \/ StopCloses(s)
    PROVE  BrokerInv'
<1> USE DEF BrokerInv, CloseSession
<1>1. TypeOK' /\ Once'
  BY DEF DeleteCloses, Sweep, StopCloses, requests, TypeOK, Once
<1>2. Active' \subseteq Active /\ Connecting' = Connecting
  BY DEF DeleteCloses, Sweep, StopCloses, requests, Active, Connecting, TypeOK
<1>3. UNCHANGED <<stop, http, expired, late>>
  BY DEF DeleteCloses, Sweep, StopCloses
<1>4. store' \subseteq store \ {s} /\ toClose \ {s} \subseteq toClose' /\ toClose' \subseteq toClose
  BY DEF DeleteCloses, Sweep, StopCloses
<1> QED  BY <1>1, <1>2, <1>3, <1>4 DEF Door, Drained, Listed, Emptied

\* Start, its reaper and the exit of the process touch none of it.
LEMMA StartInv ==
    ASSUME BrokerInv, StartStep \/ Exit
    PROVE  BrokerInv'
<1>1. /\ UNCHANGED <<stop, http, expired, requests, store, toClose, late, ended>>
      /\ TypeOK'
  BY DEF StartStep, Exit, StartListens, StartReturns, ReaperStops, BrokerInv, TypeOK, requests
<1> QED  BY <1>1
         DEF BrokerInv, Once, Door, Drained, Listed, Emptied, Active, Connecting, requests

\* Stop's own steps, in their order.
LEMMA StopInv ==
    ASSUME BrokerInv, StopBegins \/ ShutdownReturns \/ AllSessions \/ StopReturns
    PROVE  BrokerInv'
<1> USE DEF BrokerInv
<1>1. Once' /\ requests' = requests
  BY DEF StopBegins, ShutdownReturns, AllSessions, StopReturns, Once, requests
<1>2. Active' = Active /\ Connecting' = Connecting
  BY <1>1 DEF requests, Active, Connecting
<1>3. CASE StopBegins
  BY <1>1, <1>3 DEF StopBegins, TypeOK, Once, requests, Door, Drained, Listed, Emptied
<1>4. CASE ShutdownReturns
  <2>1. expired' \in BOOLEAN /\ (~ expired' => Active' = {})
    BY <1>2, <1>4 DEF ShutdownReturns
  <2>2. TypeOK'
    BY <1>1, <1>4, <2>1 DEF ShutdownReturns, TypeOK, Once, requests
  <2> QED  BY <1>1, <1>4, <2>1, <2>2 DEF ShutdownReturns, Door, Drained, Listed, Emptied
<1>5. CASE AllSessions
  <2>1. Connecting \subseteq Active
    BY DEF Connecting, Active
  <2>2. TypeOK'
    BY <1>5, <2>1 DEF AllSessions, TypeOK, requests, Connecting
  <2> QED  BY <1>1, <1>2, <1>5, <2>1, <2>2 DEF AllSessions, Door, Drained, Listed, Emptied
<1>6. CASE StopReturns
  BY <1>1, <1>2, <1>6 DEF StopReturns, TypeOK, requests, Door, Drained, Listed, Emptied
<1> QED  BY <1>3, <1>4, <1>5, <1>6

\* Every step preserves the invariant.
LEMMA BrokerStep == BrokerInv /\ [Next]_vars => BrokerInv'
<1> SUFFICES ASSUME BrokerInv, [Next]_vars PROVE BrokerInv'
  OBVIOUS
<1>1. CASE UNCHANGED vars
  BY <1>1 DEF vars, BrokerInv, TypeOK, Once, Door, Drained, Listed, Emptied, Active, Connecting
<1> QED
  BY <1>1, ArrivesInv, ConnectStoresInv, PollEndsInv, ClosesInv, StartInv, StopInv
     DEF Next, RequestStep, StopStep

\* The inductive invariant holds in every reachable state.
THEOREM BrokerInvariant == Spec => []BrokerInv
BY BrokerInit, BrokerStep, PTL DEF Spec

\* Every variable keeps its type, and no session is ended that is stored.
THEOREM BrokerType == Spec => []TypeOK
<1>1. BrokerInv => TypeOK
  BY DEF BrokerInv
<1> QED  BY <1>1, BrokerInvariant, PTL

\* When Stop returns it leaves no session but one that connected too late,
\* and not even that if every request had ended in time.
THEOREM NothingLeft == Spec => []StopLeavesNothing
<1>1. BrokerInv => StopLeavesNothing
  BY DEF BrokerInv, Listed, Emptied, StopLeavesNothing
<1> QED  BY <1>1, BrokerInvariant, PTL

=============================================================================
