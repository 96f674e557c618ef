--------------------------- MODULE BrokerProcess ---------------------------
(***************************************************************************)
(* The life of the broker process: Server.Start and Server.Stop            *)
(* (internal/broker/server.go) and the main function that runs one in the  *)
(* main goroutine and the other in a signal goroutine (cmd/broker).        *)
(*                                                                         *)
(* net/http is external: Shutdown makes ListenAndServe return at once,     *)
(* lets no new request in, and itself returns when every request has ended *)
(* or its context has expired; handlers still running then go on.  pollmux *)
(* is external: closing a session takes it out of the store and calls      *)
(* OnDisconnect, once, whoever closes it.                                  *)
(***************************************************************************)
EXTENDS Naturals, FiniteSets

CONSTANT Sessions     \* sessions that clients may connect

VARIABLES
    start,            \* Start: new, listening, returned, or exited with the process
    stop,             \* Stop: idle, shutdown, snapshot, closing or done
    http,             \* the HTTP server: serving, draining or closed
    expired,          \* Shutdown's context ran out before the requests did
    connect,          \* per session, its connect request: none, active or over
    poll,             \* per session, its poll request, idle or active
    delete,           \* per session, its DELETE request: none, active or over
    store,            \* pollmux.SessionStore
    toClose,          \* what Stop's loop over store.All() has still to close
    late,             \* observer: connects still running when All() was called
    sweepers,         \* of {"sweeper", "reaper"}, those running
    ended             \* the sessions whose OnDisconnect has been called

vars == <<start, stop, http, expired, connect, poll, delete, store, toClose,
          late, sweepers, ended>>
requests == <<connect, poll, delete>>

Init ==
    /\ start = "new" /\ stop = "idle" /\ http = "serving" /\ expired = FALSE
    /\ connect = [s \in Sessions |-> "none"]
    /\ poll = [s \in Sessions |-> "idle"]
    /\ delete = [s \in Sessions |-> "none"]
    /\ store = {} /\ toClose = {} /\ late = {} /\ ended = {}
    /\ sweepers = {}

Up == start # "exited"

Active == {s \in Sessions : "active" \in {connect[s], poll[s], delete[s]}}

Connecting == {s \in Sessions : connect[s] = "active"}

\* Mutant: OnDisconnect is called and the store keeps the session.
CloseSession_KeepsEntry(s) == /\ store' = store
                              /\ ended' = IF s \in store THEN ended \cup {s} ELSE ended

\* pollmux.CloseSession: nothing is left to do for a session already ended.
CloseSession(s) == /\ store' = store \ {s}
                   /\ ended' = IF s \in store THEN ended \cup {s} ELSE ended

-----------------------------------------------------------------------------
(* Requests (external handlers, the connect hooks included). *)

Accepts == start = "listening" /\ http = "serving"

ConnectArrives(s) ==
    /\ Accepts /\ connect[s] = "none"
    /\ connect' = [connect EXCEPT ![s] = "active"]
    /\ UNCHANGED <<start, stop, http, expired, poll, delete, store, toClose,
                   late, sweepers, ended>>

ConnectStores(s) ==
    /\ Up /\ connect[s] = "active"
    /\ connect' = [connect EXCEPT ![s] = "over"]
    /\ store' = store \cup {s}
    /\ UNCHANGED <<start, stop, http, expired, poll, delete, toClose, late,
                   sweepers, ended>>

PollArrives(s) ==
    /\ Accepts /\ s \in store /\ poll[s] = "idle"
    /\ poll' = [poll EXCEPT ![s] = "active"]
    /\ UNCHANGED <<start, stop, http, expired, connect, delete, store, toClose,
                   late, sweepers, ended>>

PollEnds(s) ==
    /\ Up /\ poll[s] = "active"
    /\ poll' = [poll EXCEPT ![s] = "idle"]
    /\ UNCHANGED <<start, stop, http, expired, connect, delete, store, toClose,
                   late, sweepers, ended>>

DeleteArrives(s) ==
    /\ Accepts /\ s \in store /\ delete[s] = "none"
    /\ delete' = [delete EXCEPT ![s] = "active"]
    /\ UNCHANGED <<start, stop, http, expired, connect, poll, store, toClose,
                   late, sweepers, ended>>

DeleteCloses(s) ==
    /\ Up /\ delete[s] = "active"
    /\ delete' = [delete EXCEPT ![s] = "over"]
    /\ CloseSession(s)
    /\ UNCHANGED <<start, stop, http, expired, connect, poll, toClose, late, sweepers>>

\* pollmux's sweeper, or the fast reaper, expires a session.
Sweep(s) ==
    /\ Up /\ sweepers # {}
    /\ s \in store
    /\ CloseSession(s)
    /\ UNCHANGED <<start, stop, http, expired, requests, toClose, late, sweepers>>

-----------------------------------------------------------------------------
(* Start, in the main goroutine. *)

StartListens ==
    /\ start = "new"
    /\ start' = "listening"
    /\ sweepers' = {"sweeper", "reaper"}
    /\ UNCHANGED <<stop, http, expired, requests, store, toClose, late, ended>>

\* ListenAndServe returns ErrServerClosed, and the deferred close(reaperStop)
\* tells the reaper to stop.  (That it fails to bind is left out: Start returns
\* before there is any request, and main with it.)
StartReturns ==
    /\ start = "listening" /\ http # "serving"
    /\ start' = "returned"
    /\ UNCHANGED <<stop, http, expired, requests, store, toClose, late, sweepers, ended>>

ReaperStops ==
    /\ start = "returned" /\ "reaper" \in sweepers
    /\ sweepers' = sweepers \ {"reaper"}
    /\ UNCHANGED <<start, stop, http, expired, requests, store, toClose, late, ended>>

\* main returns when Start has, and takes every goroutine with it.  (A caller
\* that is not cmd/broker's main may live on.)
Exit ==
    /\ start = "returned"
    /\ start' = "exited"
    /\ UNCHANGED <<stop, http, expired, requests, store, toClose, late, sweepers, ended>>

-----------------------------------------------------------------------------
(* Stop, in the signal goroutine. *)

StopBegins ==
    /\ Up /\ stop = "idle"
    /\ stop' = "shutdown"
    /\ http' = "draining"
    /\ UNCHANGED <<start, expired, requests, store, toClose, late, sweepers, ended>>

\* Mutant: Stop does not bound the drain.
ShutdownReturns_Drained ==
    /\ Up /\ stop = "shutdown"
    /\ stop' = "snapshot"
    /\ http' = "closed"
    /\ Active = {} /\ UNCHANGED expired
    /\ UNCHANGED <<start, requests, store, toClose, late, sweepers, ended>>

ShutdownReturns ==
    /\ Up /\ stop = "shutdown"
    /\ stop' = "snapshot"
    /\ http' = "closed"
    /\ expired' = (Active # {})
    /\ UNCHANGED <<start, requests, store, toClose, late, sweepers, ended>>

\* Mutant: the loop keeps the sessions that poll, for pollmux to expire.
AllSessions_Idle ==
    /\ Up /\ stop = "snapshot"
    /\ stop' = "closing"
    /\ toClose' = {s \in store : poll[s] = "idle"}
    /\ late' = Connecting
    /\ UNCHANGED <<start, http, expired, requests, store, sweepers, ended>>

AllSessions ==
    /\ Up /\ stop = "snapshot"
    /\ stop' = "closing"
    /\ toClose' = store
    /\ late' = Connecting
    /\ UNCHANGED <<start, http, expired, requests, store, sweepers, ended>>

StopCloses(s) ==
    /\ Up /\ stop = "closing"
    /\ s \in toClose
    /\ toClose' = toClose \ {s}
    /\ CloseSession(s)
    /\ UNCHANGED <<start, stop, http, expired, requests, late, sweepers>>

\* stopSweeper waits for the sweeper's goroutine; it is nil before Start.
StopReturns ==
    /\ Up /\ stop = "closing" /\ toClose = {}
    /\ stop' = "done"
    /\ sweepers' = sweepers \ {"sweeper"}
    /\ UNCHANGED <<start, http, expired, requests, store, toClose, late, ended>>

-----------------------------------------------------------------------------

RequestStep(s) == \/ ConnectArrives(s) \/ ConnectStores(s) \/ PollArrives(s)
                  \/ PollEnds(s) \/ DeleteArrives(s) \/ DeleteCloses(s) \/ Sweep(s)

StartStep == StartListens \/ StartReturns \/ ReaperStops

StopStep == \/ ShutdownReturns \/ AllSessions \/ StopReturns
            \/ \E s \in Sessions : StopCloses(s)

Next == \/ StartStep \/ Exit
        \/ StopBegins \/ StopStep
        \/ \E s \in Sessions : RequestStep(s)

Spec == Init /\ [][Next]_vars

\* Goroutines run while the process does.  Requests may never end, no signal
\* may come, and nothing makes the process exit.
FairSpec == Spec /\ WF_vars(StopStep) /\ WF_vars(StartStep)

-----------------------------------------------------------------------------

TypeOK ==
    /\ start \in {"new", "listening", "returned", "exited"}
    /\ stop \in {"idle", "shutdown", "snapshot", "closing", "done"}
    /\ http \in {"serving", "draining", "closed"}
    /\ connect \in [Sessions -> {"none", "active", "over"}]
    /\ poll \in [Sessions -> {"idle", "active"}]
    /\ delete \in [Sessions -> {"none", "active", "over"}]
    /\ store \subseteq Sessions /\ toClose \subseteq Sessions
    /\ late \subseteq Sessions /\ ended \subseteq Sessions
    /\ sweepers \subseteq {"sweeper", "reaper"}
    /\ expired \in BOOLEAN
    /\ store \cap ended = {}

\* When Stop has returned no session is left, whatever connected, was deleted
\* or was swept while the server drained: except one whose connect request
\* outlived the drain's deadline, and none if every request had ended in time.
StopLeavesNothing ==
    stop = "done" => store \subseteq late /\ (expired \/ late = {})

\* Stop returns although polls may hang for ever and only the sessions it
\* closes after the drain would end them.
StopTerminates == stop = "shutdown" ~> stop = "done" \/ start = "exited"

\* server.go:397-399, step 2 of the shutdown sequence: "Close every live
\* session so relay goroutines exit cleanly and connected consumers/providers
\* detect the closure and reconnect".
ExitsAfterCleanup == start = "exited" => store = {}

=============================================================================
