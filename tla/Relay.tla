------------------------------- MODULE Relay -------------------------------
(***************************************************************************)
(* The broker's goroutines around the endpoint table: internal/broker's    *)
(* relay.go (HandleProvider, HandleConsumer, bridgeStream), the hooks of   *)
(* server.go (onConnect, onDisconnect), and WaitForProvider's control.     *)
(*                                                                         *)
(* Two libraries are external and modelled from the way src/ uses them:    *)
(* pollmux keeps the sessions (a store, from which DELETE, its sweeper or  *)
(* the broker retire a session, each followed by one OnDisconnect), and    *)
(* yamux runs over a session (closing either closes the other).            *)
(*                                                                         *)
(* A session id is never reused, so each identity lives once.  Wake-ups of *)
(* the waiters' condition variable are left to module ProviderWait: here a *)
(* waiter may look again at any time.                                      *)
(***************************************************************************)
EXTENDS EndpointRegistry

VARIABLES
    session,      \* the pollmux session, see SessionState
    yamux,        \* the yamux session on it: none, open or closed
    pc,           \* where each session's and each stream's goroutine is
    toClose,      \* RemoveProvider's local list of consumer yamux sessions
    target        \* the provider whose yamux session WaitForProvider returned

relayVars == <<session, yamux, pc, toClose, target>>
vars == <<registryVars, relayVars>>

\* "closed": still in the store; "retired": out of the store, OnDisconnect
\* still to run; "gone": OnDisconnect has run, or onConnect refused it.
SessionState == {"new", "open", "closed", "retired", "gone"}
YamuxState == {"none", "open", "closed"}
SessionPc == {"new", "connecting", "starting", "created", "registering",
              "serving", "evicting", "accepting", "done"}
StreamPc == {"idle", "reading", "looking", "enrolling", "waiting", "checking",
             "leaving", "opening", "bridging", "done"}

Go(x, l) == pc' = [pc EXCEPT ![x] = l]

Step(x, from, to) == pc[x] = from /\ Go(x, to)

\* yamux.Session.Close closes the connection under it, the pollmux session.
CloseYamux(s) ==
    /\ yamux' = [yamux EXCEPT ![s] = "closed"]
    /\ session' = [session EXCEPT ![s] = IF @ = "open" THEN "closed" ELSE @]

-----------------------------------------------------------------------------
(* pollmux and yamux (external). *)

\* ConnectHandler puts the new session in the store, then calls OnConnect.
Connect(s) ==
    /\ session[s] = "new"
    /\ session' = [session EXCEPT ![s] = "open"]
    /\ Step(s, "new", "connecting")
    /\ UNCHANGED <<registryVars, yamux, toClose, target>>

\* DELETE, the sweeper, the fast reaper or Stop take a session out of the
\* store and close it.  Its client learns the id from the connect response
\* and the timeouts run from then, so onConnect has returned.  (Not so for
\* Stop, which lists whatever is in the store: a session it takes in the
\* middle of onConnect is left out here.  BrokerProcess has Stop's races.)
Retire(s) ==
    /\ session[s] \in {"open", "closed"}
    /\ pc[s] # "connecting"
    /\ session' = [session EXCEPT ![s] = "retired"]
    /\ UNCHANGED <<registryVars, yamux, pc, toClose, target>>

\* The yamux session reads the end of its closed connection.
YamuxEOF(s) ==
    /\ yamux[s] = "open"
    /\ session[s] # "open"
    /\ yamux' = [yamux EXCEPT ![s] = "closed"]
    /\ UNCHANGED <<registryVars, session, pc, toClose, target>>

\* A keepalive timeout, a protocol error or the peer's own Close.
YamuxFails(s) ==
    /\ yamux[s] = "open"
    /\ CloseYamux(s)
    /\ UNCHANGED <<registryVars, pc, toClose, target>>

-----------------------------------------------------------------------------
(* The hooks of server.go. *)

\* onConnect for a provider only starts HandleProvider.
OnConnectProvider(p) ==
    /\ Step(p, "connecting", "starting")
    /\ UNCHANGED <<registryVars, session, yamux, toClose, target>>

\* onConnect for a consumer registers it and starts HandleConsumer ...
OnConnectConsumer(c) ==
    /\ Step(c, "connecting", "starting")
    /\ AddConsumer(c)
    /\ UNCHANGED <<session, yamux, toClose, target>>

\* ... or returns the error, on which pollmux drops the session.
OnConnectRefused(c) ==
    /\ Step(c, "connecting", "done")
    /\ AddConsumerFails(c)
    /\ session' = [session EXCEPT ![c] = "gone"]
    /\ UNCHANGED <<yamux, toClose, target>>

OnDisconnect(s) ==
    /\ session[s] = "retired"
    /\ session' = [session EXCEPT ![s] = "gone"]
    /\ Forget(s)
    /\ UNCHANGED <<yamux, pc, toClose, target>>

-----------------------------------------------------------------------------
(* HandleProvider and HandleConsumer. *)

\* pollmux.ClientSession or pollmux.ServerSession.
OpenYamux(s) ==
    /\ Step(s, "starting", "created")
    /\ yamux' = [yamux EXCEPT ![s] = "open"]
    /\ UNCHANGED <<registryVars, session, toClose, target>>

OpenYamuxFails(s) ==
    /\ Step(s, "starting", "done")
    /\ UNCHANGED <<registryVars, session, yamux, toClose, target>>

Register(p) ==
    /\ Step(p, "created", "serving")
    /\ SetProvider(p)
    /\ UNCHANGED <<session, yamux, toClose, target>>

\* Mutant: the yamux session of a refused provider is left open.
RegisterFails_LeavesOpen(p) ==
    /\ Step(p, "created", "done")
    /\ SetProviderFails(p)
    /\ UNCHANGED <<session, yamux, toClose, target>>

\* The deferred cleanup of a provider that was not registered.
RegisterFails(p) ==
    /\ Step(p, "created", "done")
    /\ SetProviderFails(p)
    /\ CloseYamux(p)
    /\ UNCHANGED <<toClose, target>>

\* Mutant: a provider whose session is gone leaves the cleanup to Forget.
ProviderLeaves_TrustsForget(p) ==
    /\ yamux[p] = "closed"
    /\ Step(p, "serving", "evicting")
    /\ toClose' = [toClose EXCEPT ![p] = SessionsToClose(p)]
    /\ IF session[p] = "gone" THEN UNCHANGED registryVars ELSE RemoveProvider(p)
    /\ UNCHANGED <<session, yamux, target>>

\* <-yamuxSess.CloseChan(), then the deferred RemoveProvider ...
ProviderLeaves(p) ==
    /\ yamux[p] = "closed"
    /\ Step(p, "serving", "evicting")
    /\ toClose' = [toClose EXCEPT ![p] = SessionsToClose(p)]
    /\ RemoveProvider(p)
    /\ UNCHANGED <<session, yamux, target>>

\* ... which closes the consumers' yamux sessions one by one, unlocked.
CloseConsumer(p, c) ==
    /\ pc[p] = "evicting"
    /\ c \in toClose[p]
    /\ toClose' = [toClose EXCEPT ![p] = @ \ {c}]
    /\ CloseYamux(c)
    /\ UNCHANGED <<registryVars, pc, target>>

\* Mutant: RemoveProvider returns before it has closed them all.
EvictionDone_Early(p) ==
    /\ Step(p, "evicting", "done")
    /\ UNCHANGED <<registryVars, session, yamux, toClose, target>>

EvictionDone(p) ==
    /\ toClose[p] = {}
    /\ Step(p, "evicting", "done")
    /\ UNCHANGED <<registryVars, session, yamux, toClose, target>>

\* RegisterConsumerYamux returns at once when the endpoint is not there.
LookUp(c) ==
    /\ RegisterLookup(c)
    /\ Step(c, "created", IF ref'[c] = None THEN "accepting" ELSE "registering")
    /\ UNCHANGED <<session, yamux, toClose, target>>

Store(c) ==
    /\ Step(c, "registering", "accepting")
    /\ RegisterStore(c)
    /\ UNCHANGED <<session, yamux, toClose, target>>

\* A stream that arrived while the session was open may be accepted later.
Accept(c, st) ==
    /\ pc[c] = "accepting"
    /\ OwnerOf[st] = c
    /\ Step(st, "idle", "reading")
    /\ UNCHANGED <<registryVars, session, yamux, toClose, target>>

\* Mutant: HandleConsumer returns without its deferred cleanup.
AcceptFails_NoCleanup(c) ==
    /\ yamux[c] = "closed"
    /\ Step(c, "accepting", "done")
    /\ UNCHANGED <<registryVars, session, yamux, toClose, target>>

\* Accept returns an error, and the deferred cleanup runs.
AcceptFails(c) ==
    /\ yamux[c] = "closed"
    /\ Step(c, "accepting", "done")
    /\ UnregisterConsumerYamux(c)
    /\ UNCHANGED <<session, yamux, toClose, target>>

-----------------------------------------------------------------------------
(* bridgeStream, with WaitForProvider inside it. *)

ProviderOf(st) == LET o == endpoints[StreamEndpoint(st)] IN
                  IF o = None THEN None ELSE heap[o].provider

ConsumerLeft(st) == yamux[OwnerOf[st]] = "closed"

ReadHeader(st) ==
    /\ Step(st, "reading", "looking")
    /\ UNCHANGED <<registryVars, session, yamux, toClose, target>>

ReadHeaderFails(st) ==
    /\ Step(st, "reading", "done")
    /\ UNCHANGED <<registryVars, session, yamux, toClose, target>>

\* The fast path, GetProviderYamux.
FastPath(st) ==
    /\ target' = [target EXCEPT ![st] = ProviderOf(st)]
    /\ Step(st, "looking", IF ProviderOf(st) = None THEN "enrolling" ELSE "opening")
    /\ UNCHANGED <<registryVars, session, yamux, toClose>>

StartWait(st) ==
    /\ Step(st, "enrolling", "waiting")
    /\ Enroll(st)
    /\ UNCHANGED <<session, yamux, toClose, target>>

StartWaitFails(st) ==
    /\ Step(st, "enrolling", "done")
    /\ EnrollFails(st)
    /\ UNCHANGED <<session, yamux, toClose, target>>

\* Mutant: the loop does not look at done.
CheckDone_Ignored(st) ==
    /\ Step(st, "waiting", "checking")
    /\ UNCHANGED <<registryVars, session, yamux, toClose, target>>

\* One turn of the loop: look at done ...
CheckDone(st) ==
    /\ Step(st, "waiting", IF ConsumerLeft(st) THEN "leaving" ELSE "checking")
    /\ UNCHANGED <<registryVars, session, yamux, toClose, target>>

\* ... then at the struct the stream holds, and sleep if it has no provider.
CheckProvider(st) ==
    LET p == heap[ref[st]].provider IN
    /\ Step(st, "checking", IF p = None THEN "waiting" ELSE "leaving")
    /\ target' = [target EXCEPT ![st] = p]
    /\ UNCHANGED <<registryVars, session, yamux, toClose>>

\* The deferred function; WaitForProvider has found a provider or nothing.
StopWait(st) ==
    /\ Step(st, "leaving", IF target[st] = None THEN "done" ELSE "opening")
    /\ Leave(st)
    /\ UNCHANGED <<session, yamux, toClose, target>>

\* Open a stream on the session returned and write the header to it.
OpenStream(st) ==
    /\ Step(st, "opening", "bridging")
    /\ yamux[target[st]] = "open"
    /\ UNCHANGED <<registryVars, session, yamux, toClose, target>>

\* The provider may be gone by now, or the stream refused.
OpenStreamFails(st) ==
    /\ Step(st, "opening", "done")
    /\ UNCHANGED <<registryVars, session, yamux, toClose, target>>

\* bridgeConns returns.
FinishBridge(st) ==
    /\ Step(st, "bridging", "done")
    /\ UNCHANGED <<registryVars, session, yamux, toClose, target>>

-----------------------------------------------------------------------------

Init ==
    /\ RegistryInit
    /\ session = [s \in Sessions |-> "new"]
    /\ yamux = [s \in Sessions |-> "none"]
    /\ pc = [x \in Sessions \cup Streams |-> IF x \in Streams THEN "idle" ELSE "new"]
    /\ toClose = [p \in Providers |-> {}]
    /\ target = [st \in Streams |-> None]

\* Every session has come and gone: the broker idles.
Finished ==
    /\ \A s \in Sessions : session[s] = "gone" /\ pc[s] = "done"
    /\ \A st \in Streams : pc[st] \in {"idle", "done"}

Idle == Finished /\ UNCHANGED vars

SessionStep(s) == \/ Connect(s) \/ Retire(s) \/ OnDisconnect(s)
                  \/ OpenYamux(s) \/ OpenYamuxFails(s)
                  \/ YamuxEOF(s) \/ YamuxFails(s)

ProviderStep(p) == \/ OnConnectProvider(p) \/ Register(p) \/ RegisterFails(p)
                   \/ ProviderLeaves(p) \/ EvictionDone(p)
                   \/ \E c \in Consumers : CloseConsumer(p, c)

ConsumerStep(c) == \/ OnConnectConsumer(c) \/ OnConnectRefused(c)
                   \/ LookUp(c) \/ Store(c) \/ AcceptFails(c)
                   \/ \E st \in Streams : Accept(c, st)

\* WaitForProvider.
WaitStep(st) == \/ FastPath(st) \/ StartWait(st) \/ StartWaitFails(st)
                \/ CheckDone(st) \/ CheckProvider(st) \/ StopWait(st)

StreamStep(st) == \/ ReadHeader(st) \/ ReadHeaderFails(st) \/ WaitStep(st)
                  \/ OpenStream(st) \/ OpenStreamFails(st) \/ FinishBridge(st)

Next == \/ \E s \in Sessions : SessionStep(s)
        \/ \E p \in Providers : ProviderStep(p)
        \/ \E c \in Consumers : ConsumerStep(c)
        \/ \E st \in Streams : StreamStep(st)
        \/ Idle

Spec == Init /\ [][Next]_vars

\* Goroutines that can run do run: the Go scheduler, no lock held for ever.
\* A retired session's OnDisconnect is called and its yamux session sees the
\* end of the connection.  Nothing makes a client connect or leave, a stream
\* arrive, its header come, or a bridge end.
Fairness ==
    /\ \A s \in Sessions :
        /\ WF_vars(OnDisconnect(s))
        /\ WF_vars(YamuxEOF(s))
        /\ WF_vars(OpenYamux(s) \/ OpenYamuxFails(s))
    /\ \A p \in Providers : WF_vars(ProviderStep(p))
    /\ \A c \in Consumers : WF_vars(ConsumerStep(c))
    /\ \A st \in Streams : WF_vars(WaitStep(st))

FairSpec == Spec /\ Fairness

-----------------------------------------------------------------------------

\* The variables' types, and a goroutine's local variables are set only
\* where it uses them: no pointer and no list of sessions is left behind.
TypeOK ==
    /\ RegistryTypeOK
    /\ session \in [Sessions -> SessionState]
    /\ yamux \in [Sessions -> YamuxState]
    /\ pc \in [Sessions \cup Streams -> SessionPc \cup StreamPc]
    /\ toClose \in [Providers -> SUBSET Consumers]
    /\ target \in [Streams -> Providers \cup {None}]
    /\ \A p \in Providers : toClose[p] # {} => pc[p] = "evicting"
    /\ \A c \in Consumers : ref[c] # None <=> pc[c] = "registering"
    /\ \A st \in Streams : ref[st] # None <=> pc[st] \in {"waiting", "checking", "leaving"}

Registered(p) == LET o == endpoints[EndpointOf[p]] IN o # None /\ heap[o].provider = p

\* A provider that serves keeps its endpoint until its own session has been
\* retired and forgotten: no rejected duplicate, no predecessor still
\* tearing down and no consumer's departure evicts it.  Two providers with
\* live sessions therefore never serve one endpoint.
ServingIsRegistered ==
    \A p \in Providers : pc[p] = "serving" /\ session[p] # "gone" => Registered(p)

\* The provider an endpoint names is one whose HandleProvider is still
\* serving, on that endpoint; its departure always clears the entry, so a
\* dead registration cannot refuse every later provider.
RegisteredIsServing ==
    \A n \in Names : \A p \in Providers :
        endpoints[n] # None /\ heap[endpoints[n]].provider = p =>
            EndpointOf[p] = n /\ pc[p] = "serving"

\* When the last client, goroutine and stream is done with the table, the
\* table is empty: whatever the order in which RemoveProvider, Forget,
\* UnregisterConsumerYamux and the waiters' departure ran.
QuietMeansEmpty ==
    /\ \A s \in Sessions : session[s] \in {"new", "gone"} /\ pc[s] \in {"new", "done"}
    /\ \A st \in Streams : pc[st] \in {"idle", "bridging", "done"}
    => Live = {}

\* Nobody hears of a session before it is stored or after it is forgotten:
\* the consumers /status counts have a session whose end is still to come.
CountedConsumersKnown ==
    \A n \in Live : \A c \in heap[endpoints[n]].consumers :
        EndpointOf[c] = n /\ session[c] \in {"open", "closed", "retired"}

\* Endpoints do not touch each other, although their structs come and go
\* at the same addresses while RegisterConsumerYamux and WaitForProvider
\* hold pointers to them: a departing provider closes the sessions of its own
\* endpoint's consumers only, and a stream is bridged to a provider of its own
\* endpoint only.
EndpointsIsolated ==
    /\ \A p \in Providers : \A c \in toClose[p] : EndpointOf[c] = EndpointOf[p]
    /\ \A st \in Streams : pc[st] \in {"opening", "bridging"} =>
           target[st] \in Providers /\ EndpointOf[target[st]] = StreamEndpoint(st)

\* Once every session is retired, every entry is reclaimed in the end.
TableDrains ==
    (\A s \in Sessions : session[s] \in {"retired", "gone"}) ~> (Live = {})

\* A provider whose session has been retired stops blocking its endpoint for
\* good, even one whose HandleProvider registers it after OnDisconnect ran.
RetiredProviderLeaves ==
    \A p \in Providers : session[p] = "retired" ~> [](~ Registered(p))

\* A stream waiting for a provider does not outlive its consumer's session.
NoWaitForTheDeparted ==
    \A st \in Streams :
        pc[st] \in {"looking", "enrolling", "waiting", "checking"} /\ ConsumerLeft(st)
            ~> pc[st] \in {"opening", "done"}

\* endpoint.go:21-23: "consumerYamuxSessions tracks all active consumer yamux
\* sessions for this endpoint so that when the provider disconnects we can
\* close them all".
ActiveConsumersTracked ==
    \A c \in Consumers : session[c] = "open" /\ pc[c] = "accepting" /\ yamux[c] = "open" =>
        \/ \E n \in Live : c \in heap[endpoints[n]].yamuxes
        \/ \E p \in Providers : c \in toClose[p]

=============================================================================
