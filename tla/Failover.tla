------------------------------ MODULE Failover ------------------------------
(***************************************************************************)
(* The broker of module Relay with the processes that connect to it:       *)
(* internal/provider/client.go, Run, and, as far as its sessions go,       *)
(* internal/consumer/client.go, Run.  Both connect, serve one session      *)
(* until it ends, and connect again.  Their transports fail, they crash    *)
(* and are restarted, the answer to a connect request is lost, and the     *)
(* broker itself crashes and starts empty.                                 *)
(*                                                                         *)
(* A session its client has left stays in the broker, and a provider's     *)
(* keeps the endpoint, until a DELETE, the fast reaper or pollmux's        *)
(* sweeper retires it; meanwhile the client's next session may be refused. *)
(*                                                                         *)
(* A session id stands for a new session, and its streams' names for new   *)
(* streams, once nobody knows the old ones.                                *)
(* There are at most MaxFaults faults; a bound on how long the trouble     *)
(* lasts is what any promise that it will end again needs.                 *)
(***************************************************************************)
EXTENDS Relay

CONSTANTS
    Clients,      \* provider and consumer processes
    IdsOf,        \* the session ids a client's connections get
    MaxFaults     \* bound

ASSUME FailoverAssumption ==
    /\ IdsOf \in [Clients -> SUBSET Sessions]
    /\ \A k \in Clients : IdsOf[k] \subseteq Providers \/ IdsOf[k] \subseteq Consumers
    /\ \A k, l \in Clients : k # l => IdsOf[k] \cap IdsOf[l] = {}
    /\ None \notin Sessions /\ MaxFaults \in Nat

VARIABLES
    client,       \* where a client is, see ClientState
    current,      \* the session it connects or serves, or None
    faults        \* how many there have been

clientVars == <<client, current, faults>>
allVars == <<vars, clientVars>>

\* "requested": its connect request is under way.
ClientState == {"down", "connecting", "requested", "serving"}

Held(s) == \E k \in Clients : current[k] = s

Moves(k, from, to) == client[k] = from /\ client' = [client EXCEPT ![k] = to]

Leaves(k) == current' = [current EXCEPT ![k] = None]

FailoverInit ==
    /\ Init
    /\ client = [k \in Clients |-> "down"]
    /\ current = [k \in Clients |-> None]
    /\ faults = 0

-----------------------------------------------------------------------------
(* The clients' Run: a ReconnectLoop's Connect and Serve. *)

Start(k) ==
    /\ Moves(k, "down", "connecting")
    /\ UNCHANGED <<vars, current, faults>>

RequestConnect(k) ==
    /\ Moves(k, "connecting", "requested")
    /\ \E s \in IdsOf[k] : Connect(s) /\ current' = [current EXCEPT ![k] = s]
    /\ UNCHANGED faults

\* The broker answers when onConnect has returned.
Connected(k) ==
    /\ Moves(k, "requested", "serving")
    /\ session[current[k]] \notin {"new", "gone"} /\ pc[current[k]] # "connecting"
    /\ UNCHANGED <<vars, current, faults>>

\* The connect request is refused, or the broker has gone.
ConnectFails(k) ==
    /\ Moves(k, "requested", "connecting")
    /\ session[current[k]] \in {"new", "gone"}
    /\ Leaves(k)
    /\ UNCHANGED <<vars, faults>>

\* The broker's goroutine has gone without a yamux session of its own.
NeverAnswers(s) == yamux[s] = "none" /\ pc[s] = "done"

\* Mutant: Serve does not close its session on return.
ServeEnds_KeepsSession(k) ==
    /\ Moves(k, "serving", "connecting")
    /\ session[current[k]] # "open" \/ NeverAnswers(current[k])
    /\ UNCHANGED <<vars, current, faults>>

\* Mutant: Serve watches its transport only.
ServeEnds_TransportOnly(k) == FALSE /\ Moves(k, "serving", "connecting")

\* AcceptLoop finds its session closed by the broker, or unknown to it, or
\* its keepalives unanswered, and Serve returns to the loop.
ServeEnds(k) ==
    /\ Moves(k, "serving", "connecting")
    /\ session[current[k]] # "open" \/ NeverAnswers(current[k])
    /\ Leaves(k)
    /\ UNCHANGED <<vars, faults>>

ClientStep(k) == RequestConnect(k) \/ Connected(k) \/ ConnectFails(k) \/ ServeEnds(k)

-----------------------------------------------------------------------------
(* The faults. *)

\* The transport fails, or the answer to the connect request is lost.
TransportFails(k) ==
    /\ \/ Moves(k, "serving", "connecting")
       \/ Moves(k, "requested", "connecting")
    /\ Leaves(k)
    /\ UNCHANGED vars

Crash(k) ==
    /\ client[k] # "down"
    /\ client' = [client EXCEPT ![k] = "down"]
    /\ Leaves(k)
    /\ UNCHANGED vars

BrokerCrashes ==
    /\ endpoints' = [n \in Names |-> None]
    /\ heap' = [o \in Objects |-> NewEndpoint]
    /\ ref' = [h \in Holders |-> None]
    /\ session' = [s \in Sessions |-> "new"]
    /\ yamux' = [s \in Sessions |-> "none"]
    /\ pc' = [x \in Sessions \cup Streams |-> IF x \in Streams THEN "idle" ELSE "new"]
    /\ toClose' = [p \in Providers |-> {}]
    /\ target' = [st \in Streams |-> None]
    /\ UNCHANGED <<client, current>>

\* A session ends although its client is there, or yamux does not start on it.
SessionFails(s) ==
    /\ \/ Held(s) /\ (Retire(s) \/ YamuxFails(s))
       \/ OpenYamuxFails(s)
    /\ UNCHANGED <<client, current>>

Fault ==
    /\ faults < MaxFaults /\ faults' = faults + 1
    /\ \/ BrokerCrashes
       \/ \E k \in Clients : TransportFails(k) \/ Crash(k)
       \/ \E s \in Sessions : SessionFails(s)

-----------------------------------------------------------------------------
(* The broker. *)

\* DELETE, the fast reaper and the sweeper end a session nobody polls.
RetireAbandoned(s) ==
    /\ ~ Held(s) \/ session[s] = "closed"
    /\ Retire(s)
    /\ UNCHANGED clientVars

\* Keepalives fail for a dead client before its session is retired.
KeepaliveFails(s) == ~ Held(s) /\ YamuxFails(s) /\ UNCHANGED clientVars

BrokerSession(s) ==
    /\ OnDisconnect(s) \/ OpenYamux(s) \/ YamuxEOF(s)
    /\ UNCHANGED clientVars

BrokerProvider(p) == ProviderStep(p) /\ UNCHANGED clientVars

BrokerConsumer(c) == ConsumerStep(c) /\ UNCHANGED clientVars

BrokerStream(st) == StreamStep(st) /\ UNCHANGED clientVars

StreamOver(st) == pc[st] \in {"idle", "done"}

\* Nothing in the broker names the session.
Unknown(s) ==
    /\ \A n \in Live : LET ep == heap[endpoints[n]] IN
           ep.provider # s /\ s \notin ep.consumers \cup ep.yamuxes
    /\ \A p \in Providers : s \notin toClose[p]
    /\ \A st \in Streams : OwnerOf[st] = s \/ target[st] = s => StreamOver(st)

OwnStreams(s) == {st \in Streams : OwnerOf[st] = s}

Recycle(s) ==
    /\ session[s] = "gone" /\ pc[s] = "done"
    /\ ~ Held(s) /\ Unknown(s)
    /\ session' = [session EXCEPT ![s] = "new"]
    /\ yamux' = [yamux EXCEPT ![s] = "none"]
    /\ pc' = [x \in DOMAIN pc |-> IF x = s THEN "new"
                                  ELSE IF x \in OwnStreams(s) THEN "idle" ELSE pc[x]]
    /\ target' = [st \in Streams |-> IF st \in OwnStreams(s) THEN None ELSE target[st]]
    /\ UNCHANGED <<registryVars, toClose, clientVars>>

-----------------------------------------------------------------------------

FailoverNext ==
    \/ Fault
    \/ \E k \in Clients : Start(k) \/ ClientStep(k)
    \/ \E s \in Sessions : \/ RetireAbandoned(s) \/ KeepaliveFails(s)
                           \/ BrokerSession(s) \/ Recycle(s)
    \/ \E p \in Providers : BrokerProvider(p)
    \/ \E c \in Consumers : BrokerConsumer(c)
    \/ \E st \in Streams : BrokerStream(st)

FailoverSpec == FailoverInit /\ [][FailoverNext]_allVars

\* One end of the stream is closed, or both: its reads and writes fail or
\* time out.
Doomed(st) == ConsumerLeft(st) \/ (target[st] # None /\ yamux[target[st]] = "closed")

\* Clients that are up go on, goroutines run, an abandoned session is
\* retired in the end, and a stream ends that has lost an end.  Nothing else
\* makes a stream come or end, and no client that is down comes back by itself.
FailoverFairness ==
    /\ \A k \in Clients : WF_allVars(ClientStep(k))
    /\ \A s \in Sessions : /\ WF_allVars(RetireAbandoned(s)) /\ WF_allVars(Recycle(s))
                           /\ WF_allVars(BrokerSession(s))
    /\ \A p \in Providers : WF_allVars(BrokerProvider(p))
    /\ \A c \in Consumers : WF_allVars(BrokerConsumer(c))
    /\ \A st \in Streams : WF_allVars(Doomed(st) /\ BrokerStream(st))

FairFailoverSpec == FailoverSpec /\ FailoverFairness

-----------------------------------------------------------------------------

IsProvider(k) == IdsOf[k] \subseteq Providers

\* The clients' types; a session id that may be used again is not known to
\* anyone, neither a client's past nor the broker's table.
FailoverTypeOK ==
    /\ client \in [Clients -> ClientState] /\ faults \in 0..MaxFaults
    /\ \A k \in Clients : current[k] \in IdsOf[k] \cup {None}
    /\ \A k \in Clients : current[k] = None <=> client[k] \in {"down", "connecting"}
    /\ \A s \in Sessions : session[s] = "new" => Unknown(s)

Serves(k) == client[k] = "serving" /\ session[current[k]] = "open" /\ yamux[current[k]] = "open"

\* The endpoint works: a provider that is up serves the registered session.
Served == \E k \in Clients : IsProvider(k) /\ Serves(k) /\ Registered(current[k])

\* A provider that stays up is served in the end and for good, whatever has
\* failed before: an abandoned session stops blocking the endpoint, and a
\* provider that was refused is told and tries again.
ServedAgain ==
    \A k \in Clients : IsProvider(k) => (<>[](client[k] # "down") => <>[]Served)

\* A consumer that stays up has a session in the end and keeps it, although
\* each departure of a provider closes its consumers' sessions, some of them
\* late and after the next provider has come.
ConsumersReturn ==
    \A k \in Clients : ~ IsProvider(k) =>
        (<>[](client[k] # "down") => <>[](Serves(k) /\ pc[current[k]] = "accepting"))
=============================================================================
