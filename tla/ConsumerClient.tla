--------------------------- MODULE ConsumerClient ---------------------------
(***************************************************************************)
(* The consumer client, internal/consumer: Run with its reconnect loop,    *)
(* acceptLoop, which queues SOCKS5 connections across reconnects, one      *)
(* serveLoop goroutine per session, which takes them from the queue, and   *)
(* TunnelDialer.Dial, which opens a stream for each.                       *)
(*                                                                         *)
(* External: pollmux.ReconnectLoop calls Connect, then Serve, and starts   *)
(* over until its context is cancelled; go-socks5's ServeConn dials once   *)
(* and closes its connection; a yamux session closes when its transport    *)
(* fails, or because its peer closed it.  A select with several cases      *)
(* ready takes any of them.                                                *)
(***************************************************************************)
EXTENDS Naturals, Sequences, SequencesExt

CONSTANTS
    Conns,          \* TCP connections to the SOCKS5 port
    MaxRounds,      \* bound: how often the client connects to the broker
    QueueCap        \* the capacity of connQueue, 64

Rounds == 1..MaxRounds

ASSUME ClientAssumption == MaxRounds \in Nat /\ QueueCap \in Nat

VARIABLES
    cancelled,      \* Run's context is cancelled
    run,            \* where Run is
    round,          \* the round it is in: one Connect and one Serve
    yamux,          \* per round: its yamux session
    failed,         \* the rounds whose transport has failed
    loop,           \* per round: its serveLoop
    listening,      \* the SOCKS5 listener is open
    accept,         \* where acceptLoop is
    queue,          \* connQueue
    conn,           \* per TCP connection: its state
    servedBy        \* per TCP connection: the round whose session it is to dial on, or 0

vars == <<cancelled, run, round, yamux, failed, loop, listening, accept,
          queue, conn, servedBy>>
session == <<round, yamux, failed>>

RunState == {"connecting", "connected", "serving", "draining", "returned"}
ConnState == {"new", "backlog", "held", "queued", "handshake", "tunnelled", "closed"}

Init ==
    /\ cancelled = FALSE /\ run = "connecting" /\ round = 0
    /\ yamux = [g \in Rounds |-> "none"] /\ failed = {}
    /\ loop = [g \in Rounds |-> "none"]
    /\ listening = TRUE /\ accept = "accepting"
    /\ queue = <<>>
    /\ conn = [k \in Conns |-> "new"]
    /\ servedBy = [k \in Conns |-> 0]

Becomes(k, from, to) == conn[k] = from /\ conn' = [conn EXCEPT ![k] = to]

-----------------------------------------------------------------------------
(* External: the user's programs, the signal, the network, the broker. *)

ClientDials(k) ==
    /\ listening
    /\ Becomes(k, "new", "backlog")
    /\ UNCHANGED <<cancelled, run, session, loop, listening, accept, queue, servedBy>>

Cancel ==
    /\ ~ cancelled /\ cancelled' = TRUE
    /\ UNCHANGED <<run, session, loop, listening, accept, queue, conn, servedBy>>

TransportFails(g) ==
    /\ yamux[g] = "open" /\ g \notin failed
    /\ failed' = failed \cup {g}
    /\ UNCHANGED <<cancelled, run, round, yamux, loop, listening, accept,
                   queue, conn, servedBy>>

\* For a failed transport, or because the broker closed the session.
YamuxCloses(g) ==
    /\ yamux[g] = "open"
    /\ yamux' = [yamux EXCEPT ![g] = "closed"]
    /\ UNCHANGED <<cancelled, run, round, failed, loop, listening, accept,
                   queue, conn, servedBy>>

\* The tunnelled program hangs up, or its stream ends.
TunnelEnds(k) ==
    /\ Becomes(k, "tunnelled", "closed")
    /\ UNCHANGED <<cancelled, run, session, loop, listening, accept, queue, servedBy>>

-----------------------------------------------------------------------------
(* acceptLoop. *)

\* acceptCtx, derived from ctx; cancelAccept is deferred by Run.
AcceptCancelled == cancelled \/ run = "returned"

Accept(k) ==
    /\ listening /\ accept = "accepting"
    /\ accept' = "holding"
    /\ Becomes(k, "backlog", "held")
    /\ UNCHANGED <<cancelled, run, session, loop, listening, queue, servedBy>>

\* Accept fails for a moment, such as when no file descriptor is left:
\* whatever the error, acceptLoop returns.
AcceptFails ==
    /\ listening /\ accept = "accepting"
    /\ accept' = "stopped"
    /\ UNCHANGED <<cancelled, run, session, loop, listening, queue, conn, servedBy>>

AcceptClosed ==
    /\ ~ listening /\ accept = "accepting"
    /\ accept' = "stopped"
    /\ UNCHANGED <<cancelled, run, session, loop, listening, queue, conn, servedBy>>

\* Mutant: one too many.
HasSpace_OffByOne == Len(queue) <= QueueCap

HasSpace == Len(queue) < QueueCap

Enqueue(k) ==
    /\ accept = "holding" /\ accept' = "accepting"
    /\ HasSpace
    /\ Becomes(k, "held", "queued")
    /\ queue' = Append(queue, k)
    /\ UNCHANGED <<cancelled, run, session, loop, listening, servedBy>>

EnqueueCancelled(k) ==
    /\ accept = "holding" /\ accept' = "stopped"
    /\ AcceptCancelled
    /\ Becomes(k, "held", "closed")
    /\ UNCHANGED <<cancelled, run, session, loop, listening, queue, servedBy>>

\* The select's default: the connection is dropped.
QueueFull(k) ==
    /\ accept = "holding" /\ accept' = "accepting"
    /\ ~ HasSpace /\ ~ AcceptCancelled
    /\ Becomes(k, "held", "closed")
    /\ UNCHANGED <<cancelled, run, session, loop, listening, queue, servedBy>>

-----------------------------------------------------------------------------
(* Run: the reconnect loop with its Connect and Serve, and the drain. *)

\* A Connect that fails is tried again after the backoff.
Connect ==
    /\ run = "connecting" /\ ~ cancelled
    /\ round < MaxRounds
    /\ round' = round + 1
    /\ run' = "connected"
    /\ UNCHANGED <<cancelled, yamux, failed, loop, listening, accept, queue,
                   conn, servedBy>>

OpenYamuxFails ==
    /\ run = "connected" /\ run' = "connecting"
    /\ UNCHANGED <<cancelled, session, loop, listening, accept, queue, conn, servedBy>>

\* Mutant: the first session's serveLoop is meant to serve for all of them.
OpenYamux_OneLoop ==
    /\ run = "connected" /\ run' = "serving"
    /\ yamux' = [yamux EXCEPT ![round] = "open"]
    /\ loop' = IF round = 1 THEN [loop EXCEPT ![round] = "running"] ELSE loop
    /\ UNCHANGED <<cancelled, round, failed, listening, accept, queue, conn, servedBy>>

\* Serve opens the yamux session and starts its serveLoop ...
OpenYamux ==
    /\ run = "connected" /\ run' = "serving"
    /\ yamux' = [yamux EXCEPT ![round] = "open"]
    /\ loop' = [loop EXCEPT ![round] = "running"]
    /\ UNCHANGED <<cancelled, round, failed, listening, accept, queue, conn, servedBy>>

\* Mutant: Serve returns without closing its session.
ServeReturns_KeepsSession ==
    /\ run = "serving" /\ run' = "connecting"
    /\ UNCHANGED <<cancelled, session, loop, listening, accept, queue, conn, servedBy>>

\* ... and on its way out cancels serveCtx and closes the session.
ServeReturns ==
    /\ run = "serving" /\ run' = "connecting"
    /\ yamux' = [yamux EXCEPT ![round] = "closed"]
    /\ UNCHANGED <<cancelled, round, failed, loop, listening, accept, queue,
                   conn, servedBy>>

ServeShutdown == cancelled /\ ServeReturns

ServeTransportFailed == round \in failed /\ ServeReturns

ServePeerClosed == run = "serving" /\ round \notin failed /\ yamux[round] = "closed"
                       /\ ServeReturns

\* ReconnectLoop.Run returns.
LoopReturns ==
    /\ run = "connecting" /\ cancelled
    /\ run' = "draining"
    /\ UNCHANGED <<cancelled, session, loop, listening, accept, queue, conn, servedBy>>

Drain ==
    /\ run = "draining" /\ queue # <<>>
    /\ Becomes(Head(queue), "queued", "closed")
    /\ queue' = Tail(queue)
    /\ UNCHANGED <<cancelled, run, session, loop, listening, accept, servedBy>>

\* Mutant: the listener is not closed.
RunReturns_Listening ==
    /\ run = "draining" /\ queue = <<>>
    /\ run' = "returned"
    /\ UNCHANGED <<cancelled, session, loop, listening, accept, queue, conn, servedBy>>

\* The queue is found empty; cancelAccept and listener.Close are deferred.
RunReturns ==
    /\ run = "draining" /\ queue = <<>>
    /\ run' = "returned"
    /\ listening' = FALSE
    /\ UNCHANGED <<cancelled, session, loop, accept, queue, conn, servedBy>>

-----------------------------------------------------------------------------
(* serveLoop and the goroutine it starts for each connection. *)

ServeCancelled(g) == cancelled \/ ~ (run = "serving" /\ round = g)

LoopStops(g) ==
    /\ loop[g] = "running" /\ ServeCancelled(g)
    /\ loop' = [loop EXCEPT ![g] = "stopped"]
    /\ UNCHANGED <<cancelled, run, session, listening, accept, queue, conn, servedBy>>

\* Possibly although its context is cancelled.
Take(g) ==
    /\ loop[g] = "running" /\ queue # <<>>
    /\ Becomes(Head(queue), "queued", "handshake")
    /\ servedBy' = [servedBy EXCEPT ![Head(queue)] = g]
    /\ queue' = Tail(queue)
    /\ UNCHANGED <<cancelled, run, session, loop, listening, accept>>

\* Dial opens a stream on the session of its serveLoop and writes the header.
Dial(k) ==
    /\ Becomes(k, "handshake", "tunnelled")
    /\ yamux[servedBy[k]] = "open"
    /\ servedBy' = [servedBy EXCEPT ![k] = 0]
    /\ UNCHANGED <<cancelled, run, session, loop, listening, accept, queue>>

\* The handshake fails, the address is too long, or the stream cannot be
\* opened or written to; ServeConn closes the connection.
DialFails(k) ==
    /\ Becomes(k, "handshake", "closed")
    /\ servedBy' = [servedBy EXCEPT ![k] = 0]
    /\ UNCHANGED <<cancelled, run, session, loop, listening, accept, queue>>

-----------------------------------------------------------------------------

AcceptStep == \/ AcceptClosed
              \/ \E k \in Conns : \/ Accept(k) \/ Enqueue(k)
                                  \/ EnqueueCancelled(k) \/ QueueFull(k)

\* Opening the yamux session either succeeds or fails; so does the dial.
RunStep == \/ OpenYamux \/ OpenYamuxFails
           \/ ServeShutdown \/ ServeTransportFailed \/ ServePeerClosed
           \/ LoopReturns \/ Drain \/ RunReturns

LoopStep(g) == LoopStops(g) \/ Take(g)

ConnStep(k) == Dial(k) \/ DialFails(k)

Next ==
    \/ Cancel \/ Connect \/ RunStep
    \/ AcceptStep \/ AcceptFails
    \/ \E g \in Rounds : TransportFails(g) \/ YamuxCloses(g) \/ LoopStep(g)
    \/ \E k \in Conns : ClientDials(k) \/ ConnStep(k) \/ TunnelEnds(k)

Spec == Init /\ [][Next]_vars

\* The client's goroutines run.  No program need connect or hang up, the
\* broker need not answer, no transport fail and no signal come.
Fairness ==
    /\ WF_vars(RunStep) /\ WF_vars(AcceptStep)
    /\ \A g \in Rounds : WF_vars(LoopStep(g))
    /\ \A k \in Conns : WF_vars(ConnStep(k))

FairSpec == Spec /\ Fairness

-----------------------------------------------------------------------------

\* The variables' types; the queue holds the queued connections, each once,
\* and no more than it has room for.
TypeOK ==
    /\ cancelled \in BOOLEAN /\ listening \in BOOLEAN
    /\ run \in RunState /\ round \in 0..MaxRounds
    /\ yamux \in [Rounds -> {"none", "open", "closed"}] /\ failed \subseteq Rounds
    /\ loop \in [Rounds -> {"none", "running", "stopped"}]
    /\ accept \in {"accepting", "holding", "stopped"}
    /\ conn \in [Conns -> ConnState] /\ servedBy \in [Conns -> 0..MaxRounds]
    /\ ToSet(queue) = {k \in Conns : conn[k] = "queued"}
    /\ IsInjective(queue) /\ Len(queue) <= QueueCap

Up == run = "serving" /\ yamux[round] = "open" /\ ~ cancelled

\* The serveLoops of the sessions before this one.
OldLoops == {g \in Rounds : loop[g] = "running"} \ {round}

\* Once a session lasts, the serveLoops before it stop; and from when they
\* have, what is queued, before or during the session, is taken for the session
\* that is up, unless it ends first.  A connection an old serveLoop takes
\* before it stops is lost: its session is closed and the dial fails.
QueuedAreServed ==
    /\ <>[]Up => <>[](OldLoops = {})
    /\ \A k \in Conns :
          conn[k] = "queued" /\ Up /\ OldLoops = {}
              ~> ~ Up \/ (conn[k] = "handshake" /\ servedBy[k] = round)

\* Although the serveLoops and handshakes of several rounds overlap, nothing
\* is tunnelled over a session that Serve has left: a stream is opened on the
\* session Run is serving, or not at all.
DialsOnTheCurrentSession ==
    [][\A k \in Conns : conn[k] = "handshake" /\ conn'[k] = "tunnelled"
           => run = "serving" /\ servedBy[k] = round]_vars

\* Once cancelled, Run returns from wherever it is, and the goroutines it has
\* started end too: acceptLoop, which may be blocked in Accept, and the
\* serveLoops of all rounds.
CancelEndsRun ==
    cancelled ~> /\ run = "returned" /\ accept = "stopped"
                 /\ \A g \in Rounds : loop[g] # "running"

\* client.go:82-84: "A single persistent SOCKS5 TCP listener is created once
\* and kept alive for the entire lifetime of the process. This means the SOCKS5
\* port is always available to the browser, even during reconnects".
PortAlwaysAvailable == run \in {"connecting", "connected", "serving"} /\ ~ cancelled
                           => accept # "stopped"

=============================================================================
