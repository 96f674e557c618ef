# TLA+ verification of HttpBroker

HttpBroker tunnels SOCKS5 traffic through a rendezvous server that both sides
reach over plain HTTP.  A *consumer* runs next to a browser and offers a SOCKS5
port; a *provider* runs where the traffic should leave; the *broker* lets the
two find each other by an *endpoint* name.  This directory specifies the parts
of the program whose behaviour depends on the order of events, model-checks
them with TLC on small instances, and proves the most important safety
properties with TLAPS for every instance.

Source paths are relative to the repository (`src/` here).

## 1. The system

```
browser --TCP--> consumer --HTTP polls--> broker <--HTTP polls-- provider --TCP--> target
                 connQueue   pollmux+yamux  endpoints  pollmux+yamux
```

A client opens a *pollmux session* with `POST /tunnel/connect`, then long-polls.
A *yamux session* multiplexes streams over it.  The broker is yamux client
towards providers (it opens streams) and yamux server towards consumers.
Each SOCKS5 connection is one stream from consumer to broker; the broker finds
the endpoint's provider, waits for one if there is none, opens a stream to it
and copies both ways.

### Inventory

| Component | State | Operations | Hard behaviours | What makes it correct |
|---|---|---|---|---|
| **Endpoint registry** `internal/broker/endpoint.go` | table name -> `*Endpoint` (provider, consumers, their yamux sessions, count of waiters), bound of `maxEndpoints` | `SetProvider`, `RemoveProvider`, `AddConsumer`, `Forget`, `RegisterConsumerYamux`, `UnregisterConsumerYamux`, `WaitForProvider` | two methods keep a pointer after unlocking; an entry is reclaimed by whoever leaves last; the table may be full | a waiter's struct stays the one in the table; no entry leaks; the bound holds |
| **Relay and session hooks** `relay.go`, `onConnect`/`onDisconnect` of `server.go` | goroutine per session and per stream | `HandleProvider`, `HandleConsumer`, `bridgeStream` | cleanup runs from three places (deferred functions, `OnDisconnect`, another session's `RemoveProvider`) in any order; `OnDisconnect` may precede registration | a serving provider is registered and vice versa; everything drains; waits end |
| **Waiting for a provider** `WaitForProvider` | `ep.cond`, its mutex, a timer and a helper goroutine per call | the wait loop, `NotifyProviderArrived` | broadcasts without the lock; timers of one waiter wake others | returns a provider that was there or gives up because the consumer left, and does one of the two |
| **Fast reaper** `server.go` | `brokenPolls`, a ticker | `markBrokenPoll`, `sweepBrokenPolls` | overlapping polls of one session; checks and effects under different locks | a dead client's session goes within grace + interval; resumable ones are spared |
| **Start and stop** `Server.Start`, `Server.Stop`, `cmd/broker` | the HTTP server, the session store, two sweepers | as named | requests run during the drain, and outlive it; two goroutines race to the end of the process | Stop leaves nothing and terminates |
| **Consumer client** `internal/consumer/client.go`, `dialer.go` | SOCKS5 listener, `connQueue`, one `serveLoop` per session | `Run`, `acceptLoop`, `serveLoop`, `Dial` | old `serveLoop`s compete with the new one; selects with several ready cases; the queue fills | nothing is tunnelled over a session that was left; what is queued reaches the one that stays; cancelling ends everything |
| **Stream bridges** `bridgeStream`, `bridgeConns`, `internal/provider/handler.go` | two yamux streams, a TCP connection, four copying goroutines per tunnelled connection | `bridgeStream`, `Handle`, half-close across two hops | one direction ends before the other; a full pipe stalls one direction only; dials and links fail at any time | the two are one tunnel: all of a direction, then its end; everything returns |
| **Header scrubber** `internal/provider/scrubber.go` | `passThrough`, `skipBody`, `buf` | `Write` | request boundaries across arbitrary chunks, several requests in one | nothing but proxy headers is touched, nothing is lost, only unfinished heads are held back |
| **Provider client** `internal/provider/client.go` | the session it serves | `Run`: connect, serve, connect again | reconnecting while the broker still knows the old session; crashes at either side; lost answers | a provider that stays up is served in the end |
| **Auth, redirect, status, configuration, programs, scripts** | none, or read-only | stateless functions, flag and YAML parsing | -- | table tests cover them |

Interactions: pollmux calls `OnConnect`/`OnDisconnect`, once each per session,
in HTTP handlers or its sweeper; the hooks start the relay's goroutines and
call the registry; the registry closes other sessions' yamux sessions, which
closes the pollmux sessions under them; the reaper and `Stop` close pollmux
sessions, which come back through `OnDisconnect`.

**External** code, not in the repository: pollmux (session store, polling,
reconnect loop), yamux, go-socks5, `net/http`, `sync.Cond`.  It is modelled
from the way the source uses it, and marked `external` in PROJECT.json.

## 2. The modules

| Module | Models | Properties |
|---|---|---|
| `Directory` | abstract: what the registry promises the goroutines, a record per name | -- |
| `EndpointRegistry` | the registry: one operation per critical section | `RegistryTypeOK`, `WaiterNeverOrphaned`, `EntriesInUse`, `TableBounded`, refinement `DirectorySpec` |
| `Relay` (extends it) | the broker's goroutines calling the registry | `TypeOK`, `ServingIsRegistered`, `RegisteredIsServing`, `CountedConsumersKnown`, `QuietMeansEmpty`, `EndpointsIsolated`, `TableDrains`, `RetiredProviderLeaves`, `NoWaitForTheDeparted` |
| `ProviderPromise` | abstract: what `WaitForProvider` promises | -- |
| `ProviderWait` | condition variable, mutex, timers, helpers | `TypeOK`, `SleepersHaveTimer`, `HelperEnds`, refinement `KeepsPromise` |
| `FastReaper` | marks, sweeps and polls in discrete time | `TypeOK`, `MarksAreSwept`, `ResumableSpared`, `MidPollDeathIsReaped` |
| `BrokerProcess` | `Start`, `Stop` and `main` | `TypeOK`, `StopLeavesNothing`, `StopTerminates` |
| `ConsumerClient` | the consumer's loops around its queue | `TypeOK`, `DialsOnTheCurrentSession`, `QueuedAreServed`, `CancelEndsRun` |
| `Tunnel` | abstract: what a tunnelled connection promises at its two ends | -- |
| `Bridge` | `bridgeStream` and `Handle` in a row, with `Dial`'s header, the four copies and what the scrubber holds back | `TypeOK`, `Delivered`, `BridgesEnd`, refinement `TunnelSpec` |
| `Scrubber` | `ScrubConn` over a connection of symbols | `TypeOK`, `NothingCorrupted`, `AllWritten`, `OnlyHeadsHeld` |
| `Failover` (extends `Relay`) | clients that reconnect, and every process crashing | `FailoverTypeOK`, `ServedAgain`, `ConsumersReturn` |
| `MC*` | instances for TLC | -- |
| `*_proofs` (of `EndpointRegistry`, `Relay` with `Failover`, `ProviderWait`, `FastReaper`, `BrokerProcess`, `ConsumerClient`, `Bridge`, `Scrubber`) | theorems | see section 5 |

Definitions ending in `_Something` behind a comment "Mutant:" are slips a
programmer might make at that place; the specification never uses them.  Each
property comes with one that breaks it.

### How state and actions correspond to the code

**EndpointRegistry.**  `endpoints` is the map, `heap` the structs, `ref` the
`*Endpoint` a goroutine keeps after unlocking, so that a struct can be
reclaimed while somebody still points to it.  A struct's address is given out
by `GetOrCreate`/`Unused` when nothing points to it any more, as the garbage
collector would.  `PutOrDelete` ends every operation that calls
`deleteIfEmptyLocked`.  `RegisterConsumerYamux` is two operations, lookup and
store, because the code releases `r.mu` between them; `WaitForProvider` is
`Enroll`, `Leave` and the reads in between.  `ProviderSession` and
`ProviderYamux` are set and cleared together and share a field; `waiters`, a
counter, is the set of the streams it counts.  `Directory` keeps only the
record of each name: the locks, the two-step method and the reclaimed structs
behave as if every name always had its record, empty when nobody uses it.
`RecordAt` is the refinement mapping.  The store of `RegisterConsumerYamux`
into a struct that has left the table is the case where it maps to a stutter.

**Relay.**  `session` is the pollmux session's life, `yamux` the yamux
session's, `pc` the place of each goroutine between two of its effects.
`RemoveProvider` unlocks before it closes the consumers' yamux sessions, so
`toClose` keeps the list and `CloseConsumer` closes one at a time.  `target`
is the yamux session `WaitForProvider` has returned, which may be closed when
the stream is opened on it.  The bytes that flow through a bridge are not here.

**ProviderWait.**  `asleep` is the condition variable's notify list, `L` its
lock.  A waiter holds `L` for all of the loop except the sleep, as the code
does; providers broadcast without it, also as the code does.  Each `pc` value
stands between two operations on shared state.

**FastReaper.**  A request's handler drops, looks at the session (`MarkLooks`)
and records the mark (`MarkRecords`) in two steps, since the code holds no
common lock.  The sweep collects under `brokenPollsMu` and closes afterwards,
one at a time.

**BrokerProcess.**  `Stop` is four steps: `Shutdown` begins, returns, `All()`
is read, sessions close one by one.  Requests that were active when the drain
expired go on.  `late` observes which connect requests those were.

**ConsumerClient.**  A *round* is one Connect and Serve of the reconnect loop;
its yamux session and `serveLoop` outlive it.  `serveLoop`'s select may take a
connection although its context is cancelled; `Take` does, and such a connection
is lost, because `Dial` needs the session of its own round to be open.

**Bridge.**  Three links (two yamux streams and the TCP connection to the
target) have a pipe in each direction.  `wrote` and `read` count a pipe's
chunks, `fin` says that its writer has closed it.  A copier, one of the four
`io.Copy` goroutines, alternates between reading pipe j and writing pipe
j + 1, so what it holds between the two is the difference of the counters.
`broker` and `provider` are the places in `bridgeStream` and `Handle`, one
action for each effect and one for its error path.  Reading both parts of the
header is one action: only the end of the stream can come between them.
Closing is what the code closes: a copier of `bridgeConns` the stream it wrote
to, `Handle`'s two `CloseWrite` and `Close`, the deferred calls whatever is
left.  `fault` observes that something outside the two functions failed, and
`Tunnel` allows a direction to end early only then.

With `scrub_headers` on, which the shipped `configs/provider.yaml` sets,
`Handle` wraps the target in a `ScrubConn`, and the copier that writes to it may
read chunks without writing any: those of a request head that is not whole yet.
`Whole[n]` says how many of the client's first n chunks come before such a
head; it is a constant, since it depends on the client's data only.  `Held`
follows from it: 0 as long as the head is unfinished, all of it at once when it
is whole.  `Whole[n] = n` is the provider without a scrubber, and the proofs
hold for every `Whole` that `BridgeAssumption` allows.  The chunks that are
`Due` are what the tunnel promises: everything the client has sent, apart from a
head that it never finished.

**Scrubber.**  A connection is given as requests (lines and a body) and what
follows them; `Write` sees the symbols only.  `WellFormed` says what a client
may send: requests whose bodies have the length their heads declare, and then
one whose body's length cannot be known, or data that does not look like HTTP,
or nothing.  One symbol (`Symbols`) stands for what one branch of the code
looks at: a method that begins like another, a line end, a proxy header, a
Content-Length, a header that makes the length unknown; `Data` are the symbols
no branch looks at.  Bodies and tails may hold any symbol.  A call of `Write` is
one action per state it passes through, `p` being what it has still to deal
with; the recursive call for what follows a head is the next action.  The
target may fail in any write, after any part of it.

**Failover.**  `client` and `current` are where a client's reconnect loop is
and the session it holds; the broker is all of `Relay`, with its streams and
with a yamux session that does not start (`OpenYamuxFails`, a fault; its client
notices by its keepalives, `NeverAnswers`).  A client leaves a
session by losing its transport or by crashing, and the broker goes on knowing
it until `RetireAbandoned`.  `BrokerCrashes` resets every variable of `Relay`;
the clients find their sessions unknown.  A consumer's new session has new
streams: `Recycle` resets those of the id it gives out again.

### Modelling decisions a reader should know

- Session ids are never reused (pollmux draws them at random).  In `Failover`,
  where sessions must not run out, an id stands for a new session once nobody
  knows the old one; `FailoverTypeOK` says that nobody does.
- `Retire` waits until `onConnect` has returned: clients learn the id from the
  response, and idle timeouts run from then.  `Stop` is the exception: it lists
  whatever is in the store (`server.go:409`), and may close a session whose
  `onConnect` is still under way.  `Relay` leaves that corner of a shutdown out;
  what `Stop` races with is the subject of `BrokerProcess`.
- `Start` that fails to bind its port is left out of `BrokerProcess`: it returns
  before there is a request, and the process ends.
- A timer of `ProviderWait` fires only once its waiter is asleep: thirty
  seconds pass between `AfterFunc` and firing, and no call that may block
  stands between `AfterFunc` and the sleep.
- A sweep that is due in `FastReaper` runs before the next tick.
- `Serve`'s two deferred functions (`cancelServe`, `sess.Close`) run as one step.
- In `Relay` the waiters look again at any time (a wake-up is not modelled);
  when they wake is the subject of `ProviderWait`.
- A failed connect attempt of the consumer changes nothing and is not a step
  of `ConsumerClient`; in `Failover`, where it may leave a session behind, it is.
- A yamux stream's `Close` closes one direction; both sides must close for the
  stream to go, or `StreamCloseTimeout` resets it (`StreamTimesOut`).  After a
  link breaks its readers may find what had arrived, or the end at once: a
  stream of a dead session ends with EOF.
- The target's connection is reset when `Handle` returns before the target has
  closed, and when data it sent is unread; that is TCP's `Close`.
- A broker-side stream and its provider's side begin together (`OpenStream`);
  if the session breaks first, `ReadAddressFails` stands for nobody being there.

## 3. The runs

Twelve runs; the longest takes about two minutes on two cores.
Distinct states in brackets where a run is large.

| Run | What it asks | Instance |
|---|---|---|
| `RelaySessions` | Providers fail over on one name, consumers come and go, in every interleaving | 2 providers, 2 consumers, 3 structs |
| `RelayStreams` | Streams wait, reach and lose a provider; the table is bounded and does not leak; endpoints do not touch each other while one struct serves two names in turn; the registry implements the directory; liveness | 2 names, room for 1, 1 provider, 2 consumers, 1 stream |
| `ProviderWait` | The condition variable implements the promise | 2 waiters, a provider comes up to twice |
| `FastReaper` | Marks, sweeps and polls interleave | 2 sessions, 2 and 1 overlapping requests, grace 5, interval 2 (the code's) [213,456] |
| `Failover` | Do the endpoint and its consumer recover | 1 provider process with two sessions, 1 consumer with 1 stream, 1 fault [157,049] |
| `Bridge` | Do two hops make one tunnel; does everything end | 2 chunks up, a head that only the second completes, 1 down, pipes of 1 [126,132] |
| `Scrubber` | Every way of cutting a connection into writes | up to 3 requests of 6 shapes, 3 tails, buffer of 7 symbols [566,284] |
| `BrokerStop` | Stop against connects, polls that hang, DELETEs and sweepers | 2 sessions |
| `ConsumerClient` | The queue across reconnects, with old and new `serveLoop`s at it; cancellation anywhere | 3 connections, queue of 2, 2 rounds [142,314] |
| `RelayTracked`, `BrokerExit`, `ConsumerPort` | A comment of the source, which the code does not live up to | the smallest that shows it |

Why the bounds are enough.  The registry compares names and ids only for
equality; two names and room for one give a full table with one entry in
dispute.  Two providers are needed for a predecessor and its successor, two
consumers for one that goes while another stays.  `Objects` holds one struct
per place in the table and one for every pointer that can be stale at once;
`RelayStreams` allows one stale pointer, so two consumers are never both
between lookup and store on reclaimed structs there (in `RelaySessions` they
are).  Two waiters let a timer or broadcast meant for one wake another; two
arrivals let a provider go and come back between a check and a sleep
(`MaxArrivals`).  Two requests on one session overlap, a second session lets
one sweep collect two marks and treat them differently.  Two rounds
(`MaxRounds`) give one old `serveLoop` besides the current; a queue of two
(`QueueCap`, 64 in the code) fills with three connections.  Symmetry is used only where no temporal property is checked.

`Bridge` needs a direction that holds back more than one chunk and one that can
stall.  Up, the first of the client's two chunks is a head that the second
completes (`Whole` is 0, 0, 2): the target gets nothing, then both, or nothing
and the end if the client closes after the first.  Held at once, two chunks are
more than the last pipe takes (`Window` 1), so that the copier stalls while the
other direction must go on; down it is one chunk without a header, up the
header comes first.  `Scrubber`'s shapes are a head without a body, heads with a proxy
header, bodies that look like a header, a method and the end of a head, and a
head too long for `MaxHeader` (64 KiB in the code); the code treats all `Data`
alike, so one symbol of it is enough; with three requests
(`MaxRequests`) one write can hold the end of one, all of the next and the
beginning of a third.  `Failover` allows one fault (`MaxFaults`) at any
moment, with a stream that waits, is bridged or ends meanwhile; two do not fit
into the time a run should take (the theorems of section 5 hold for any
number).  Departures of providers repeat without being faults, since each retired session closes its consumers'.  The
provider has two session ids, so that it can be refused because of the session
it has left, as a standby would be because of another's; who refuses whom makes
no difference to the broker.

Deadlock is checked in every run of the relay, the waiting and the reaper: an
explicit `Idle` step marks the states of `Relay` and `ProviderWait` in which
everything is over, and the reaper's clock never stops.  It is off where the program really stops or has nothing
left to do (`BrokerStop`, `ConsumerClient`, the two violations shown on them, `Bridge`,
`Scrubber`, and `Failover` once all is well).

### Fairness

Always weak fairness of steps the code takes by itself, and never of what
clients, programs or the network do.

- `Relay`: each goroutine runs; pollmux calls `OnDisconnect` for a retired
  session; yamux sees the end of a closed connection.  Not fair: connecting,
  retiring, a header arriving, a bridge ending.
- `ProviderWait`: strong fairness on taking the lock, because `sync.Mutex`
  hands itself over to a starving waiter; weak for timers, helpers and the
  pending broadcast.
- `FastReaper`: time passes and the sweep runs; a dropped request's handler
  finishes.
- `BrokerProcess`: `Stop` and `Start` run while the process does; requests
  need not end.
- `ConsumerClient`: its goroutines run; the broker need not answer a connect.
- `Bridge`: the two functions and their copies run.  What a property needs of
  the world it states itself, as a premise.  `Delivered` needs that nothing
  fails, that a provider is found and that the receiver of this direction
  reads; the other direction's may not.  `BridgesEnd` needs that the search for
  a provider ends, that both programs read, that a target closes once it has
  seen the end, and yamux's `StreamCloseTimeout`; it needs no close by
  the client, whose program may keep its side open.
- `Failover`: goroutines run and clients that are up go on trying; an abandoned
  session is retired in the end, by the reaper or pollmux's idle sweep, which
  is what both are for; a stream that has lost an end ends, by the copies and
  `StreamCloseTimeout` (`BridgesEnd` of `Bridge`), while no stream need come, and
  none that has both ends need end; a spent id becomes a new one (`Recycle`), as a new
  random id would.  Faults stop after `MaxFaults`: no promise of recovery can
  do without that.  Nothing that is down need come up.

## 4. What the checks found

Each is a run of its own, and a finding in PROJECT.json with the comment it
contradicts.

- **RelayTracked** -- a consumer between `onConnect` and
  `RegisterConsumerYamux` while the provider leaves ends up served but on
  nobody's list: `RemoveProvider` has dropped the consumer's entry with the
  endpoint, `RegisterConsumerYamux` finds none and returns silently.
- **BrokerExit** -- `ListenAndServe` returns as soon as `Shutdown` begins, so
  `main` returns and the process ends before `Stop` has closed the sessions.
- **ConsumerPort** -- `acceptLoop` ends on any error of `Accept` and `Run` goes
  on without it, with an open listener nobody accepts from.

Met while modelling and not given a run:

- `NotifyProviderArrived` broadcasts without `cond.L`, so a waiter between its
  check and `Wait` misses it and sleeps until its timer, up to 30 s with a
  provider there.  `KeepsPromise` shows the timer is enough for the promise.
- The reaper's grace measures the age of the mark, not quiet: a session that
  has polled healthily since may be evicted between two polls.
- `RegisterConsumerYamux` can write to a struct that has left the table
  (harmless by itself, `ref` models it); `OnDisconnect` can still be called
  after `Stop` has returned, for a DELETE that outlived the drain; the
  consumer's final drain can miss a connection `acceptLoop` is holding.
- A `serveLoop` whose session has ended may win its last select with a
  connection from the queue (`client.go:263-266`).  It is dialled on the closed
  session and dropped, although the next session could have served it.
  `DialsOnTheCurrentSession` says that it is never tunnelled instead, and
  `QueuedAreServed` promises a queued connection its session only once the old
  `serveLoop`s have stopped.
- The scrubber never flushes what it holds when its input ends: data that
  begins like a request but is none ("GET key" of a line protocol, with no
  blank line) reaches the target only with a later write, if there is one,
  although `scrubber.go:34` promises non-HTTP "passes through unchanged".
- Whether a head longer than `maxHeaderBytes` is scrubbed depends on how it is
  cut into writes: the limit is looked at only while its end is missing.
  `Renderings` allows both.
- `plans/architecture.md:347` still says the scrubber stops after the first
  request; the code scrubs each.  So is `:339` out of date, "Closes both when
  either direction finishes": each direction closes what it writes to, and
  `Handle` waits for both.
- The death of a session reads like a clean end of its streams, so a truncated
  response is not distinguishable from a complete one at the target's or the
  browser's side; `Tunnel` says so by allowing `End` after `Fail`.
- A target that neither closes nor writes after it has seen the end keeps
  `Handle` and its connection for ever.
- `StreamCloseTimeout` cuts off a direction that is still busy when the other
  has been closed for that long.

## 5. What is proved

The theorems hold for every value of the constants: any sets of names,
sessions, streams, requests and connections, finite or not (names are finite,
since they are counted), any bounds, graces and capacities.  Their only
assumptions are the named ones of the modules, which TLC evaluates in the runs.
`RegistryAssumption`, the one with most to say: `None` is no address and no
provider, the three kinds of identity are disjoint, names are finite and each
session declares one.  `FailoverAssumption` adds that clients have their own
session ids.  `ScrubberAssumption` says that connections are `WellFormed` (of
any number and length).  `BridgeAssumption` says that `Whole` never counts more
chunks than there are and never takes one back.  The others say which constants are numbers, and that a
process name is not also the name of nobody.

| Component | Inductive invariant | Follows |
|---|---|---|
| registry | `RegistryInv` | `WaiterNeverOrphaned`, `EntriesInUse`, `TableBounded`, refinement of `Directory` |
| relay | `ServingInv`, `Typed`, `TidyInv`, `Isolated` | `TypeOK`, `ServingIsRegistered`, `RegisteredIsServing`, `CountedConsumersKnown`, `QuietMeansEmpty`, `EndpointsIsolated`, and what is proved of the registry |
| failover | `FailoverInv` | `FailoverTypeOK`, and all of the above under crashes |
| waiting | `WaitInv` | `TypeOK`, `SleepersHaveTimer`, refinement of `ProviderPromise`'s safety |
| fast reaper | `ReaperInv` | `TypeOK`, `MarksAreSwept`, `ResumableSpared` |
| start and stop | `BrokerInv` | `TypeOK`, `StopLeavesNothing` |
| consumer client | `ClientInv`, `SessionInv` | `TypeOK`, `DialsOnTheCurrentSession` |
| bridges, with and without the scrubber | `BridgeInv` | `TypeOK`, refinement of `Tunnel` |
| scrubber | `ScrubInv` | `TypeOK`, `NothingCorrupted`, `OnlyHeadsHeld`, `AllWritten` |

### The registry

`EndpointRegistry_proofs` proves `RegistrySpec => []RegistryInv`, with

    RegistryInv == TableInv /\ WaiterNeverOrphaned /\ PointersOwn
    TableInv    == RegistryTypeOK /\ EntriesInUse /\ TableBounded

None of the conjuncts is inductive alone.  That a waiter's struct is not
reclaimed needs that no two names share a struct (in `RegistryTypeOK`), or
emptying one name's struct would empty another's.  That a new struct differs
from every waiter's needs both the definition of `Unused` and
`WaiterNeverOrphaned` itself.  `PointersOwn` says that the struct a consumer
keeps a pointer to is in the table under the consumer's own name or not at all:
without it a late store of `RegisterConsumerYamux` could show up under another
name.  Two lemmas carry the argument: `GrowInv` for operations that store a
record that is in use, and `ShrinkInv` for those that end in
`deleteIfEmptyLocked`; each operation instantiates one of them.

`RegistryIsDirectory` is `RegistrySpec => DirectorySpec`.  Each method maps to
the directory's step of the same name or, where it is refused or writes to a
reclaimed struct, to a stutter; the lemmas `...Dir` are one per method.  The
condition for room agrees because the entries of the table are exactly the
names in use (`EntriesInUse`).

### The relay

`Relay_proofs` proves four things of the relay, after a lemma.

- The lemma `RelayCallsRegistry`, `Spec => RegistrySpec`, says nothing new: each
  action of `Relay` is written as one call of the registry or none.  It carries
  what is proved of the methods, called in any order, over to the goroutines
  (`RelayWaitersSafe`, `RelayHasDirectory`).
- `ServingInvariant`: who serves and who is registered agree.  The invariant

      ServingInv == RegistryInv /\ ControlOK /\ Serving /\ Placed

  states the two properties in terms of `ProviderAt(n)`, the provider the name
  `n` has: `Serving` is `ServingIsRegistered`, `Placed` is `RegisteredIsServing`.
  Neither is inductive alone: a provider's deferred `RemoveProvider` leaves its
  successor in place only because the name has one provider, which is one
  that serves (`Placed`), and a provider that leaves clears its name only if
  nobody else has taken it (`Serving`).  `RegistryInv` keeps the methods'
  effects to one name, `ControlOK` types `pc` and `session`.  What a method does
  to each field of the records follows from its `...Dir` lemma (the lemmas
  `...At`), `NeutralStep` disposes of all steps that change neither
  `ProviderAt` nor who is serving, and the three that do (`Register`,
  `ProviderLeaves`, `OnDisconnect`) are done one by one.  `ServingRegistered`
  and `RegisteredServes` follow.
- `RelayType`: every variable keeps its type, and goroutines' locals are set
  only where they are used.
- `TidyInvariant`: nothing is left behind.

      TidyInv == RegistryInv /\ TypeOK /\ Tidy
      Tidy    == Connecting /\ Counted /\ Attached /\ Waiting

  gives every use of a record somebody who will end it: a counted consumer a
  session that pollmux has still to hand to `OnDisconnect`, a listed yamux
  session an accept loop that will take it off when it ends, a counted waiter a
  stream that holds the pointer it will leave by.  `Connecting` is there because
  `AddConsumer` counts a session before `onConnect` has returned.
  `CountedKnown` is `Counted`.  `QuietEmpty` follows with `Placed`: when every
  session is forgotten and every goroutine done, none of the four users of a
  record can exist, so the record is empty and its entry gone (`EntriesInUse`).
- `EndpointsApart`: no endpoint's provider evicts another's consumers, and no
  stream reaches another's provider.

      Isolated == OwnConsumersToClose /\ OwnTarget /\ Targeted

  relative to `ServingInv` and `TidyInv`.  The list `RemoveProvider` takes is
  read from the record of the provider's own name, and `Attached` says whom it
  may hold: consumers of that name.  A waiting stream reads its provider through
  the pointer it kept; `WaiterNeverOrphaned` says that it still leads to the
  record of its own name, and `Placed` that only a provider of that name is in
  it.  Without either, a struct reused for another name would show here.

### Failover

The last part of `Relay_proofs` proves that one broker's invariants survive
everything `Failover` adds:

    FailoverInv == RelayInv /\ Isolated /\ Aimless /\ Fresh /\ ClientsOK

`RelayInv` is the relay's three invariants together.  A step of the relay keeps
them by the theorems above, a broker that crashes comes back in a state they
begin with, and a recycled id is the case that needs work: making a session
`new` again keeps them only if nobody knows it, and `Fresh` says that a session
that is `new` is unknown, to the table, to the lists of sessions to close and to
the goroutines, streams included.  It is inductive because only a session's own
goroutine brings it into the table (`NewNotBrought`), and because a stream gets
a provider's session as its target only while the table has it: `Aimless` says
that a stream that is still looking has none.  `FailoverSafe` states nine of the
registry's and the relay's invariants of `FailoverSpec`.  The run checks
`FailoverTypeOK` alone; the theorem holds for any number of faults.

### The others

- `ProviderWait_proofs`: `WaitInv == TypeOK /\ Armed`.  That a sleeper has its
  timer needs that it was armed where the waiter is about to sleep, and that
  a timer is taken away only by its own waiter's `Stop` or by firing, which
  wakes everyone.  `WaitPromised` is `Spec => Promise!Spec`: looking,
  sleeping and being woken are stutters of the promise, and a waiter's return
  value is justified at the step that decides on it.
- `FastReaper_proofs`: `ReaperInv == TypeOK /\ Young /\ Spared`.  `Young`
  refines `MarksAreSwept` by the time since the last sweep: a mark is younger
  than the grace and that.  A tick ages both by one, and a sweep that resets
  the time takes every mark of the grace or older.  `Spared` extends
  `ResumableSpared` to the handlers between their look and their mark.
- `BrokerProcess_proofs`: `BrokerInv` describes `Stop` stage by stage.  `Door`:
  no request arrives once it has begun.  `Drained`: if the drain ended in time
  there are none left.  `Listed`: after `All()` has been read, who is stored is
  on the list or connected late, and nobody is late unless the drain expired.
  `Emptied`: `Stop` returns with an empty list.  `Once`, one session to one
  connect request, is what keeps an ended session from coming back.
- `ConsumerClient_proofs`: that `connQueue` holds exactly the connections that
  are `queued`, each once, rests on lemmas about sequences without duplicates
  (`QueueAppend`, `QueueTail`).  `SessionInv == ClientInv /\ OneSession /\
  Assigned` adds that the only session that is open is the one `Run` serves,
  which is the work of the deferred `sess.Close`, and that a connection in its
  handshake belongs to some round.  `DialledOnCurrent` follows: whichever
  `serveLoop` took a connection, a stream is opened for it on the session being
  served or not at all.

### The bridges

`Bridge_proofs` proves, for pipes of any size (`Window`), any amount of data in
each direction and any way it falls into request heads (`Whole`), that the two
bridges implement the tunnel: `BridgeIsTunnel` is `Spec => TunnelSpec`.  What
the tunnel promises up, with the scrubber on, is the data that is `Due`: a head
counts once it is whole.  One that stays unfinished may be lost, and the target
sees the end without it; that is what the code does (section 4).  The invariant is

    BridgeInv == Hops /\ Limited
    Hops      == Types /\ Bounded /\ Holds /\ Headed /\ Orderly

`Holds` says that a copier has at most one chunk in its buffer, and the one
behind the scrubber no less than none, so that nothing arrives that was not
sent; it needs `Headed`, which says where the header is while the copiers start,
or a copier could begin a chunk ahead or behind.  `Limited` keeps the client
within its `MaxData` chunks, for which `Whole` is defined; that `Whole` is
monotone is why reading on never makes the scrubber have written too much.
`Orderly` says that while nothing outside has failed a copier has closed its
pipe exactly when it has ended, and then the pipe before it is closed and empty
and it has written all that is to be written of what it read.  Followed from the last pipe to the first this is the
promise: the end comes after everything (`NothingMissing`).  It is inductive
because a closed pipe refuses writes, and because the two error paths that
close a stream without recording a fault (`WriteHeaderFails`,
`ReadAddressFails`) are reachable only after one.  `StepIsTunnelled` maps the
programs' own steps to `Send`, `Close`, `Deliver` and `End`, faults to `Fail`,
and everything between the ends to a stutter.

### The scrubber

`Scrubber_proofs` proves the scrubber's four invariants for connections of any
length, any cut into writes and a buffer of any size.  Where the connection is
at is a number: `At(c, k)` is where the first `k` requests end, `CleanTo(c, k)`
what a target should have by then, and `Between` the symbols from one place to
another.  The invariant

    ScrubInv == TypeOK /\ (failed => NothingCorrupted)
                /\ out \in Seq(Symbols) /\ (~ failed => InPlace(...))

says that what has been written, what the buffer holds and what the current
call of `Write` has left are consecutive parts of the connection (`Where`), and
that `ScrubConn`'s three fields agree with the place between them (`Doing`):

- `AtHead`: exactly `k` requests have been written, and the buffer holds the
  beginning of something that may be a head, with no end of a head in it;
- `InBody`: `skipBody` symbols are left to the end of request `k`;
- `Through`: what remains is never looked at again, because request `k` was the
  last one or the next one's head is longer than the limit.

The code keeps no `at` and no `k`; that they exist is what makes its fields
right.  The three lines of the argument are: the first blank line in the buffer
is the end of this request's head, since no line of a head is empty;
scrubbing that head line by line gives the head without its proxy headers, and
what `bodyPlan` finds in it is what the request declares (`BodyPlanned`); and what
follows a request is another request, or does not look like one.  Once the target has failed nothing is
written, and what was stays the beginning of a rendering.

`FlattenSeq` is a recursive function, which a proof can only use through
induction.  The library's induction theorems take an operator as parameter and
cannot be used; the lemma `Induction` states induction for a set, and follows
from the well-foundedness of `<` on the naturals, which the library states as a
fact about a relation.  With it `FlattenSeq` is shown to be the last value of
an accumulator, and its other properties follow from that.

### Model-checked only

Every liveness property, and the fairness half of `KeepsPromise`: liveness and
`ENABLED` are outside the prover's reach.  Every invariant of a passing run is
proved; the action properties are proved where they are safety.

## 6. Not modelled

- The read-only reports: `/status`, `ConsumerCount`, `HasProvider`, the resume
  deadlines and the log level that depends on them.  They take a snapshot under
  the lock and no code acts on them.
- `authenticateConnect`, `TokenAuthenticator`, `AuthMiddleware`, the redirect
  and the configuration: functions of their input, without state, covered by
  table tests.
- Programs apart from the broker's `main`: flags, and a context cancelled by a
  signal, which is `Cancel` of `ConsumerClient`.
- Header names, upper and lower case and malformed header lines in the
  scrubber; go-socks5's own copying at the consumer, which is external.
- Scripts and container files.

## 7. Plan

Order of work, most important behaviour first.  Done: all of these.

1. `EndpointRegistry`, then its proofs.
2. `Relay` over it, its proofs, and the refinement.
3. `ProviderPromise` and `ProviderWait`.
4. `FastReaper`.
5. `BrokerProcess`.
6. `ConsumerClient`.
7. `Tunnel` and `Bridge`, with the proof of the refinement.
8. `Scrubber`.
9. `Failover`.

10. `Directory` and the registry's refinement of it; the invariants `TidyInv`,
    `FailoverInv`, `WaitInv`, `ReaperInv`, `BrokerInv` and `ClientInv`.

11. `Scrubber`'s proof; `EndpointsIsolated` and `DialsOnTheCurrentSession` with theirs.

Left: for `FastReaper`, an action property that a sweep closes only what it
has listed and no poll is using; for `Relay`, a `Stop` that meets `onConnect`; for
`BrokerProcess`, a port that cannot be bound; for `Bridge`, that `Handle` has returned only when its
copies have; for `EndpointRegistry`, the read-only reports.

## 8. Running

    tlc -workers 2 -config RelaySessions.cfg MCRelay.tla
    tlapm Relay_proofs.tla
