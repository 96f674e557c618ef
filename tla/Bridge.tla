------------------------------- MODULE Bridge -------------------------------
(***************************************************************************)
(* One tunnelled connection, from the consumer's program to the target and *)
(* back: internal/broker/relay.go, bridgeStream and bridgeConns, and       *)
(* internal/provider/handler.go, Handle, in a row, with the address header *)
(* TunnelDialer.Dial writes in front of the data.                          *)
(*                                                                         *)
(* Three links carry it: 1 is the yamux stream from consumer to broker, 2  *)
(* the one from broker to provider, 3 the provider's TCP connection to the *)
(* target.  Data flows up 1, 2, 3 and down 3, 2, 1; pipe i of a direction  *)
(* is the i-th it passes, so that copier j takes from pipe j and writes to *)
(* pipe j + 1.  A pipe is counted in chunks and holds at most Window.      *)
(*                                                                         *)
(* With scrub_headers on, copier 2 up writes to the target through a       *)
(* ScrubConn, internal/provider/scrubber.go, which keeps a request head    *)
(* until it is whole and never flushes one that stays unfinished.  Whole   *)
(* says how the client's data falls into such heads; what is done to the   *)
(* bytes of a head is module Scrubber.                                     *)
(*                                                                         *)
(* External: a yamux stream's Close ends only what its caller writes, like *)
(* a TCP connection's CloseWrite.  A link that breaks fails every write;   *)
(* its readers may still find what had arrived, or an end, which for a     *)
(* dead session looks like any other.  A stream that one end has closed    *)
(* and the other has not is reset after yamux's StreamCloseTimeout.        *)
(***************************************************************************)
EXTENDS Naturals

CONSTANTS
    Window,       \* how many chunks a pipe holds
    MaxData,      \* bound, per direction: how many chunks its program writes
    Whole         \* of the client's first n chunks, those that come before a
                  \* request head they leave unfinished; n without a scrubber

Dirs == {"up", "down"}

\* Each further chunk leaves the same head unfinished, or ends it.
ASSUME BridgeAssumption ==
    /\ Window \in Nat \ {0} /\ MaxData \in [Dirs -> Nat]
    /\ Whole \in [0..MaxData["up"] -> Nat]
    /\ \A n \in 0..MaxData["up"] :
           Whole[n] <= n /\ \A m \in 0..n : Whole[m] <= Whole[n]

Pipes == 1..3
Copiers == 1..2
Links == 1..3

VARIABLES
    wrote,        \* per direction and pipe: chunks written to it
    read,         \* per direction and pipe: chunks read from it
    fin,          \* per direction and pipe: its writer has closed it
    broken,       \* the links that are gone
    fault,        \* observer: something outside the two bridges has failed
    broker,       \* where bridgeStream is
    provider,     \* where Handle is
    copier,       \* per direction: its two io.Copy goroutines
    ended         \* per direction: the program at its end has seen the end

pipeVars == <<wrote, read, fin>>
bridgeVars == <<broker, provider, copier>>
vars == <<pipeVars, broken, fault, bridgeVars, ended>>

Link(d, i) == IF d = "up" THEN i ELSE 4 - i

\* One chunk in the first two pipes up is the header, not data.
Header(d, i) == IF d = "up" /\ i < 3 THEN 1 ELSE 0

\* Of the first n chunks of data a copier reads, those it writes on.
Forwards(d, j, n) == IF d = "up" /\ j = 2 THEN Whole[n] ELSE n

\* What a copier has yet to write of what it has read.
Held(d, j) == Forwards(d, j, read[d][j] - Header(d, j)) - (wrote[d][j + 1] - Header(d, j + 1))

Readable(d, i) == read[d][i] < wrote[d][i]

AtEnd(d, i) == \/ fin[d][i] /\ ~ Readable(d, i)
               \/ Link(d, i) \in broken

Refused(d, i) == fin[d][i] \/ Link(d, i) \in broken

Writable(d, i) == ~ Refused(d, i) /\ wrote[d][i] - read[d][i] < Window

Read(d, i) == Readable(d, i) /\ read' = [read EXCEPT ![d][i] = @ + 1]

Write(d, i) == Writable(d, i) /\ wrote' = [wrote EXCEPT ![d][i] = @ + 1]

Init ==
    /\ wrote = [d \in Dirs |-> [i \in Pipes |-> 0]]
    /\ read = [d \in Dirs |-> [i \in Pipes |-> 0]]
    /\ fin = [d \in Dirs |-> [i \in Pipes |-> FALSE]]
    /\ broken = {} /\ fault = FALSE
    /\ broker = "header" /\ provider = "none"
    /\ copier = [d \in Dirs |-> [j \in Copiers |-> "idle"]]
    /\ ended = [d \in Dirs |-> FALSE]

-----------------------------------------------------------------------------
(* The links (external). *)

Exists(l) == CASE l = 1 -> TRUE
               [] l = 2 -> provider # "none"
               [] l = 3 -> provider \in {"bridging", "returned"}

LinkBreaks(l) ==
    /\ Exists(l) /\ l \notin broken
    /\ broken' = broken \cup {l}
    /\ fault' = TRUE
    /\ UNCHANGED <<pipeVars, bridgeVars, ended>>

\* StreamCloseTimeout; a TCP connection has none.
StreamTimesOut(l) ==
    /\ fin["up"][l] # fin["down"][4 - l]
    /\ LinkBreaks(l)

-----------------------------------------------------------------------------
(* The two programs (external), and Dial on the consumer's behalf. *)

\* Dial writes the header before anyone else can write to the stream.
Dial ==
    /\ wrote["up"][1] = 0
    /\ Write("up", 1)
    /\ UNCHANGED <<read, fin, broken, fault, bridgeVars, ended>>

\* The target may write once it is connected.
MayWrite(d) == IF d = "up" THEN wrote["up"][1] > 0 ELSE provider = "bridging"

EndWrites(d) ==
    /\ MayWrite(d)
    /\ wrote[d][1] - Header(d, 1) < MaxData[d]
    /\ Write(d, 1)
    /\ UNCHANGED <<read, fin, broken, fault, bridgeVars, ended>>

EndCloses(d) ==
    /\ d = "down" => provider = "bridging"
    /\ ~ fin[d][1]
    /\ fin' = [fin EXCEPT ![d][1] = TRUE]
    /\ UNCHANGED <<wrote, read, broken, fault, bridgeVars, ended>>

EndReads(d) ==
    /\ ~ ended[d]
    /\ Read(d, 3)
    /\ UNCHANGED <<wrote, fin, broken, fault, bridgeVars, ended>>

EndSeesEnd(d) ==
    /\ ~ ended[d] /\ AtEnd(d, 3)
    /\ d = "up" => Exists(3)
    /\ ended' = [ended EXCEPT ![d] = TRUE]
    /\ UNCHANGED <<pipeVars, broken, fault, bridgeVars>>

-----------------------------------------------------------------------------
(* io.Copy, one goroutine for each direction at each of the two hops. *)

\* A chunk of an unfinished head leaves nothing to write: io.Copy reads on.
CopyReads(d, j) ==
    /\ copier[d][j] = "copying" /\ Held(d, j) = 0
    /\ Read(d, j)
    /\ UNCHANGED <<wrote, fin, broken, fault, bridgeVars, ended>>

CopyWrites(d, j) ==
    /\ copier[d][j] = "copying" /\ Held(d, j) > 0
    /\ Write(d, j + 1)
    /\ UNCHANGED <<read, fin, broken, fault, bridgeVars, ended>>

\* At the end of its input nothing flushes what ScrubConn keeps.
CopyStops(d, j) ==
    /\ copier[d][j] = "copying"
    /\ \/ Held(d, j) = 0 /\ AtEnd(d, j)
       \/ Held(d, j) > 0 /\ Refused(d, j + 1)
    /\ copier' = [copier EXCEPT ![d][j] = "done"]

Other(d) == IF d = "up" THEN "down" ELSE "up"

\* Mutant: the goroutine that ends first closes both connections.
CopyEnds_ClosesBoth(d, j) ==
    /\ CopyStops(d, j)
    /\ fin' = [fin EXCEPT ![d][j + 1] = TRUE, ![Other(d)][4 - j] = TRUE]
    /\ UNCHANGED <<wrote, read, broken, fault, broker, provider, ended>>

\* Mutant: connections are closed only by the deferred calls, on return.
CopyEnds_LeavesOpen(d, j) ==
    /\ CopyStops(d, j)
    /\ UNCHANGED <<pipeVars, broken, fault, broker, provider, ended>>

\* Read or write has failed, or there is no more: close what it writes to.
CopyEnds(d, j) ==
    /\ CopyStops(d, j)
    /\ fin' = [fin EXCEPT ![d][j + 1] = TRUE]
    /\ UNCHANGED <<wrote, read, broken, fault, broker, provider, ended>>

-----------------------------------------------------------------------------
(* bridgeStream, at the broker. *)

Close(d, i) == fin' = [fin EXCEPT ![d][i] = TRUE]

ReadHeader ==
    /\ broker = "header" /\ broker' = "opening"
    /\ Read("up", 1)
    /\ UNCHANGED <<wrote, fin, broken, fault, provider, copier, ended>>

\* The consumer's program hung up before the header was complete.
ReadHeaderFails ==
    /\ broker = "header" /\ broker' = "failed"
    /\ AtEnd("up", 1)
    /\ Close("down", 3)
    /\ fault' = TRUE
    /\ UNCHANGED <<wrote, read, broken, provider, copier, ended>>

\* WaitForProvider returns a session; its stream is accepted at the other end.
OpenStream ==
    /\ broker = "opening" /\ broker' = "opened"
    /\ provider' = "header"
    /\ UNCHANGED <<pipeVars, broken, fault, copier, ended>>

\* No provider came, or its session is gone.
OpenStreamFails ==
    /\ broker = "opening" /\ broker' = "failed"
    /\ Close("down", 3)
    /\ fault' = TRUE
    /\ UNCHANGED <<wrote, read, broken, provider, copier, ended>>

\* Mutant: the header is written to the stream and copied again.
WriteHeader_Twice ==
    /\ broker = "opened" /\ broker' = "bridging"
    /\ Writable("up", 2)
    /\ wrote' = [wrote EXCEPT !["up"][2] = @ + 2]
    /\ copier' = [copier EXCEPT !["up"][1] = "copying", !["down"][2] = "copying"]
    /\ UNCHANGED <<read, fin, broken, fault, provider, ended>>

\* The header goes first; then bridgeConns starts its two goroutines.
WriteHeader ==
    /\ broker = "opened" /\ broker' = "bridging"
    /\ Write("up", 2)
    /\ copier' = [copier EXCEPT !["up"][1] = "copying", !["down"][2] = "copying"]
    /\ UNCHANGED <<read, fin, broken, fault, provider, ended>>

\* Both streams are closed by the deferred calls.
WriteHeaderFails ==
    /\ broker = "opened" /\ broker' = "failed"
    /\ Refused("up", 2)
    /\ fin' = [fin EXCEPT !["up"][2] = TRUE, !["down"][3] = TRUE]
    /\ UNCHANGED <<wrote, read, broken, fault, provider, copier, ended>>

\* wg.Wait returns; the deferred closes close the streams once more.
BridgeReturns ==
    /\ broker = "bridging" /\ broker' = "returned"
    /\ copier["up"][1] = "done" /\ copier["down"][2] = "done"
    /\ fin' = [fin EXCEPT !["up"][2] = TRUE, !["down"][3] = TRUE]
    /\ UNCHANGED <<wrote, read, broken, fault, provider, copier, ended>>

-----------------------------------------------------------------------------
(* Handle, at the provider. *)

ReadAddress ==
    /\ provider = "header" /\ provider' = "dialing"
    /\ Read("up", 2)
    /\ UNCHANGED <<wrote, fin, broken, fault, broker, copier, ended>>

ReadAddressFails ==
    /\ provider = "header" /\ provider' = "failed"
    /\ AtEnd("up", 2)
    /\ Close("down", 2)
    /\ UNCHANGED <<wrote, read, broken, fault, broker, copier, ended>>

\* The target's connection is wrapped in a ScrubConn, if at all, for the
\* copier that writes to it.
DialTarget ==
    /\ provider = "dialing" /\ provider' = "bridging"
    /\ copier' = [copier EXCEPT !["up"][2] = "copying", !["down"][1] = "copying"]
    /\ UNCHANGED <<pipeVars, broken, fault, broker, ended>>

\* Mutant: the stream is closed only once the target has been dialled.
DialTargetFails_LeavesOpen ==
    /\ provider = "dialing" /\ provider' = "failed"
    /\ fault' = TRUE
    /\ UNCHANGED <<pipeVars, broken, broker, copier, ended>>

\* Refused, unreachable, unknown, or not answered within dialTimeout.
DialTargetFails ==
    /\ provider = "dialing" /\ provider' = "failed"
    /\ Close("down", 2)
    /\ fault' = TRUE
    /\ UNCHANGED <<wrote, read, broken, broker, copier, ended>>

\* The deferred targetConn.Close resets the connection if the target has
\* not closed it, or has sent what nobody has read.
HandleReturns ==
    /\ provider = "bridging" /\ provider' = "returned"
    /\ copier["up"][2] = "done" /\ copier["down"][1] = "done"
    /\ fin' = [fin EXCEPT !["up"][3] = TRUE, !["down"][2] = TRUE]
    /\ broken' = IF fin["down"][1] /\ ~ Readable("down", 1) THEN broken ELSE broken \cup {3}
    /\ UNCHANGED <<wrote, read, fault, broker, copier, ended>>

-----------------------------------------------------------------------------

CopyStep(d, j) == CopyReads(d, j) \/ CopyWrites(d, j) \/ CopyEnds(d, j)

OpenStep == OpenStream \/ OpenStreamFails

BrokerStep == \/ ReadHeader \/ ReadHeaderFails
              \/ WriteHeader \/ WriteHeaderFails \/ BridgeReturns

ProviderStep == \/ ReadAddress \/ ReadAddressFails
                \/ DialTarget \/ DialTargetFails \/ HandleReturns

EndReceives(d) == EndReads(d) \/ EndSeesEnd(d)

Next ==
    \/ Dial \/ OpenStep \/ BrokerStep \/ ProviderStep
    \/ \E d \in Dirs : \/ EndWrites(d) \/ EndCloses(d) \/ EndReceives(d)
                       \/ \E j \in Copiers : CopyStep(d, j)
    \/ \E l \in Links : LinkBreaks(l)
    \/ \E l \in {1, 2} : StreamTimesOut(l)

Spec == Init /\ [][Next]_vars

\* The two functions and their goroutines run, and a dial has a timeout.
\* No provider need come, no program write, read or close.
Fairness ==
    /\ WF_vars(BrokerStep) /\ WF_vars(ProviderStep)
    /\ \A d \in Dirs, j \in Copiers : WF_vars(CopyStep(d, j))

FairSpec == Spec /\ Fairness

-----------------------------------------------------------------------------

\* The variables' types; no pipe holds more than its window, no copier more
\* than the chunk in its buffer but for a head that has become whole.
TypeOK ==
    /\ wrote \in [Dirs -> [Pipes -> Nat]] /\ read \in [Dirs -> [Pipes -> Nat]]
    /\ fin \in [Dirs -> [Pipes -> BOOLEAN]]
    /\ broken \subseteq Links /\ fault \in BOOLEAN
    /\ broker \in {"header", "opening", "opened", "bridging", "failed", "returned"}
    /\ provider \in {"none", "header", "dialing", "bridging", "failed", "returned"}
    /\ copier \in [Dirs -> [Copiers -> {"idle", "copying", "done"}]]
    /\ ended \in [Dirs -> BOOLEAN]
    /\ \A d \in Dirs : \A i \in Pipes :
           read[d][i] <= wrote[d][i] /\ wrote[d][i] <= read[d][i] + Window
    /\ \A d \in Dirs : \A j \in Copiers :
           copier[d][j] = "copying" =>
               Held(d, j) \in IF d = "up" /\ j = 2 THEN Nat ELSE {0, 1}

Sent == [d \in Dirs |-> IF wrote[d][1] = 0 THEN 0 ELSE wrote[d][1] - Header(d, 1)]

\* What is to arrive of it: with scrub_headers on, no unfinished head.
Due == [d \in Dirs |-> Forwards(d, 2, Sent[d])]

\* The two bridges and their links are one tunnel: each program receives what
\* the other has sent, and the end only after all of it, although four
\* goroutines close the links between them at different times and each
\* direction may end long before the other.  The scrubber takes one thing
\* from this: a request head that is not finished counts as not sent, so
\* that the target may see the end without it.
T == INSTANCE Tunnel WITH sent <- Due, closed <- [d \in Dirs |-> fin[d][1]],
                          got <- [d \in Dirs |-> read[d][3]], failed <- fault

TunnelSpec == T!Spec

\* Nothing fails, and a provider is found.
Healthy == [](~ fault) /\ WF_vars(OpenStep)

\* A direction whose receiver reads delivers everything that is due, a head
\* as soon as it is whole, and then the end, even if the other direction's
\* receiver never reads and its last pipe and the copier before it are full.
Delivered ==
    \A d \in Dirs : Healthy /\ WF_vars(EndReceives(d)) =>
        /\ \A n \in 1..MaxData[d] : Due[d] = n ~> read[d][3] >= n
        /\ fin[d][1] /\ wrote["up"][1] > 0 ~> ended[d]

Gone == broker \in {"failed", "returned"} /\ provider \in {"none", "failed", "returned"}

\* Once either program has closed its side or something has failed, both
\* functions return with all their goroutines, even if the client never
\* closes, as long as both programs read, a stream closed at one end only
\* times out, and the target closes when it has seen the end.  (One that
\* neither closes nor writes keeps Handle in its read for ever.)
BridgesEnd ==
    /\ WF_vars(OpenStep)
    /\ \A d \in Dirs : WF_vars(EndReceives(d))
    /\ \A l \in {1, 2} : WF_vars(StreamTimesOut(l))
    /\ WF_vars(ended["up"] /\ EndCloses("down"))
    => (fin["up"][1] \/ fin["down"][1] \/ fault) ~> Gone
=============================================================================
