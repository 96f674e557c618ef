------------------------------ MODULE Scrubber ------------------------------
(***************************************************************************)
(* The provider's header scrubber, internal/provider/scrubber.go: io.Copy  *)
(* hands ScrubConn.Write what a client sends, in chunks of any size, and   *)
(* Write has to find the head of each HTTP request in it, strip the proxy  *)
(* headers there, and pass everything else through unchanged.              *)
(*                                                                         *)
(* A connection is data with a structure only this model knows: requests,  *)
(* each a head of lines and a body, and then data that is no request.      *)
(* Write sees it flattened.  What tells the branches of the code apart is  *)
(* one symbol each: "P" with "O" or "U" spells two methods that share a    *)
(* beginning, "n" ends a line, "V" begins a proxy header, "L0" to "L2" are *)
(* Content-Length lines, "K" a line that makes the body's length unknown   *)
(* (Transfer-Encoding, or Connection: close); the rest are data.           *)
(***************************************************************************)
EXTENDS Naturals, Sequences, SequencesExt, FiniteSetsExt

CONSTANTS
    Connections,      \* what a client may send
    Data,             \* the symbols that are nothing but data
    MaxHeader         \* const maxHeaderBytes, in symbols

Methods == {<<"P", "O">>, <<"P", "U">>}
ContentLength == [L0 |-> 0, L1 |-> 1, L2 |-> 2]

Symbols == {"P", "O", "U", "n", "V", "K"} \cup DOMAIN ContentLength \cup Data

\* A head's lines without their line ends; the first begins with a method.
HeadOf(request) == FlattenSeq([i \in DOMAIN request.lines |-> request.lines[i] \o <<"n">>])
                       \o <<"n">>

Raw(request) == HeadOf(request) \o request.body

Sends(c) == FlattenSeq([i \in DOMAIN c.requests |-> Raw(c.requests[i])]) \o c.rest

-----------------------------------------------------------------------------
(* The functions of the bytes. *)

LooksLikeHTTPRequest(s) == \E m \in Methods : IsPrefix(m, s) \/ IsPrefix(s, m)

\* Where "\r\n\r\n" may end.
HeaderEnds(s) == {i \in 2..Len(s) : s[i - 1] = "n" /\ s[i] = "n"}

LineStarts(head) == {i \in 1..Len(head) : i = 1 \/ head[i - 1] = "n"}

LineOf(head, i) == Max({k \in LineStarts(head) : k <= i})

ScrubProxyHeaders(head) ==
    FlattenSeq([i \in DOMAIN head |->
                   IF head[LineOf(head, i)] = "V" THEN <<>> ELSE <<head[i]>>])

\* bodyPlan: a body of unknown length, or the last Content-Length, or none.
UntrackableBody(head) == \E i \in LineStarts(head) : head[i] = "K"

\* Mutant: the body is taken for the next request.
BodyLength_Ignored(head) == 0

BodyLength(head) ==
    LET declared == {i \in LineStarts(head) : head[i] \in DOMAIN ContentLength}
    IN  IF declared = {} THEN 0 ELSE ContentLength[head[Max(declared)]]

-----------------------------------------------------------------------------
(* What a client may send. *)

Request == [lines : Seq(Seq(Symbols)), body : Seq(Symbols)]

\* The first line begins with a method; no line is empty or has an end in it.
HasHead(request) ==
    /\ request.lines # <<>>
    /\ \E m \in Methods : IsPrefix(m, request.lines[1])
    /\ \A i \in DOMAIN request.lines :
           request.lines[i] # <<>> /\ "n" \notin ToSet(request.lines[i])

\* What its lines begin with.
Headers(request) == {Head(request.lines[i]) : i \in DOMAIN request.lines}

Untrackable(request) == "K" \in Headers(request)

\* The body is as long as its head says, or there is none.
HasLength(request) ==
    LET declared == Headers(request) \cap DOMAIN ContentLength
    IN  IF declared = {} THEN request.body = <<>>
        ELSE \A h \in declared : Len(request.body) = ContentLength[h]

\* Requests that declare the lengths of their bodies, and then a body that
\* does not, or what no HTTP begins with, or nothing.
WellFormed(c) ==
    /\ c.requests \in Seq(Request) /\ c.rest \in Seq(Symbols)
    /\ \A i \in DOMAIN c.requests :
           /\ HasHead(c.requests[i])
           /\ IF Untrackable(c.requests[i])
              THEN i = Len(c.requests) /\ c.requests[i].body = <<>>
              ELSE HasLength(c.requests[i])
    /\ \/ c.rest = <<>> \/ ~ LooksLikeHTTPRequest(c.rest)
       \/ c.requests # <<>> /\ Untrackable(Last(c.requests))

ASSUME ScrubberAssumption ==
    MaxHeader \in Nat /\ \A c \in Connections : WellFormed(c)

-----------------------------------------------------------------------------

VARIABLES
    connection,       \* the connection that is copied
    fed,              \* how much of it io.Copy has handed to Write
    p,                \* what the current call of Write has still to deal with
    passThrough, skipBody, buf,     \* ScrubConn's fields
    out,              \* what the target's TCP connection has accepted
    failed            \* it has failed, and with it io.Copy

vars == <<connection, fed, p, passThrough, skipBody, buf, out, failed>>

-----------------------------------------------------------------------------

Init ==
    /\ connection \in Connections
    /\ fed = 0 /\ p = <<>>
    /\ passThrough = FALSE /\ skipBody = 0 /\ buf = <<>>
    /\ out = <<>> /\ failed = FALSE

\* io.Copy reads n bytes and calls Write; after an error it does not.
Copy(n) ==
    /\ p = <<>> /\ ~ failed
    /\ fed + n <= Len(Sends(connection))
    /\ p' = SubSeq(Sends(connection), fed + 1, fed + n)
    /\ fed' = fed + n
    /\ UNCHANGED <<connection, passThrough, skipBody, buf, out, failed>>

\* The target's connection takes all of s, or fails on the way; nobody looks
\* at ScrubConn's fields after that.
Target(s) == \/ out' = out \o s /\ UNCHANGED failed
             \/ \E n \in 0..(Len(s) - 1) : out' = out \o SubSeq(s, 1, n) /\ failed' = TRUE

Busy == p # <<>> /\ ~ failed /\ UNCHANGED <<connection, fed>>

WritePassThrough ==
    /\ Busy /\ passThrough
    /\ Target(p)
    /\ p' = <<>>
    /\ UNCHANGED <<passThrough, skipBody, buf>>

WriteBody ==
    /\ Busy /\ ~ passThrough /\ skipBody > 0
    /\ LET n == Min({Len(p), skipBody}) IN
       /\ Target(SubSeq(p, 1, n))
       /\ p' = SubSeq(p, n + 1, Len(p))
       /\ skipBody' = skipBody - n
    /\ UNCHANGED <<passThrough, buf>>

\* Between the body of one request and the head of the next, or in it.
Scanning == Busy /\ ~ passThrough /\ skipBody = 0

WriteNotHTTP ==
    /\ Scanning /\ buf = <<>> /\ ~ LooksLikeHTTPRequest(p)
    /\ passThrough' = TRUE
    /\ Target(p)
    /\ p' = <<>>
    /\ UNCHANGED <<skipBody, buf>>

Absorbing == Scanning /\ (buf # <<>> \/ LooksLikeHTTPRequest(p))

\* Everything held is written, and the scrubber gives up.
Flush ==
    /\ Target(buf \o p)
    /\ passThrough' = TRUE
    /\ buf' = <<>> /\ p' = <<>>
    /\ UNCHANGED skipBody

\* Mutant: what has looked like a method once is taken for a request.
Mismatch_Never(s) == FALSE

\* What is held is checked again with every write.
Mismatch(s) == ~ LooksLikeHTTPRequest(s)

\* A partial method that turns out to be none.
AbsorbMismatch == Absorbing /\ Mismatch(buf \o p) /\ Flush

Incomplete == Absorbing /\ ~ Mismatch(buf \o p) /\ HeaderEnds(buf \o p) = {}

\* Mutant: one symbol more.
FitsBuffer_OffByOne(s) == Len(s) <= MaxHeader + 1

FitsBuffer(s) == Len(s) <= MaxHeader

\* Not HTTP after all, with no end of its head in sight.
AbsorbTooLong == Incomplete /\ ~ FitsBuffer(buf \o p) /\ Flush

AbsorbHead ==
    /\ Incomplete /\ FitsBuffer(buf \o p)
    /\ buf' = buf \o p /\ p' = <<>>
    /\ UNCHANGED <<passThrough, skipBody, out, failed>>

\* Mutant: what follows the head in the same write is forgotten.
Remainder_Lost(s, end) == <<>>

\* Goes through Write again.
Remainder(s, end) == SubSeq(s, end + 1, Len(s))

AbsorbHeadEnd ==
    /\ Absorbing /\ ~ Mismatch(buf \o p) /\ HeaderEnds(buf \o p) # {}
    /\ LET end == Min(HeaderEnds(buf \o p))
           head == SubSeq(buf \o p, 1, end) IN
       /\ Target(ScrubProxyHeaders(head))
       /\ p' = Remainder(buf \o p, end)
       /\ IF UntrackableBody(head)
          THEN passThrough' = TRUE /\ UNCHANGED skipBody
          ELSE skipBody' = BodyLength(head) /\ UNCHANGED passThrough
    /\ buf' = <<>>

Write == \/ WritePassThrough \/ WriteBody \/ WriteNotHTTP
         \/ AbsorbMismatch \/ AbsorbTooLong \/ AbsorbHead \/ AbsorbHeadEnd

Next == Write \/ \E n \in 1..(Len(Sends(connection)) - fed) : Copy(n)

Spec == Init /\ [][Next]_vars

-----------------------------------------------------------------------------
(* What should come out, from the structure of the connection. *)

\* A line is never split, a body never looked into.
CleanHead(request) ==
    FlattenSeq([i \in DOMAIN request.lines |->
                   IF Head(request.lines[i]) = "V" THEN <<>> ELSE request.lines[i] \o <<"n">>])
        \o <<"n">>

Clean(request) == CleanHead(request) \o request.body

TooLong(request) == Len(HeadOf(request)) > MaxHeader

\* Every request is cleaned, or every one before a head that is too long.
Renderings ==
    LET rs == connection.requests
        Rendering(k) == FlattenSeq([i \in DOMAIN rs |->
                            IF i < k THEN Clean(rs[i]) ELSE Raw(rs[i])]) \o connection.rest
    IN  {Rendering(k) : k \in {i \in DOMAIN rs : TooLong(rs[i])} \cup {Len(rs) + 1}}

\* Where a request, or what comes after the last, begins.
Boundaries ==
    LET rs == connection.requests
        Before(k) == Len(FlattenSeq([i \in 1..(k - 1) |-> Raw(rs[i])]))
    IN  [k \in 1..(Len(rs) + 1) |-> Before(k)]

-----------------------------------------------------------------------------

\* The fields' types, and ScrubConn is in one of its three states at a time;
\* the buffer is bounded.
TypeOK ==
    /\ connection \in Connections /\ fed \in 0..Len(Sends(connection))
    /\ passThrough \in BOOLEAN /\ failed \in BOOLEAN /\ skipBody \in Nat
    /\ passThrough => skipBody = 0 /\ buf = <<>>
    /\ skipBody > 0 => buf = <<>>
    /\ Len(buf) <= MaxHeader

\* However the connection is cut into writes, and wherever the target's
\* connection fails, what reaches the target is the beginning of the cleaned
\* connection: no body, and nothing that is not HTTP, is touched, although
\* both may contain lines and methods like those of a head.
NothingCorrupted == \E r \in Renderings : IsPrefix(out, r)

\* Once all of it has been written, all of it is there: nothing is left in the
\* buffer and no part of a write has been dropped on the way.
AllWritten ==
    p = <<>> /\ ~ failed /\ fed = Len(Sends(connection)) => out \in Renderings

\* Only an unfinished head is ever held back from the target, or the beginning
\* of what may still become one: never a body, which a server might wait for,
\* nor the data of another protocol.
OnlyHeadsHeld ==
    p = <<>> /\ ~ failed /\ buf # <<>> =>
        \E k \in DOMAIN Boundaries :
            /\ Boundaries[k] = fed - Len(buf)
            /\ IF k \in DOMAIN connection.requests
               THEN Len(buf) < Len(HeadOf(connection.requests[k]))
               ELSE \E m \in Methods : IsPrefix(buf, m)

=============================================================================
