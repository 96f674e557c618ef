----------------------------- MODULE MCScrubber -----------------------------
(* Small instances of Scrubber. *)
EXTENDS Scrubber

CONSTANT MaxRequests

Req(headers, body) == [lines |-> <<<<"P", "O">>>> \o headers, body |-> body]

\* Headers with and without proxy headers; bodies that look like a header
\* line, a method and the end of a head; one head longer than the rest.
Requests == {
    Req(<<<<"V">>>>, <<>>),
    Req(<<<<"a", "V">>>>, <<>>),
    Req(<<<<"L2">>>>, <<"V", "n">>),
    Req(<<<<"L2">>>>, <<"P", "U">>),
    Req(<<<<"V">>, <<"L2">>, <<"a">>>>, <<"n", "n">>),
    [lines |-> <<<<"P", "U">>, <<"L0">>>>, body |-> <<>>]}

\* What follows is no HTTP at once, or only in its second byte; after a body
\* of unknown length it may look like anything.
Unspoken == {<<>>, <<"a", "V", "n", "n">>, <<"P", "a", "V", "n">>}

UpToRequests == UNION {[1..k -> Requests] : k \in 0..MaxRequests}

Mixed ==
    {[requests |-> rs, rest |-> tail] : rs \in UpToRequests, tail \in Unspoken}
    \cup {[requests |-> rs \o <<Req(<<<<"K">>>>, <<>>)>>, rest |-> <<"P", "O", "V", "n", "n">>] :
              rs \in [1..1 -> Requests]}
=============================================================================
