------------------------------ MODULE MCBridge ------------------------------
(* Small instances of Bridge. *)
EXTENDS Bridge

\* Requests that fill the last pipe and the copier before it, and a response.
LongRequest == [d \in Dirs |-> IF d = "up" THEN 2 ELSE 1]

\* The client's first chunk is a head that only the second makes whole.
SplitHead == [n \in 0..2 |-> IF n < 2 THEN 0 ELSE 2]
=============================================================================
