---------------------------- MODULE MCFastReaper ----------------------------
(* Small instances of FastReaper: a session whose polls may overlap, and one *)
(* with a poll of its own, which a sweep may find due together.              *)
EXTENDS FastReaper

CONSTANTS s1, s2, r1, r2, r3

TwoSessions == [r \in Requests |-> IF r = r3 THEN s2 ELSE s1]
=============================================================================
