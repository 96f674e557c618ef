----------------------------- MODULE FastReaper -----------------------------
(***************************************************************************)
(* The broker's fast reaper, internal/broker/server.go: a poll request     *)
(* whose TCP connection drops marks its session in brokenPolls, and every  *)
(* fastReaperInterval sweepBrokenPolls evicts the sessions whose mark is   *)
(* brokenPollGrace old, whether they have polled since or not.             *)
(*                                                                         *)
(* Time is discrete and relative: a Tick ages every mark, and `elapsed`    *)
(* counts the ticks since the last sweep, so no clock grows.  A sweep that *)
(* is due runs before the next tick: it does no I/O and takes far less     *)
(* than the five seconds of the grace.                                     *)
(*                                                                         *)
(* pollmux is external: which sessions are open and resumable, its polls   *)
(* in flight, and CloseSessionIfNoPollInFlight, which decides and closes   *)
(* in one step.                                                            *)
(***************************************************************************)
EXTENDS Naturals, FiniteSets

CONSTANTS
    Sessions,
    Requests,       \* poll requests; one that has ended is used again
    SessionOf,      \* the session id in a request's path
    Grace,          \* const brokenPollGrace, in ticks
    Interval,       \* const fastReaperInterval, in ticks
    Unmarked        \* not a key of brokenPolls

ASSUME ReaperAssumption ==
    /\ SessionOf \in [Requests -> Sessions]
    /\ Grace \in Nat \ {0} /\ Interval \in Nat \ {0}
    /\ Unmarked \notin Nat

VARIABLES
    open,           \* the sessions in the store that are not closed
    resumable,      \* those that have negotiated resume and not lost it
    alive,          \* the sessions whose client is running
    poll,           \* per request, see PollState
    brokenPolls,    \* per session: the age of its mark, or Unmarked
    elapsed,        \* ticks since the reaper's ticker last fired
    due             \* sweepBrokenPolls' local list

vars == <<open, resumable, alive, poll, brokenPolls, elapsed, due>>

\* "dropped": pollHandler has returned and the request's context is cancelled;
\* "marking": markBrokenPoll has looked at the session and will record it.
PollState == {"idle", "inFlight", "dropped", "marking"}

InFlight(s) == \E r \in Requests : SessionOf[r] = s /\ poll[r] = "inFlight"

Marked == {s \in Sessions : brokenPolls[s] # Unmarked}

Init ==
    /\ open = Sessions
    /\ resumable \in SUBSET Sessions
    /\ alive = Sessions
    /\ poll = [r \in Requests |-> "idle"]
    /\ brokenPolls = [s \in Sessions |-> Unmarked]
    /\ elapsed = 0
    /\ due = {}

-----------------------------------------------------------------------------
(* Clients and pollmux (external). *)

\* A live client polls; a closed or unknown session answers 410 or 404.
StartPoll(r) ==
    /\ poll[r] = "idle"
    /\ SessionOf[r] \in alive \cap open
    /\ poll' = [poll EXCEPT ![r] = "inFlight"]
    /\ UNCHANGED <<open, resumable, alive, brokenPolls, elapsed, due>>

\* pollHandler returns with the request's context intact; the client may
\* even be dead, if nothing has told the broker's TCP yet.
EndPoll(r) ==
    /\ poll[r] = "inFlight"
    /\ poll' = [poll EXCEPT ![r] = "idle"]
    /\ UNCHANGED <<open, resumable, alive, brokenPolls, elapsed, due>>

\* The TCP connection drops: the client died, or something between did.
DropPoll(r) ==
    /\ poll[r] = "inFlight"
    /\ poll' = [poll EXCEPT ![r] = "dropped"]
    /\ UNCHANGED <<open, resumable, alive, brokenPolls, elapsed, due>>

ClientDies(s) ==
    /\ s \in alive
    /\ alive' = alive \ {s}
    /\ UNCHANGED <<open, resumable, poll, brokenPolls, elapsed, due>>

\* A /resume with an offset out of range ends a session's resumability.
LoseResume(s) ==
    /\ s \in resumable
    /\ resumable' = resumable \ {s}
    /\ UNCHANGED <<open, alive, poll, brokenPolls, elapsed, due>>

\* DELETE, pollmux's own sweeper, or the relay closing the session.
CloseElsewhere(s) ==
    /\ s \in open
    /\ open' = open \ {s}
    /\ UNCHANGED <<resumable, alive, poll, brokenPolls, elapsed, due>>

-----------------------------------------------------------------------------
(* markBrokenPoll, in the poll request's goroutine. *)

\* Mutant: resumable sessions are not filtered out.
MarkLooks_AnySession(r) ==
    /\ poll[r] = "dropped"
    /\ poll' = [poll EXCEPT ![r] = IF SessionOf[r] \in open THEN "marking" ELSE "idle"]
    /\ UNCHANGED <<open, resumable, alive, brokenPolls, elapsed, due>>

\* Unknown, closed and resumable sessions are not marked ...
MarkLooks(r) ==
    /\ poll[r] = "dropped"
    /\ poll' = [poll EXCEPT ![r] =
                   IF SessionOf[r] \in open \ resumable THEN "marking" ELSE "idle"]
    /\ UNCHANGED <<open, resumable, alive, brokenPolls, elapsed, due>>

\* ... and the time is recorded later, under brokenPollsMu.
MarkRecords(r) ==
    /\ poll[r] = "marking"
    /\ poll' = [poll EXCEPT ![r] = "idle"]
    /\ brokenPolls' = [brokenPolls EXCEPT ![SessionOf[r]] = 0]
    /\ UNCHANGED <<open, resumable, alive, elapsed, due>>

-----------------------------------------------------------------------------
(* The reaper's goroutine. *)

\* Mutant: time passes although a sweep is due.
Tick_NoSweep ==
    /\ due = {}
    /\ elapsed' = elapsed + 1
    /\ brokenPolls' = [s \in Sessions |->
                          IF s \in Marked THEN brokenPolls[s] + 1 ELSE Unmarked]
    /\ UNCHANGED <<open, resumable, alive, poll, due>>

\* A tick waits for a sweep that is due and for one that is running.
Tick ==
    /\ elapsed < Interval /\ due = {}
    /\ elapsed' = elapsed + 1
    /\ brokenPolls' = [s \in Sessions |->
                          IF s \in Marked THEN brokenPolls[s] + 1 ELSE Unmarked]
    /\ UNCHANGED <<open, resumable, alive, poll, due>>

\* Mutant: an entry must be older than the grace.
Aged_OffByOne == {s \in Marked : brokenPolls[s] > Grace}

Aged == {s \in Marked : ~ (brokenPolls[s] < Grace)}

\* Mutant: the sweep starts afresh with an empty map.
SweepCollects_ClearsAll ==
    /\ elapsed = Interval /\ due = {}
    /\ elapsed' = 0
    /\ brokenPolls' = [s \in Sessions |-> Unmarked]
    /\ due' = (Aged \cap open) \ resumable
    /\ UNCHANGED <<open, resumable, alive, poll>>

\* Under brokenPollsMu: drop every aged entry and list the sessions that are
\* still open and not resumable ...
SweepCollects ==
    /\ elapsed = Interval /\ due = {}
    /\ elapsed' = 0
    /\ brokenPolls' = [s \in Sessions |-> IF s \in Aged THEN Unmarked ELSE brokenPolls[s]]
    /\ due' = (Aged \cap open) \ resumable
    /\ UNCHANGED <<open, resumable, alive, poll>>

\* ... then, unlocked, close each one that has no poll in flight by now.
SweepCloses(s) ==
    /\ s \in due
    /\ due' = due \ {s}
    /\ open' = IF InFlight(s) THEN open ELSE open \ {s}
    /\ UNCHANGED <<resumable, alive, poll, brokenPolls, elapsed>>

-----------------------------------------------------------------------------

Reaper == Tick \/ SweepCollects \/ \E s \in Sessions : SweepCloses(s)

Next ==
    \/ Reaper
    \/ \E r \in Requests : \/ StartPoll(r) \/ EndPoll(r) \/ DropPoll(r)
                           \/ MarkLooks(r) \/ MarkRecords(r)
    \/ \E s \in Sessions : ClientDies(s) \/ LoseResume(s) \/ CloseElsewhere(s)

Spec == Init /\ [][Next]_vars

\* Time passes, the reaper runs, and a handler whose connection has dropped
\* finishes.  Nothing makes a poll end or a client die.
Fairness ==
    /\ WF_vars(Reaper)
    /\ \A r \in Requests : WF_vars(MarkLooks(r)) /\ WF_vars(MarkRecords(r))

FairSpec == Spec /\ Fairness

-----------------------------------------------------------------------------

\* The variables' types; the ticker's interval is kept.
TypeOK ==
    /\ open \subseteq Sessions /\ resumable \subseteq Sessions /\ alive \subseteq Sessions
    /\ poll \in [Requests -> PollState]
    /\ brokenPolls \in [Sessions -> Nat \cup {Unmarked}]
    /\ elapsed \in 0..Interval
    /\ due \subseteq Sessions

\* Every mark is acted on within the grace and one interval, whether its
\* session lives, polls again or has been closed by someone else meanwhile:
\* the 60 s blackout the reaper exists to prevent stays one of 7 s, and the
\* map keeps no entry of a dead session.
MarksAreSwept == \A s \in Marked : brokenPolls[s] < Grace + Interval

\* A resumable session is never marked nor listed for eviction: its dropped
\* transport is what resume exists for, even if the drop and the /resume race
\* with a sweep.
ResumableSpared == (Marked \cup due) \cap resumable = {}

\* A non-resumable session whose client died in its last poll is closed,
\* although the mark may be written while a sweep of an older mark runs.  (A
\* poll that still hangs on a dead connection has the sweep refused and, if
\* it then ends without an error, leaves the session to pollmux's sweeper.)
MidPollDeathIsReaped ==
    \A r \in Requests : LET s == SessionOf[r] IN
        (/\ s \notin alive /\ s \notin resumable
         /\ poll[r] = "dropped" /\ ~ InFlight(s)) ~> s \notin open

=============================================================================
