-------------------------- MODULE FastReaper_proofs --------------------------
(***************************************************************************)
(* For every grace, interval and number of overlapping polls, a mark never *)
(* outlives the grace and one interval, and no mark and no sweep touches a *)
(* session that can resume.                                                *)
(***************************************************************************)
EXTENDS FastReaper, TLAPS

\* A mark is older than the grace only by what has passed since a sweep last
\* looked at it; with the ticker's period this bounds every mark.
Young == \A s \in Marked : brokenPolls[s] < Grace + elapsed

\* The decision to mark is taken before the mark is written; a session cannot
\* become resumable in between, or later.
Spared ==
    /\ ResumableSpared
    /\ \A r \in Requests : poll[r] = "marking" => SessionOf[r] \notin resumable

ReaperInv == TypeOK /\ Young /\ Spared

\* Nothing is marked at first.
LEMMA ReaperInit == Init => ReaperInv
BY ReaperAssumption
   DEF Init, ReaperInv, TypeOK, PollState, Young, Spared, ResumableSpared, Marked

\* A poll that starts, ends or drops leaves the marks and the reaper alone.
LEMMA PollInv ==
    ASSUME ReaperInv, NEW r \in Requests, StartPoll(r) \/ EndPoll(r) \/ DropPoll(r)
    PROVE  ReaperInv'
<1> USE DEF ReaperInv, StartPoll, EndPoll, DropPoll
<1>1. \A q \in Requests : poll'[q] = "marking" => poll[q] = "marking"
  BY DEF TypeOK
<1>2. TypeOK'
  BY DEF TypeOK, PollState
<1>3. Young'
  BY DEF Young, Marked
<1>4. Spared'
  BY <1>1 DEF Spared, ResumableSpared, Marked
<1> QED  BY <1>2, <1>3, <1>4

\* So does the end of a client or a session; and nothing becomes resumable.
LEMMA SessionInv ==
    ASSUME ReaperInv, NEW s \in Sessions, ClientDies(s) \/ LoseResume(s) \/ CloseElsewhere(s)
    PROVE  ReaperInv'
<1>1. UNCHANGED <<poll, brokenPolls, elapsed, due>> /\ resumable' \subseteq resumable
  BY DEF ClientDies, LoseResume, CloseElsewhere
<1>2. TypeOK'
  BY DEF ClientDies, LoseResume, CloseElsewhere, ReaperInv, TypeOK
<1> QED  BY <1>1, <1>2 DEF ReaperInv, Young, Spared, ResumableSpared, Marked

\* markBrokenPoll looks ...
LEMMA MarkLooksInv ==
    ASSUME ReaperInv, NEW r \in Requests, MarkLooks(r)
    PROVE  ReaperInv'
<1> USE DEF ReaperInv
<1>1. TypeOK'
  BY DEF MarkLooks, TypeOK, PollState
<1>2. Young'
  BY DEF MarkLooks, Young, Marked
<1>3. Spared'
  BY DEF MarkLooks, Spared, ResumableSpared, Marked, TypeOK
<1> QED  BY <1>1, <1>2, <1>3

\* ... and records, a mark that is younger than any grace.
LEMMA MarkRecordsInv ==
    ASSUME ReaperInv, NEW r \in Requests, MarkRecords(r)
    PROVE  ReaperInv'
<1> USE ReaperAssumption DEF ReaperInv
<1>1. TypeOK'
  BY DEF MarkRecords, TypeOK, PollState
<1>2. \A s \in Sessions : brokenPolls'[s] = IF s = SessionOf[r] THEN 0 ELSE brokenPolls[s]
  BY DEF MarkRecords, TypeOK
<1>3. Young'
  BY <1>2 DEF MarkRecords, Young, Marked, TypeOK
<1>4. Spared'
  BY <1>2 DEF MarkRecords, Spared, ResumableSpared, Marked, TypeOK
<1> QED  BY <1>1, <1>3, <1>4

\* Time ages the marks and the time since the last sweep alike.
LEMMA TickInv == ASSUME ReaperInv, Tick PROVE ReaperInv'
<1> USE ReaperAssumption DEF ReaperInv
<1>1. Marked' = Marked
  BY DEF Tick, Marked, TypeOK
<1>2. TypeOK'
  BY DEF Tick, TypeOK, Marked
<1>3. Young'
  BY <1>1 DEF Tick, Young, Marked, TypeOK
<1>4. Spared'
  BY <1>1 DEF Tick, Spared, ResumableSpared
<1> QED  BY <1>2, <1>3, <1>4

\* A sweep leaves no mark of the grace's age behind.
LEMMA SweepCollectsInv == ASSUME ReaperInv, SweepCollects PROVE ReaperInv'
<1> USE ReaperAssumption DEF ReaperInv
<1>1. Marked' = Marked \ Aged
  BY DEF SweepCollects, Marked, Aged
<1>2. TypeOK'
  BY DEF SweepCollects, TypeOK, Aged, Marked
<1>3. Young'
  BY <1>1 DEF SweepCollects, Young, Aged, Marked, TypeOK
<1>4. Spared'
  BY <1>1 DEF SweepCollects, Spared, ResumableSpared
<1> QED  BY <1>2, <1>3, <1>4

\* The sessions a sweep closes are on its list.
LEMMA SweepClosesInv ==
    ASSUME ReaperInv, NEW s \in Sessions, SweepCloses(s)
    PROVE  ReaperInv'
BY DEF SweepCloses, ReaperInv, TypeOK, Young, Spared, ResumableSpared, Marked

\* Every step preserves the invariant.
LEMMA ReaperStep == ReaperInv /\ [Next]_vars => ReaperInv'
<1> SUFFICES ASSUME ReaperInv, [Next]_vars PROVE ReaperInv'
  OBVIOUS
<1>1. CASE Reaper
  BY <1>1, TickInv, SweepCollectsInv, SweepClosesInv DEF Reaper
<1>2. ASSUME NEW r \in Requests,
             StartPoll(r) \/ EndPoll(r) \/ DropPoll(r) \/ MarkLooks(r) \/ MarkRecords(r)
      PROVE  ReaperInv'
  BY <1>2, PollInv, MarkLooksInv, MarkRecordsInv
<1>3. ASSUME NEW s \in Sessions, ClientDies(s) \/ LoseResume(s) \/ CloseElsewhere(s)
      PROVE  ReaperInv'
  BY <1>3, SessionInv
<1>4. CASE UNCHANGED vars
  BY <1>4 DEF vars, ReaperInv, TypeOK, Young, Spared, ResumableSpared, Marked
<1> QED  BY <1>1, <1>2, <1>3, <1>4 DEF Next

\* The inductive invariant holds in every reachable state.
THEOREM ReaperInvariant == Spec => []ReaperInv
BY ReaperInit, ReaperStep, PTL DEF Spec

\* Every variable keeps its type, and the ticker its interval.
THEOREM ReaperType == Spec => []TypeOK
<1>1. ReaperInv => TypeOK
  BY DEF ReaperInv
<1> QED  BY <1>1, ReaperInvariant, PTL

\* Every mark is acted on within the grace and one interval.
THEOREM MarksSwept == Spec => []MarksAreSwept
<1>1. ReaperInv => MarksAreSwept
  BY ReaperAssumption DEF ReaperInv, TypeOK, Young, MarksAreSwept, Marked
<1> QED  BY <1>1, ReaperInvariant, PTL

\* No session that can resume is marked or listed for eviction.
THEOREM ResumableNotReaped == Spec => []ResumableSpared
<1>1. ReaperInv => ResumableSpared
  BY DEF ReaperInv, Spared
<1> QED  BY <1>1, ReaperInvariant, PTL

=============================================================================
