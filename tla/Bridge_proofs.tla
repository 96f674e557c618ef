---------------------------- MODULE Bridge_proofs ----------------------------
(***************************************************************************)
(* Two bridges in a row are one tunnel, for pipes of any size and any      *)
(* amount of data: Spec => TunnelSpec, from the invariant BridgeInv.       *)
(*                                                                         *)
(* First come lemmas on what each operation on a pipe does to every value, *)
(* then what a step that moves no chunk of a hop keeps true of it, then    *)
(* one lemma per action, and at the end the refinement.                    *)
(***************************************************************************)
EXTENDS Bridge, TLAPS

BrokerState == {"header", "opening", "opened", "bridging", "failed", "returned"}
ProviderState == {"none", "header", "dialing", "bridging", "failed", "returned"}

Types ==
    /\ wrote \in [Dirs -> [Pipes -> Nat]] /\ read \in [Dirs -> [Pipes -> Nat]]
    /\ fin \in [Dirs -> [Pipes -> BOOLEAN]]
    /\ broken \subseteq Links /\ fault \in BOOLEAN
    /\ broker \in BrokerState /\ provider \in ProviderState
    /\ copier \in [Dirs -> [Copiers -> {"idle", "copying", "done"}]]
    /\ ended \in [Dirs -> BOOLEAN]

\* A pipe holds what has been written and not read.
Bounded == \A d \in Dirs : \A i \in Pipes :
               read[d][i] <= wrote[d][i] /\ wrote[d][i] <= read[d][i] + Window

\* A copier has at most one chunk to write, but for one that holds request
\* heads, and nothing has passed before it starts.
Carries(d, j) == IF copier[d][j] = "idle" THEN wrote[d][j + 1] = 0
                 ELSE Held(d, j) \in IF d = "up" /\ j = 2 THEN Nat ELSE {0, 1}

Holds == \A d \in Dirs : \A j \in Copiers : Carries(d, j)

\* How far the header has come.
Headed ==
    /\ broker \in {"header", "opening", "opened"} =>
           copier["up"][1] = "idle" /\ copier["down"][2] = "idle"
    /\ broker \in {"header", "opening"} => provider = "none"
    /\ provider \in {"none", "header", "dialing"} =>
           copier["up"][2] = "idle" /\ copier["down"][1] = "idle"
    /\ broker = "header" => read["up"][1] = 0
    /\ broker \in {"opening", "opened"} => read["up"][1] = 1
    /\ copier["down"][2] = "idle" => read["down"][2] = 0
    /\ copier["down"][1] = "idle" => read["down"][1] = 0
    /\ provider \in {"none", "header"} => read["up"][2] = 0
    /\ provider = "dialing" => read["up"][2] = 1
    /\ \A j \in Copiers : copier["up"][j] # "idle" => read["up"][j] >= 1

\* A copier closes its pipe when it ends, which is when the one before has
\* been closed and emptied, and so is the copier.
Settled(d, j) ==
    /\ fin[d][j + 1] <=> copier[d][j] = "done"
    /\ copier[d][j] = "done" => fin[d][j] /\ read[d][j] = wrote[d][j] /\ Held(d, j) = 0

\* All this unless something outside the two functions has failed.
Orderly ==
    ~ fault => /\ broken = {} /\ broker # "failed" /\ provider # "failed"
               /\ \A d \in Dirs : \A j \in Copiers : Settled(d, j)

\* The client writes the header and what it may of data.
Limited == wrote["up"][1] <= MaxData["up"] + 1

Hops == Types /\ Bounded /\ Holds /\ Headed /\ Orderly

BridgeInv == Hops /\ Limited

-----------------------------------------------------------------------------
(* What the operations on a pipe do, value by value. *)

\* What a copier reads and what it has to write; at hop 2 up the first
\* chunk is the header, and only whole heads are written.
Taken(d, j) == IF d = "up" /\ j = 2 THEN Whole[read[d][j] - 1] ELSE read[d][j]

\* What a copier holds is what it has to write and has not yet written.
LEMMA HeldIs ==
    ASSUME Types, NEW d \in Dirs, NEW j \in Copiers
    PROVE  /\ read[d][j] \in Nat /\ wrote[d][j] \in Nat /\ wrote[d][j + 1] \in Nat
           /\ Held(d, j) = Taken(d, j) - wrote[d][j + 1]
<1>1. j \in Pipes /\ j + 1 \in Pipes
  BY DEF Copiers, Pipes
<1>2. read[d][j] \in Nat /\ wrote[d][j] \in Nat /\ wrote[d][j + 1] \in Nat
  BY <1>1 DEF Types
<1>3. CASE d = "up" /\ j = 2
  <2>1. Header(d, j) = 1 /\ Header(d, j + 1) = 0
    BY <1>3 DEF Header
  <2>2. QED
    BY <1>2, <1>3, <2>1 DEF Held, Forwards, Taken
<1>4. CASE ~ (d = "up" /\ j = 2)
  <2>1. Header(d, j + 1) = Header(d, j) /\ Header(d, j) \in Nat
    BY <1>4 DEF Header, Copiers, Dirs
  <2>2. Held(d, j) = (read[d][j] - Header(d, j)) - (wrote[d][j + 1] - Header(d, j))
    BY <1>4, <2>1 DEF Held, Forwards
  <2>3. QED
    BY <1>2, <1>4, <2>1, <2>2 DEF Taken
<1>5. QED
  BY <1>2, <1>3, <1>4

\* It is the same as long as the copier neither reads nor writes.
LEMMA HeldSame ==
    ASSUME NEW d \in Dirs, NEW j \in Copiers,
           read'[d][j] = read[d][j], wrote'[d][j + 1] = wrote[d][j + 1]
    PROVE  Held(d, j)' = Held(d, j)
BY DEF Held, Forwards, Header

\* HeldIs of the next state.
LEMMA HeldIsNext ==
    ASSUME Types', NEW d \in Dirs, NEW j \in Copiers
    PROVE  /\ read'[d][j] \in Nat /\ wrote'[d][j + 1] \in Nat
           /\ Held(d, j)' = Taken(d, j)' - wrote'[d][j + 1]
<1>1. j \in Pipes /\ j + 1 \in Pipes
  BY DEF Copiers, Pipes
<1>2. read'[d][j] \in Nat /\ wrote'[d][j + 1] \in Nat
  BY <1>1 DEF Types
<1>3. CASE d = "up" /\ j = 2
  <2>1. Header(d, j) = 1 /\ Header(d, j + 1) = 0
    BY <1>3 DEF Header
  <2>2. QED
    BY <1>2, <1>3, <2>1 DEF Held, Forwards, Taken, Header
<1>4. CASE ~ (d = "up" /\ j = 2)
  <2>1. Header(d, j + 1) = Header(d, j) /\ Header(d, j) \in Nat
    BY <1>4 DEF Header, Copiers, Dirs
  <2>2. Held(d, j)' = (read'[d][j] - Header(d, j)) - (wrote'[d][j + 1] - Header(d, j))
    BY <1>4, <2>1 DEF Held, Forwards, Header
  <2>3. QED
    BY <1>2, <1>4, <2>1, <2>2 DEF Taken
<1>5. QED
  BY <1>2, <1>3, <1>4

\* A pipe has room for a whole number of chunks.
LEMMA WindowNat == Window \in Nat
BY BridgeAssumption

\* What is said of Whole, at one point of it.
LEMMA WholeIs ==
    ASSUME NEW n \in 0..MaxData["up"]
    PROVE  Whole[n] \in Nat /\ Whole[n] <= n /\ \A m \in 0..n : Whole[m] <= Whole[n]
BY BridgeAssumption

\* The first of them is 0.
LEMMA WholeStarts == MaxData["up"] \in Nat /\ 0 \in 0..MaxData["up"] /\ Whole[0] = 0
<1>1. MaxData["up"] \in Nat
  BY BridgeAssumption DEF Dirs
<1>2. QED
  BY <1>1, WholeIs

\* No pipe up has been written more often than the client has written.
LEMMA Upstream ==
    ASSUME BridgeInv
    PROVE  /\ read["up"][1] \in Nat /\ wrote["up"][1] \in Nat /\ MaxData["up"] \in Nat
           /\ read["up"][2] \in Nat /\ wrote["up"][2] \in Nat
           /\ read["up"][2] <= wrote["up"][2] /\ wrote["up"][2] <= read["up"][1]
           /\ read["up"][1] <= wrote["up"][1] /\ wrote["up"][1] <= MaxData["up"] + 1
<1>1. /\ read["up"][1] \in Nat /\ wrote["up"][1] \in Nat
      /\ read["up"][2] \in Nat /\ wrote["up"][2] \in Nat
      /\ read["up"][1] <= wrote["up"][1] /\ read["up"][2] <= wrote["up"][2]
  BY DEF BridgeInv, Hops, Types, Bounded, Dirs, Pipes
<1>2. Types /\ Carries("up", 1) /\ "up" \in Dirs /\ 1 \in Copiers
  BY DEF BridgeInv, Hops, Holds, Dirs, Copiers
<1>3. Held("up", 1) = read["up"][1] - wrote["up"][1 + 1]
  BY <1>2, HeldIs DEF Taken
<1>4. wrote["up"][2] <= read["up"][1]
  BY <1>1, <1>2, <1>3 DEF Carries
<1>5. QED
  BY <1>1, <1>4, WholeStarts DEF BridgeInv, Limited

\* What the last copier up has read is within Whole's reach.
LEMMA InReach ==
    ASSUME BridgeInv, copier["up"][2] # "idle"
    PROVE  /\ read["up"][2] - 1 \in 0..MaxData["up"]
           /\ Taken("up", 2) = Whole[read["up"][2] - 1]
<1>1. read["up"][2] >= 1
  BY DEF BridgeInv, Hops, Headed, Copiers
<1>2. QED
  BY <1>1, Upstream DEF Taken

\* Reading pipe i of direction d takes one chunk that is there, from no other pipe.
LEMMA ReadEffect ==
    ASSUME Types, NEW d \in Dirs, NEW i \in Pipes, Read(d, i)
    PROVE  /\ read[d][i] < wrote[d][i]
           /\ read' \in [Dirs -> [Pipes -> Nat]]
           /\ \A e \in Dirs : \A k \in Pipes :
                  read'[e][k] = IF e = d /\ k = i THEN read[e][k] + 1 ELSE read[e][k]
BY SMTT(20) DEF Types, Read, Readable, Dirs, Pipes

\* Writing needs an open pipe with room on a link that works, and adds one chunk to it alone.
LEMMA WriteEffect ==
    ASSUME Types, NEW d \in Dirs, NEW i \in Pipes, Write(d, i)
    PROVE  /\ ~ fin[d][i] /\ Link(d, i) \notin broken
           /\ wrote[d][i] - read[d][i] < Window
           /\ wrote' \in [Dirs -> [Pipes -> Nat]]
           /\ \A e \in Dirs : \A k \in Pipes :
                  wrote'[e][k] = IF e = d /\ k = i THEN wrote[e][k] + 1 ELSE wrote[e][k]
BY SMTT(20) DEF Types, Write, Writable, Refused, Dirs, Pipes

\* Closing a pipe closes no other, and nothing reopens.
LEMMA CloseEffect ==
    ASSUME Types, NEW d \in Dirs, NEW i \in Pipes, Close(d, i)
    PROVE  /\ fin' \in [Dirs -> [Pipes -> BOOLEAN]]
           /\ \A e \in Dirs : \A k \in Pipes :
                  /\ fin[e][k] => fin'[e][k]
                  /\ (e # d \/ k # i) => fin'[e][k] = fin[e][k]
                  /\ fin'[d][i]
<1>1. fin' \in [Dirs -> [Pipes -> BOOLEAN]]
  BY SMTT(20) DEF Types, Close, Dirs, Pipes
<1>2. ASSUME NEW e \in Dirs, NEW k \in Pipes, e # d \/ k # i PROVE fin'[e][k] = fin[e][k]
  BY <1>2, Zenon DEF Types, Close
<1>3. fin'[d][i] = TRUE
  BY Zenon DEF Types, Close
<1>4. QED
  BY <1>1, <1>2, <1>3, Zenon

\* A function of pipes in which one more is closed.
LEMMA ClosedType ==
    ASSUME NEW f \in [Dirs -> [Pipes -> BOOLEAN]], NEW d \in Dirs, NEW i \in Pipes
    PROVE  [f EXCEPT ![d][i] = TRUE] \in [Dirs -> [Pipes -> BOOLEAN]]
OBVIOUS

\* Closing a stream for reading and for writing closes one pipe of each direction.
LEMMA CloseBothEffect ==
    ASSUME Types, NEW i \in Pipes, NEW k \in Pipes,
           fin' = [fin EXCEPT !["up"][i] = TRUE, !["down"][k] = TRUE]
    PROVE  /\ fin' \in [Dirs -> [Pipes -> BOOLEAN]]
           /\ \A d \in Dirs, j \in Pipes :
                  fin'[d][j] = \/ fin[d][j]
                               \/ d = "up" /\ j = i
                               \/ d = "down" /\ j = k
<1>1. fin["up"] \in [Pipes -> BOOLEAN] /\ fin["down"] \in [Pipes -> BOOLEAN]
  BY Zenon DEF Types, Dirs
<1>2. fin'["up"] = [fin["up"] EXCEPT ![i] = TRUE]
  BY Zenon DEF Types, Dirs
<1>3. fin'["down"] = [fin["down"] EXCEPT ![k] = TRUE]
  BY Zenon DEF Types, Dirs
<1>4. fin' \in [Dirs -> [Pipes -> BOOLEAN]]
  <2> DEFINE g == [fin EXCEPT !["up"][i] = TRUE]
  <2>1. g \in [Dirs -> [Pipes -> BOOLEAN]]
    BY ClosedType DEF Types, Dirs
  <2>2. fin' = [g EXCEPT !["down"][k] = TRUE]
    OBVIOUS
  <2> HIDE DEF g
  <2>3. "down" \in Dirs
    BY DEF Dirs
  <2>4. [g EXCEPT !["down"][k] = TRUE] \in [Dirs -> [Pipes -> BOOLEAN]]
    BY <2>1, <2>3, ClosedType, Zenon
  <2>5. QED
    BY <2>2, <2>4, Zenon
<1>5. ASSUME NEW j \in Pipes PROVE fin'["up"][j] = (fin["up"][j] \/ j = i)
  <2>1. CASE j = i
    BY <2>1, <1>1, <1>2, Zenon
  <2>2. CASE j # i
    BY <2>2, <1>1, <1>2, Zenon
  <2>3. QED
    BY <2>1, <2>2
<1>6. ASSUME NEW j \in Pipes PROVE fin'["down"][j] = (fin["down"][j] \/ j = k)
  <2>1. CASE j = k
    BY <2>1, <1>1, <1>3, Zenon
  <2>2. CASE j # k
    BY <2>2, <1>1, <1>3, Zenon
  <2>3. QED
    BY <2>1, <2>2
<1>7. QED
  BY <1>4, <1>5, <1>6, Zenon DEF Dirs

\* Two copiers start, one in each direction.
LEMMA StartEffect ==
    ASSUME Types, NEW i \in Copiers, NEW k \in Copiers,
           copier' = [copier EXCEPT !["up"][i] = "copying", !["down"][k] = "copying"]
    PROVE  /\ copier' \in [Dirs -> [Copiers -> {"idle", "copying", "done"}]]
           /\ \A d \in Dirs, j \in Copiers :
                  copier'[d][j] = IF (d = "up" /\ j = i) \/ (d = "down" /\ j = k)
                                  THEN "copying" ELSE copier[d][j]
<1>1. /\ copier["up"] \in [Copiers -> {"idle", "copying", "done"}]
      /\ copier["down"] \in [Copiers -> {"idle", "copying", "done"}]
  BY Zenon DEF Types, Dirs
<1>2. /\ copier' \in [Dirs -> [Copiers -> {"idle", "copying", "done"}]]
      /\ copier'["up"] = [copier["up"] EXCEPT ![i] = "copying"]
      /\ copier'["down"] = [copier["down"] EXCEPT ![k] = "copying"]
  BY <1>1, SMTT(30) DEF Types, Dirs
<1>3. /\ \A j \in Copiers : copier'["up"][j] = IF j = i THEN "copying" ELSE copier["up"][j]
      /\ \A j \in Copiers : copier'["down"][j] = IF j = k THEN "copying" ELSE copier["down"][j]
  BY <1>1, <1>2, SMTT(30)
<1>4. ASSUME NEW d \in Dirs, NEW j \in Copiers
      PROVE  copier'[d][j] = IF (d = "up" /\ j = i) \/ (d = "down" /\ j = k)
                             THEN "copying" ELSE copier[d][j]
  <2>1. CASE d = "up"
    BY <2>1, <1>3
  <2>2. CASE d = "down"
    BY <2>2, <1>3
  <2>3. QED
    BY <2>1, <2>2 DEF Dirs
<1>5. QED
  BY <1>2, <1>4

\* One copier stops.
LEMMA StopEffect ==
    ASSUME Types, NEW d \in Dirs, NEW j \in Copiers,
           copier' = [copier EXCEPT ![d][j] = "done"]
    PROVE  /\ copier' \in [Dirs -> [Copiers -> {"idle", "copying", "done"}]]
           /\ \A e \in Dirs, k \in Copiers :
                  copier'[e][k] = IF e = d /\ k = j THEN "done" ELSE copier[e][k]
BY SMTT(20) DEF Types, Dirs, Copiers

-----------------------------------------------------------------------------
(* A hop keeps what is said of it as long as nobody moves its chunks, and  *)
(* nobody closes its pipes but the first.                                  *)

Kept(d, j) ==
    /\ wrote'[d][j + 1] = wrote[d][j + 1] /\ copier'[d][j] = copier[d][j]
    /\ read'[d][j] = read[d][j] \/ copier[d][j] = "idle"

KeptOpen(d, j) ==
    /\ wrote'[d][j] = wrote[d][j] \/ copier[d][j] # "done"
    /\ fin'[d][j + 1] = fin[d][j + 1] /\ (fin[d][j] => fin'[d][j])

\* A hop that is left alone carries what it carried.
LEMMA SameCarries ==
    ASSUME NEW d \in Dirs, NEW j \in Copiers, Carries(d, j), Kept(d, j)
    PROVE  Carries(d, j)'
<1>1. CASE copier[d][j] = "idle"
  BY <1>1 DEF Carries, Kept
<1>2. CASE copier[d][j] # "idle"
  <2>1. Held(d, j)' = Held(d, j)
    BY <1>2, HeldSame DEF Kept
  <2>2. QED
    BY <1>2, <2>1 DEF Carries, Kept
<1>3. QED
  BY <1>1, <1>2

\* A hop that is left alone, its pipes too, stays settled.
LEMMA SameSettled ==
    ASSUME NEW d \in Dirs, NEW j \in Copiers, Settled(d, j), Kept(d, j), KeptOpen(d, j)
    PROVE  Settled(d, j)'
<1>1. CASE copier[d][j] = "done"
  <2>1. read'[d][j] = read[d][j] /\ Held(d, j)' = Held(d, j)
    BY <1>1, HeldSame DEF Kept
  <2>2. QED
    BY <1>1, <2>1 DEF Settled, Kept, KeptOpen
<1>2. CASE copier[d][j] # "done"
  BY <1>2 DEF Settled, Kept, KeptOpen
<1>3. QED
  BY <1>1, <1>2

-----------------------------------------------------------------------------
(* The steps. *)

\* The consumer writes the header before any data.
LEMMA DialInv == ASSUME BridgeInv, Dial PROVE Hops'
<1> Types /\ Bounded /\ Holds /\ Headed /\ Orderly
  BY DEF BridgeInv, Hops
<1>0. /\ "up" \in Dirs /\ 1 \in Pipes
      /\ Write("up", 1)
  BY DEF Dial, Close, CopyStops, Dirs, Pipes, Copiers
<1>1. Types'
  BY <1>0, WriteEffect, SMTT(20) DEF Types, BrokerState, ProviderState, vars,
     pipeVars, bridgeVars, Dirs, Copiers, Links, Dial
<1>2. Bounded'
  BY <1>0, WriteEffect, WindowNat, SMTT(20) DEF Types, Bounded, vars,
     pipeVars, bridgeVars, Dirs, Pipes, Dial
<1>3. Headed'
  BY <1>0, WriteEffect, <1>1, SMTT(30) DEF Types, Bounded, Holds, Carries, Held,
     Header, Headed, vars, pipeVars, bridgeVars, Dirs, Pipes, Copiers, Dial
<1>4. ASSUME NEW e \in Dirs, NEW k \in Copiers PROVE Kept(e, k)
  BY <1>0, WriteEffect, SMTT(20) DEF Kept, Types, vars, pipeVars, bridgeVars, Dirs,
     Pipes, Copiers, Headed, Dial
<1>5. Holds'
  BY <1>4, SameCarries DEF Holds
<1>6. ASSUME ~ fault', NEW e \in Dirs, NEW k \in Copiers PROVE Settled(e, k)'
  <2>1. Settled(e, k)
    BY <1>6 DEF Orderly, vars, pipeVars, bridgeVars, Dial
  <2>2. KeptOpen(e, k)
    BY <2>1, <1>0, WriteEffect, SMTT(20) DEF KeptOpen, Settled, Types, vars,
       pipeVars, bridgeVars, Dirs, Pipes, Copiers, Headed, Dial
  <2>3. QED
    BY <1>4, <2>1, <2>2, SameSettled
<1>7. Orderly'
  BY <1>6 DEF Orderly, vars, pipeVars, bridgeVars, Dial
<1>10. QED
  BY <1>1, <1>2, <1>3, <1>5, <1>7 DEF Hops

\* bridgeStream opens the stream to the provider; the header is in its hands.
LEMMA OpenStreamInv == ASSUME BridgeInv, OpenStream PROVE Hops'
<1> Types /\ Bounded /\ Holds /\ Headed /\ Orderly
  BY DEF BridgeInv, Hops
<1>1. Types'
  BY SMTT(20) DEF Types, BrokerState, ProviderState, vars, pipeVars, bridgeVars,
     Dirs, Copiers, Links, OpenStream
<1>2. Bounded'
  BY WindowNat, SMTT(20) DEF Types, Bounded, vars, pipeVars, bridgeVars,
     Dirs, Pipes, OpenStream
<1>3. Headed'
  BY <1>1, SMTT(30) DEF Types, Bounded, Holds, Carries, Held, Header, Headed, vars,
     pipeVars, bridgeVars, Dirs, Pipes, Copiers, OpenStream
<1>4. ASSUME NEW e \in Dirs, NEW k \in Copiers PROVE Kept(e, k)
  BY SMTT(20) DEF Kept, Types, vars, pipeVars, bridgeVars, Dirs, Pipes, Copiers,
     Headed, OpenStream
<1>5. Holds'
  BY <1>4, SameCarries DEF Holds
<1>6. ASSUME ~ fault', NEW e \in Dirs, NEW k \in Copiers PROVE Settled(e, k)'
  <2>1. Settled(e, k)
    BY <1>6 DEF Orderly, vars, pipeVars, bridgeVars, OpenStream
  <2>2. KeptOpen(e, k)
    BY <2>1, SMTT(20) DEF KeptOpen, Settled, Types, vars, pipeVars, bridgeVars,
       Dirs, Pipes, Copiers, Headed, OpenStream
  <2>3. QED
    BY <1>4, <2>1, <2>2, SameSettled
<1>7. Orderly'
  BY <1>6 DEF Orderly, vars, pipeVars, bridgeVars, OpenStream
<1>10. QED
  BY <1>1, <1>2, <1>3, <1>5, <1>7 DEF Hops

\* bridgeStream gives up: no provider, or no stream, which counts as a fault.
LEMMA OpenStreamFailsInv == ASSUME BridgeInv, OpenStreamFails PROVE Hops'
<1> Types /\ Bounded /\ Holds /\ Headed /\ Orderly
  BY DEF BridgeInv, Hops
<1>0. /\ "down" \in Dirs /\ 3 \in Pipes
      /\ Close("down", 3)
  BY DEF OpenStreamFails, Close, CopyStops, Dirs, Pipes, Copiers
<1>1. Types'
  BY <1>0, CloseEffect, SMTT(20) DEF Types, BrokerState, ProviderState, vars,
     pipeVars, bridgeVars, Dirs, Copiers, Links, OpenStreamFails
<1>2. Bounded'
  BY <1>0, CloseEffect, WindowNat, SMTT(20) DEF Types, Bounded, vars,
     pipeVars, bridgeVars, Dirs, Pipes, OpenStreamFails
<1>3. Headed'
  BY <1>0, CloseEffect, <1>1, SMTT(30) DEF Types, Bounded, Holds, Carries, Held,
     Header, Headed, vars, pipeVars, bridgeVars, Dirs, Pipes, Copiers,
     OpenStreamFails
<1>4. ASSUME NEW e \in Dirs, NEW k \in Copiers PROVE Kept(e, k)
  BY <1>0, CloseEffect, SMTT(20) DEF Kept, Types, vars, pipeVars, bridgeVars, Dirs,
     Pipes, Copiers, Headed, OpenStreamFails
<1>5. Holds'
  BY <1>4, SameCarries DEF Holds
<1>6. Orderly'
  BY DEF Orderly, OpenStreamFails
<1>10. QED
  BY <1>1, <1>2, <1>3, <1>5, <1>6 DEF Hops

\* bridgeStream takes the header off the consumer's stream.
LEMMA ReadHeaderInv == ASSUME BridgeInv, ReadHeader PROVE Hops'
<1> Types /\ Bounded /\ Holds /\ Headed /\ Orderly
  BY DEF BridgeInv, Hops
<1>0. /\ "up" \in Dirs /\ 1 \in Pipes
      /\ Read("up", 1)
  BY DEF ReadHeader, Close, CopyStops, Dirs, Pipes, Copiers
<1>1. Types'
  BY <1>0, ReadEffect, SMTT(20) DEF Types, BrokerState, ProviderState, vars,
     pipeVars, bridgeVars, Dirs, Copiers, Links, ReadHeader
<1>2. Bounded'
  BY <1>0, ReadEffect, WindowNat, SMTT(20) DEF Types, Bounded, vars,
     pipeVars, bridgeVars, Dirs, Pipes, ReadHeader
<1>3. Headed'
  BY <1>0, ReadEffect, <1>1, SMTT(30) DEF Types, Bounded, Holds, Carries, Held,
     Header, Headed, vars, pipeVars, bridgeVars, Dirs, Pipes, Copiers, ReadHeader
<1>4. ASSUME NEW e \in Dirs, NEW k \in Copiers PROVE Kept(e, k)
  BY <1>0, ReadEffect, SMTT(20) DEF Kept, Types, vars, pipeVars, bridgeVars, Dirs,
     Pipes, Copiers, Headed, ReadHeader
<1>5. Holds'
  BY <1>4, SameCarries DEF Holds
<1>6. ASSUME ~ fault', NEW e \in Dirs, NEW k \in Copiers PROVE Settled(e, k)'
  <2>1. Settled(e, k)
    BY <1>6 DEF Orderly, vars, pipeVars, bridgeVars, ReadHeader
  <2>2. KeptOpen(e, k)
    BY <2>1, <1>0, ReadEffect, SMTT(20) DEF KeptOpen, Settled, Types, vars,
       pipeVars, bridgeVars, Dirs, Pipes, Copiers, Headed, ReadHeader
  <2>3. QED
    BY <1>4, <2>1, <2>2, SameSettled
<1>7. Orderly'
  BY <1>6 DEF Orderly, vars, pipeVars, bridgeVars, ReadHeader
<1>10. QED
  BY <1>1, <1>2, <1>3, <1>5, <1>7 DEF Hops

\* The consumer's stream ends in the header, which counts as a fault.
LEMMA ReadHeaderFailsInv == ASSUME BridgeInv, ReadHeaderFails PROVE Hops'
<1> Types /\ Bounded /\ Holds /\ Headed /\ Orderly
  BY DEF BridgeInv, Hops
<1>0. /\ "down" \in Dirs /\ 3 \in Pipes
      /\ Close("down", 3)
  BY DEF ReadHeaderFails, Close, CopyStops, Dirs, Pipes, Copiers
<1>1. Types'
  BY <1>0, CloseEffect, SMTT(20) DEF Types, BrokerState, ProviderState, vars,
     pipeVars, bridgeVars, Dirs, Copiers, Links, ReadHeaderFails
<1>2. Bounded'
  BY <1>0, CloseEffect, WindowNat, SMTT(20) DEF Types, Bounded, vars,
     pipeVars, bridgeVars, Dirs, Pipes, ReadHeaderFails
<1>3. Headed'
  BY <1>0, CloseEffect, <1>1, SMTT(30) DEF Types, Bounded, Holds, Carries, Held,
     Header, Headed, vars, pipeVars, bridgeVars, Dirs, Pipes, Copiers,
     ReadHeaderFails
<1>4. ASSUME NEW e \in Dirs, NEW k \in Copiers PROVE Kept(e, k)
  BY <1>0, CloseEffect, SMTT(20) DEF Kept, Types, vars, pipeVars, bridgeVars, Dirs,
     Pipes, Copiers, Headed, ReadHeaderFails
<1>5. Holds'
  BY <1>4, SameCarries DEF Holds
<1>6. Orderly'
  BY DEF Orderly, ReadHeaderFails
<1>10. QED
  BY <1>1, <1>2, <1>3, <1>5, <1>6 DEF Hops

\* bridgeStream writes the header and starts its two copiers.
LEMMA WriteHeaderInv == ASSUME BridgeInv, WriteHeader PROVE Hops'
<1> Types /\ Bounded /\ Holds /\ Headed /\ Orderly
  BY DEF BridgeInv, Hops
<1>0. /\ "up" \in Dirs /\ 2 \in Pipes
      /\ Write("up", 2)
      /\ 1 \in Copiers /\ 2 \in Copiers
      /\ copier' = [copier EXCEPT !["up"][1] = "copying", !["down"][2] = "copying"]
  BY DEF WriteHeader, Close, CopyStops, Dirs, Pipes, Copiers
<1>1. Types'
  BY <1>0, WriteEffect, StartEffect, SMTT(20) DEF Types, BrokerState, ProviderState,
     vars, pipeVars, bridgeVars, Dirs, Copiers, Links, WriteHeader
<1>2. Bounded'
  BY <1>0, WriteEffect, StartEffect, WindowNat, SMTT(20) DEF Types, Bounded,
     vars, pipeVars, bridgeVars, Dirs, Pipes, WriteHeader
<1>3. Headed'
  BY <1>0, WriteEffect, StartEffect, <1>1, SMTT(30) DEF Types, Bounded, Holds,
     Carries, Held, Header, Headed, vars, pipeVars, bridgeVars, Dirs, Pipes,
     Copiers, WriteHeader
<1>4. ASSUME NEW e \in Dirs, NEW k \in Copiers,
             ~ ((e = "up" /\ k = 1) \/ (e = "down" /\ k = 2))
      PROVE  Kept(e, k)
  BY <1>4, <1>0, WriteEffect, StartEffect, SMTT(20) DEF Kept, Types, vars, pipeVars,
     bridgeVars, Dirs, Pipes, Copiers, Headed, WriteHeader
<1>5. ASSUME NEW e \in Dirs, NEW k \in Copiers, (e = "up" /\ k = 1) \/ (e = "down" /\ k = 2)
      PROVE  Carries(e, k)'
  <2>1. copier'[e][k] = "copying" /\ wrote[e][k + 1] = 0
    BY <1>5, <1>0, StartEffect, SMTT(20) DEF Headed, Holds, Carries, Dirs, Copiers, WriteHeader
  <2>2. CASE e = "up" /\ k = 1
    <3>1. read'[e][k] = 1 /\ wrote'[e][k + 1] = 1
      BY <1>0, <2>1, <2>2, WriteEffect DEF Headed, WriteHeader, Dirs, Pipes
    <3>2. Held(e, k)' = 0
      BY <1>1, <2>2, <3>1, HeldIsNext DEF Taken
    <3>3. QED
      BY <2>1, <2>2, <3>2 DEF Carries
  <2>3. CASE e = "down" /\ k = 2
    <3>1. copier[e][k] = "idle"
      BY <2>3 DEF Headed, WriteHeader
    <3>2. read'[e][k] = 0 /\ wrote'[e][k + 1] = 0
      BY <1>0, <2>1, <2>3, <3>1, WriteEffect DEF Headed, WriteHeader, Dirs, Pipes
    <3>3. Held(e, k)' = 0
      BY <1>1, <2>3, <3>2, HeldIsNext DEF Taken
    <3>4. QED
      BY <2>1, <2>3, <3>3 DEF Carries
  <2>4. QED
    BY <1>5, <2>2, <2>3
<1>6. Holds'
  BY <1>4, <1>5, SameCarries DEF Holds
<1>7. ASSUME ~ fault', NEW e \in Dirs, NEW k \in Copiers,
             ~ ((e = "up" /\ k = 1) \/ (e = "down" /\ k = 2))
      PROVE  Settled(e, k)'
  <2>1. \A f \in Dirs, i \in Copiers : Settled(f, i)
    BY <1>7 DEF Orderly, vars, pipeVars, bridgeVars, WriteHeader
  <2>2. KeptOpen(e, k)
    BY <1>7, <2>1, <1>0, WriteEffect, StartEffect, SMTT(20) DEF KeptOpen, Settled,
       Types, vars, pipeVars, bridgeVars, Dirs, Pipes, Copiers, Headed,
       WriteHeader
  <2>3. QED
    BY <1>4, <1>7, <2>1, <2>2, SameSettled
<1>8. ASSUME ~ fault', NEW e \in Dirs, NEW k \in Copiers,
             (e = "up" /\ k = 1) \/ (e = "down" /\ k = 2)
      PROVE  Settled(e, k)'
  <2>1. broken = {} /\ \A f \in Dirs, i \in Copiers : Settled(f, i)
    BY <1>8 DEF Orderly, vars, pipeVars, bridgeVars, WriteHeader
  <2>2. copier[e][k] = "idle" /\ copier'[e][k] = "copying"
    <3>1. copier[e][k] = "idle"
      BY <1>8 DEF Headed, WriteHeader
    <3>2. \A f \in Dirs, i \in Copiers :
              copier'[f][i] = IF (f = "up" /\ i = 1) \/ (f = "down" /\ i = 2)
                              THEN "copying" ELSE copier[f][i]
      BY <1>0, StartEffect, Zenon
    <3>3. QED
      BY <1>8, <3>1, <3>2
  <2>3. ~ fin'[e][k + 1]
    BY <2>1, <2>2 DEF Settled, WriteHeader
  <2>4. QED
    BY <2>2, <2>3 DEF Settled
<1>9. Orderly'
  BY <1>7, <1>8 DEF Orderly, vars, pipeVars, bridgeVars, WriteHeader
<1>10. QED
  BY <1>1, <1>2, <1>3, <1>6, <1>9 DEF Hops

\* The provider's stream refuses the header: only after a fault.
LEMMA WriteHeaderFailsInv == ASSUME BridgeInv, WriteHeaderFails PROVE Hops'
<1> Types /\ Bounded /\ Holds /\ Headed /\ Orderly
  BY DEF BridgeInv, Hops
<1>1. /\ broker = "opened" /\ broker' = "failed" /\ Refused("up", 2)
      /\ UNCHANGED <<wrote, read, broken, fault, provider, copier, ended>>
  BY DEF WriteHeaderFails
<1>2. /\ fin' \in [Dirs -> [Pipes -> BOOLEAN]]
      /\ \A e \in Dirs, k \in Pipes :
             fin'[e][k] = (fin[e][k] \/ (e = "up" /\ k = 2) \/ (e = "down" /\ k = 3))
  <2>1. fin' = [fin EXCEPT !["up"][2] = TRUE, !["down"][3] = TRUE]
    BY DEF WriteHeaderFails
  <2>2. 2 \in Pipes /\ 3 \in Pipes
    BY DEF Pipes
  <2>3. QED
    BY <2>1, <2>2, CloseBothEffect, Zenon
<1>4. Types'
  BY <1>1, <1>2, SMTT(20) DEF Types, BrokerState, ProviderState, Links, pipeVars
<1>5. Bounded'
  BY <1>1 DEF Bounded, pipeVars
<1>6. Headed'
  BY <1>1, SMTT(20) DEF Headed, pipeVars
<1>7. ASSUME NEW e \in Dirs, NEW k \in Copiers PROVE Kept(e, k)
  BY <1>1 DEF Kept, pipeVars
<1>8. Holds'
  BY <1>7, SameCarries DEF Holds
<1>9. fault
  <2>1. SUFFICES ASSUME ~ fault PROVE FALSE
    OBVIOUS
  <2>2. broken = {} /\ Settled("up", 1)
    BY <2>1 DEF Orderly, Dirs, Copiers
  <2>3. ~ fin["up"][2]
    BY <1>1, <2>2 DEF Headed, Settled
  <2>4. QED
    BY <1>1, <2>2, <2>3 DEF Refused
<1>10. QED
  BY <1>1, <1>4, <1>5, <1>6, <1>8, <1>9 DEF Hops, Orderly

\* bridgeStream returns when its copies have, and closes what is left.
LEMMA BridgeReturnsInv == ASSUME BridgeInv, BridgeReturns PROVE Hops'
<1> Types /\ Bounded /\ Holds /\ Headed /\ Orderly
  BY DEF BridgeInv, Hops
<1>1. /\ broker = "bridging" /\ broker' = "returned"
      /\ UNCHANGED <<wrote, read, broken, fault, provider, copier, ended>>
  BY DEF BridgeReturns
<1>2. /\ fin' \in [Dirs -> [Pipes -> BOOLEAN]]
      /\ \A e \in Dirs, k \in Pipes :
             fin'[e][k] = (fin[e][k] \/ (e = "up" /\ k = 2) \/ (e = "down" /\ k = 3))
  <2>1. fin' = [fin EXCEPT !["up"][2] = TRUE, !["down"][3] = TRUE]
    BY DEF BridgeReturns
  <2>2. 2 \in Pipes /\ 3 \in Pipes
    BY DEF Pipes
  <2>3. QED
    BY <2>1, <2>2, CloseBothEffect, Zenon
<1>4. Types'
  BY <1>1, <1>2, SMTT(20) DEF Types, BrokerState, ProviderState, Links, pipeVars
<1>5. Bounded'
  BY <1>1 DEF Bounded, pipeVars
<1>6. Headed'
  BY <1>1, SMTT(20) DEF Headed, pipeVars
<1>7. ASSUME NEW e \in Dirs, NEW k \in Copiers PROVE Kept(e, k)
  BY <1>1 DEF Kept, pipeVars
<1>8. Holds'
  BY <1>7, SameCarries DEF Holds
<1>9. ASSUME ~ fault', NEW e \in Dirs, NEW k \in Copiers PROVE Settled(e, k)'
  <2>1. \A d \in Dirs, j \in Copiers : Settled(d, j)
    BY <1>1, <1>9 DEF Orderly
  <2>2. k \in Pipes /\ k + 1 \in Pipes
    BY DEF Copiers, Pipes
  <2>3. fin["up"][2] /\ fin["down"][3]
    BY <2>1, SMTT(20) DEF Settled, Dirs, Copiers, BridgeReturns
  <2>4. fin'[e][k] = fin[e][k] /\ fin'[e][k + 1] = fin[e][k + 1]
    <3>1. fin[e][k] \in BOOLEAN /\ fin[e][k + 1] \in BOOLEAN
      BY <2>2 DEF Types
    <3>2. QED
      BY <1>2, <2>2, <2>3, <3>1, SMTT(20)
  <2>5. QED
    BY <1>1, <1>7, <2>1, <2>4, SameSettled DEF KeptOpen
<1>10. ASSUME ~ fault' PROVE broken' = {}
  BY <1>1, <1>10 DEF Orderly
<1>11. Orderly'
  BY <1>1, <1>9, <1>10 DEF Orderly
<1>12. QED
  BY <1>4, <1>5, <1>6, <1>8, <1>11 DEF Hops

\* Handle takes the header off its stream.
LEMMA ReadAddressInv == ASSUME BridgeInv, ReadAddress PROVE Hops'
<1> Types /\ Bounded /\ Holds /\ Headed /\ Orderly
  BY DEF BridgeInv, Hops
<1>0. /\ "up" \in Dirs /\ 2 \in Pipes
      /\ Read("up", 2)
  BY DEF ReadAddress, Close, CopyStops, Dirs, Pipes, Copiers
<1>1. Types'
  BY <1>0, ReadEffect, SMTT(20) DEF Types, BrokerState, ProviderState, vars,
     pipeVars, bridgeVars, Dirs, Copiers, Links, ReadAddress
<1>2. Bounded'
  BY <1>0, ReadEffect, WindowNat, SMTT(20) DEF Types, Bounded, vars,
     pipeVars, bridgeVars, Dirs, Pipes, ReadAddress
<1>3. Headed'
  BY <1>0, ReadEffect, <1>1, SMTT(30) DEF Types, Bounded, Holds, Carries, Held,
     Header, Headed, vars, pipeVars, bridgeVars, Dirs, Pipes, Copiers, ReadAddress
<1>4. ASSUME NEW e \in Dirs, NEW k \in Copiers PROVE Kept(e, k)
  BY <1>0, ReadEffect, SMTT(20) DEF Kept, Types, vars, pipeVars, bridgeVars, Dirs,
     Pipes, Copiers, Headed, ReadAddress
<1>5. Holds'
  BY <1>4, SameCarries DEF Holds
<1>6. ASSUME ~ fault', NEW e \in Dirs, NEW k \in Copiers PROVE Settled(e, k)'
  <2>1. Settled(e, k)
    BY <1>6 DEF Orderly, vars, pipeVars, bridgeVars, ReadAddress
  <2>2. KeptOpen(e, k)
    BY <2>1, <1>0, ReadEffect, SMTT(20) DEF KeptOpen, Settled, Types, vars,
       pipeVars, bridgeVars, Dirs, Pipes, Copiers, Headed, ReadAddress
  <2>3. QED
    BY <1>4, <2>1, <2>2, SameSettled
<1>7. Orderly'
  BY <1>6 DEF Orderly, vars, pipeVars, bridgeVars, ReadAddress
<1>10. QED
  BY <1>1, <1>2, <1>3, <1>5, <1>7 DEF Hops

\* Handle finds no header: only after a fault.
LEMMA ReadAddressFailsInv == ASSUME BridgeInv, ReadAddressFails PROVE Hops'
<1> Types /\ Bounded /\ Holds /\ Headed /\ Orderly
  BY DEF BridgeInv, Hops
<1>0. /\ "down" \in Dirs /\ 2 \in Pipes
      /\ Close("down", 2)
  BY DEF ReadAddressFails, Close, CopyStops, Dirs, Pipes, Copiers
<1>1. Types'
  BY <1>0, CloseEffect, SMTT(20) DEF Types, BrokerState, ProviderState, vars,
     pipeVars, bridgeVars, Dirs, Copiers, Links, ReadAddressFails
<1>2. Bounded'
  BY <1>0, CloseEffect, WindowNat, SMTT(20) DEF Types, Bounded, vars,
     pipeVars, bridgeVars, Dirs, Pipes, ReadAddressFails
<1>3. Headed'
  BY <1>0, CloseEffect, <1>1, SMTT(30) DEF Types, Bounded, Holds, Carries, Held,
     Header, Headed, vars, pipeVars, bridgeVars, Dirs, Pipes, Copiers,
     ReadAddressFails, AtEnd, Readable
<1>4. ASSUME NEW e \in Dirs, NEW k \in Copiers PROVE Kept(e, k)
  BY <1>0, CloseEffect, SMTT(20) DEF Kept, Types, vars, pipeVars, bridgeVars, Dirs,
     Pipes, Copiers, Headed, ReadAddressFails
<1>5. Holds'
  BY <1>4, SameCarries DEF Holds
<1>6. fault
  <2> SUFFICES ASSUME ~ fault PROVE FALSE
    OBVIOUS
  <2>1. broken = {} /\ Settled("up", 1)
    BY DEF Orderly, Dirs, Copiers
  <2>2. fin["up"][2] /\ ~ Readable("up", 2) /\ read["up"][2] = 0
    BY <2>1 DEF ReadAddressFails, AtEnd, Headed
  <2>3. Held("up", 1) = 0 /\ read["up"][1] >= 1
    BY <2>1, <2>2 DEF Settled, Headed, Copiers
  <2>4. Held("up", 1) = read["up"][1] - wrote["up"][2] /\ wrote["up"][2] \in Nat
    BY HeldIs DEF Dirs, Copiers, Taken
  <2>5. read["up"][1] \in Nat
    BY DEF Types, Dirs, Pipes
  <2>6. QED
    BY <2>2, <2>3, <2>4, <2>5 DEF Readable
<1>7. Orderly'
  BY <1>6 DEF Orderly, ReadAddressFails
<1>10. QED
  BY <1>1, <1>2, <1>3, <1>5, <1>7 DEF Hops

\* Handle has the target's connection and starts its two copiers.
LEMMA DialTargetInv == ASSUME BridgeInv, DialTarget PROVE Hops'
<1> Types /\ Bounded /\ Holds /\ Headed /\ Orderly
  BY DEF BridgeInv, Hops
<1>0. /\ 2 \in Copiers /\ 1 \in Copiers
      /\ copier' = [copier EXCEPT !["up"][2] = "copying", !["down"][1] = "copying"]
  BY DEF DialTarget, Close, CopyStops, Dirs, Pipes, Copiers
<1>1. Types'
  BY <1>0, StartEffect, SMTT(20) DEF Types, BrokerState, ProviderState, vars,
     pipeVars, bridgeVars, Dirs, Copiers, Links, DialTarget
<1>2. Bounded'
  BY <1>0, StartEffect, WindowNat, SMTT(20) DEF Types, Bounded, vars,
     pipeVars, bridgeVars, Dirs, Pipes, DialTarget
<1>3. Headed'
  BY <1>0, StartEffect, <1>1, SMTT(30) DEF Types, Bounded, Holds, Carries, Held,
     Header, Headed, vars, pipeVars, bridgeVars, Dirs, Pipes, Copiers, DialTarget
<1>4. ASSUME NEW e \in Dirs, NEW k \in Copiers,
             ~ ((e = "up" /\ k = 2) \/ (e = "down" /\ k = 1))
      PROVE  Kept(e, k)
  BY <1>4, <1>0, StartEffect, SMTT(20) DEF Kept, Types, vars, pipeVars, bridgeVars,
     Dirs, Pipes, Copiers, Headed, DialTarget
<1>5. ASSUME NEW e \in Dirs, NEW k \in Copiers, (e = "up" /\ k = 2) \/ (e = "down" /\ k = 1)
      PROVE  Carries(e, k)'
  <2>1. copier'[e][k] = "copying" /\ copier[e][k] = "idle"
    BY <1>5, <1>0, StartEffect, SMTT(20) DEF Headed, Dirs, Copiers, DialTarget
  <2>2. wrote'[e][k + 1] = 0 /\ read'[e][k] = read[e][k]
    BY <2>1 DEF Holds, Carries, DialTarget, pipeVars
  <2>3. Held(e, k)' = 0
    <3>1. Taken(e, k)' = 0
      BY <1>5, <2>1, <2>2, WholeStarts DEF Taken, Headed, DialTarget, pipeVars
    <3>2. QED
      BY <1>1, <2>2, <3>1, HeldIsNext
  <2>4. QED
    BY <2>1, <2>3 DEF Carries
<1>6. Holds'
  BY <1>4, <1>5, SameCarries DEF Holds
<1>7. ASSUME ~ fault', NEW e \in Dirs, NEW k \in Copiers,
             ~ ((e = "up" /\ k = 2) \/ (e = "down" /\ k = 1))
      PROVE  Settled(e, k)'
  <2>1. \A f \in Dirs, i \in Copiers : Settled(f, i)
    BY <1>7 DEF Orderly, vars, pipeVars, bridgeVars, DialTarget
  <2>2. KeptOpen(e, k)
    BY <1>7, <2>1, <1>0, StartEffect, SMTT(20) DEF KeptOpen, Settled, Types, vars,
       pipeVars, bridgeVars, Dirs, Pipes, Copiers, Headed, DialTarget
  <2>3. QED
    BY <1>4, <1>7, <2>1, <2>2, SameSettled
<1>8. ASSUME ~ fault', NEW e \in Dirs, NEW k \in Copiers,
             (e = "up" /\ k = 2) \/ (e = "down" /\ k = 1)
      PROVE  Settled(e, k)'
  <2>1. broken = {} /\ \A f \in Dirs, i \in Copiers : Settled(f, i)
    BY <1>8 DEF Orderly, vars, pipeVars, bridgeVars, DialTarget
  <2>2. QED
    BY <1>8, <2>1, <1>0, StartEffect, <1>1, HeldIs, SMTT(30) DEF Types, Settled,
       Held, Header, Headed, vars, pipeVars, bridgeVars, Dirs, Pipes, Copiers,
       DialTarget
<1>9. Orderly'
  BY <1>7, <1>8 DEF Orderly, vars, pipeVars, bridgeVars, DialTarget
<1>10. QED
  BY <1>1, <1>2, <1>3, <1>6, <1>9 DEF Hops

\* Handle gives up: the target does not answer, which counts as a fault.
LEMMA DialTargetFailsInv == ASSUME BridgeInv, DialTargetFails PROVE Hops'
<1> Types /\ Bounded /\ Holds /\ Headed /\ Orderly
  BY DEF BridgeInv, Hops
<1>0. /\ "down" \in Dirs /\ 2 \in Pipes
      /\ Close("down", 2)
  BY DEF DialTargetFails, Close, CopyStops, Dirs, Pipes, Copiers
<1>1. Types'
  BY <1>0, CloseEffect, SMTT(20) DEF Types, BrokerState, ProviderState, vars,
     pipeVars, bridgeVars, Dirs, Copiers, Links, DialTargetFails
<1>2. Bounded'
  BY <1>0, CloseEffect, WindowNat, SMTT(20) DEF Types, Bounded, vars,
     pipeVars, bridgeVars, Dirs, Pipes, DialTargetFails
<1>3. Headed'
  BY <1>0, CloseEffect, <1>1, SMTT(30) DEF Types, Bounded, Holds, Carries, Held,
     Header, Headed, vars, pipeVars, bridgeVars, Dirs, Pipes, Copiers,
     DialTargetFails
<1>4. ASSUME NEW e \in Dirs, NEW k \in Copiers PROVE Kept(e, k)
  BY <1>0, CloseEffect, SMTT(20) DEF Kept, Types, vars, pipeVars, bridgeVars, Dirs,
     Pipes, Copiers, Headed, DialTargetFails
<1>5. Holds'
  BY <1>4, SameCarries DEF Holds
<1>6. Orderly'
  BY DEF Orderly, DialTargetFails
<1>10. QED
  BY <1>1, <1>2, <1>3, <1>5, <1>6 DEF Hops

\* Handle returns when both copies have, and closes what is left.
LEMMA HandleReturnsInv == ASSUME BridgeInv, HandleReturns PROVE Hops'
<1> Types /\ Bounded /\ Holds /\ Headed /\ Orderly
  BY DEF BridgeInv, Hops
<1>1. /\ provider = "bridging" /\ provider' = "returned"
      /\ UNCHANGED <<wrote, read, fault, broker, copier, ended>>
  BY DEF HandleReturns
<1>2. /\ fin' \in [Dirs -> [Pipes -> BOOLEAN]]
      /\ \A e \in Dirs, k \in Pipes :
             fin'[e][k] = (fin[e][k] \/ (e = "up" /\ k = 3) \/ (e = "down" /\ k = 2))
  <2>1. fin' = [fin EXCEPT !["up"][3] = TRUE, !["down"][2] = TRUE]
    BY DEF HandleReturns
  <2>2. 2 \in Pipes /\ 3 \in Pipes
    BY DEF Pipes
  <2>3. QED
    BY <2>1, <2>2, CloseBothEffect, Zenon
<1>3. broken' \subseteq Links
  BY SMTT(20) DEF HandleReturns, Types, Links
<1>4. Types'
  BY <1>1, <1>2, <1>3, SMTT(20) DEF Types, BrokerState, ProviderState, Links, pipeVars
<1>5. Bounded'
  BY <1>1 DEF Bounded, pipeVars
<1>6. Headed'
  BY <1>1, SMTT(20) DEF Headed, pipeVars
<1>7. ASSUME NEW e \in Dirs, NEW k \in Copiers PROVE Kept(e, k)
  BY <1>1 DEF Kept, pipeVars
<1>8. Holds'
  BY <1>7, SameCarries DEF Holds
<1>9. ASSUME ~ fault', NEW e \in Dirs, NEW k \in Copiers PROVE Settled(e, k)'
  <2>1. \A d \in Dirs, j \in Copiers : Settled(d, j)
    BY <1>1, <1>9 DEF Orderly
  <2>2. k \in Pipes /\ k + 1 \in Pipes
    BY DEF Copiers, Pipes
  <2>3. fin["up"][3] /\ fin["down"][2]
    BY <2>1, SMTT(20) DEF Settled, Dirs, Copiers, HandleReturns
  <2>4. fin'[e][k] = fin[e][k] /\ fin'[e][k + 1] = fin[e][k + 1]
    <3>1. fin[e][k] \in BOOLEAN /\ fin[e][k + 1] \in BOOLEAN
      BY <2>2 DEF Types
    <3>2. QED
      BY <1>2, <2>2, <2>3, <3>1, SMTT(20)
  <2>5. QED
    BY <1>1, <1>7, <2>1, <2>4, SameSettled DEF KeptOpen
<1>10. ASSUME ~ fault' PROVE broken' = {}
  <2>1. broken = {} /\ \A d \in Dirs, j \in Copiers : Settled(d, j)
    BY <1>1, <1>10 DEF Orderly
  <2>2. Settled("down", 1) /\ copier["down"][1] = "done"
    BY <2>1 DEF HandleReturns, Dirs, Copiers
  <2>3. fin["down"][1] /\ read["down"][1] = wrote["down"][1]
    BY <2>2 DEF Settled
  <2>4. read["down"][1] \in Nat
    BY DEF Types, Dirs, Pipes
  <2>5. ~ Readable("down", 1)
    BY <2>3, <2>4 DEF Readable
  <2>6. QED
    BY <2>1, <2>3, <2>5 DEF HandleReturns
<1>11. Orderly'
  BY <1>1, <1>9, <1>10 DEF Orderly
<1>12. QED
  BY <1>4, <1>5, <1>6, <1>8, <1>11 DEF Hops

\* A program writes to the first pipe of its direction.
LEMMA EndWritesInv ==
    ASSUME BridgeInv, NEW d \in Dirs, EndWrites(d)
    PROVE  Hops'
<1> Types /\ Bounded /\ Holds /\ Headed /\ Orderly
  BY DEF BridgeInv, Hops
<1>0. /\ d \in Dirs /\ 1 \in Pipes
      /\ Write(d, 1)
  BY DEF EndWrites, Close, CopyStops, Dirs, Pipes, Copiers
<1>1. Types'
  BY <1>0, WriteEffect, SMTT(20) DEF Types, BrokerState, ProviderState, vars,
     pipeVars, bridgeVars, Dirs, Copiers, Links, EndWrites
<1>2. Bounded'
  BY <1>0, WriteEffect, WindowNat, SMTT(20) DEF Types, Bounded, vars,
     pipeVars, bridgeVars, Dirs, Pipes, EndWrites
<1>3. Headed'
  BY <1>0, WriteEffect, <1>1, SMTT(30) DEF Types, Bounded, Holds, Carries, Held,
     Header, Headed, vars, pipeVars, bridgeVars, Dirs, Pipes, Copiers, EndWrites
<1>4. ASSUME NEW e \in Dirs, NEW k \in Copiers PROVE Kept(e, k)
  BY <1>0, WriteEffect, SMTT(20) DEF Kept, Types, vars, pipeVars, bridgeVars, Dirs,
     Pipes, Copiers, Headed, EndWrites
<1>5. Holds'
  BY <1>4, SameCarries DEF Holds
<1>6. ASSUME ~ fault', NEW e \in Dirs, NEW k \in Copiers PROVE Settled(e, k)'
  <2>1. Settled(e, k)
    BY <1>6 DEF Orderly, vars, pipeVars, bridgeVars, EndWrites
  <2>2. KeptOpen(e, k)
    BY <2>1, <1>0, WriteEffect, SMTT(20) DEF KeptOpen, Settled, Types, vars,
       pipeVars, bridgeVars, Dirs, Pipes, Copiers, Headed, EndWrites
  <2>3. QED
    BY <1>4, <2>1, <2>2, SameSettled
<1>7. Orderly'
  BY <1>6 DEF Orderly, vars, pipeVars, bridgeVars, EndWrites
<1>10. QED
  BY <1>1, <1>2, <1>3, <1>5, <1>7 DEF Hops

\* A program closes the first pipe of its direction.
LEMMA EndClosesInv ==
    ASSUME BridgeInv, NEW d \in Dirs, EndCloses(d)
    PROVE  Hops'
<1> Types /\ Bounded /\ Holds /\ Headed /\ Orderly
  BY DEF BridgeInv, Hops
<1>0. /\ d \in Dirs /\ 1 \in Pipes
      /\ Close(d, 1)
  BY DEF EndCloses, Close, CopyStops, Dirs, Pipes, Copiers
<1>1. Types'
  BY <1>0, CloseEffect, SMTT(20) DEF Types, BrokerState, ProviderState, vars,
     pipeVars, bridgeVars, Dirs, Copiers, Links, EndCloses
<1>2. Bounded'
  BY <1>0, CloseEffect, WindowNat, SMTT(20) DEF Types, Bounded, vars,
     pipeVars, bridgeVars, Dirs, Pipes, EndCloses
<1>3. Headed'
  BY <1>0, CloseEffect, <1>1, SMTT(30) DEF Types, Bounded, Holds, Carries, Held,
     Header, Headed, vars, pipeVars, bridgeVars, Dirs, Pipes, Copiers, EndCloses
<1>4. ASSUME NEW e \in Dirs, NEW k \in Copiers PROVE Kept(e, k)
  BY <1>0, CloseEffect, SMTT(20) DEF Kept, Types, vars, pipeVars, bridgeVars, Dirs,
     Pipes, Copiers, Headed, EndCloses
<1>5. Holds'
  BY <1>4, SameCarries DEF Holds
<1>6. ASSUME ~ fault', NEW e \in Dirs, NEW k \in Copiers PROVE Settled(e, k)'
  <2>1. Settled(e, k)
    BY <1>6 DEF Orderly, vars, pipeVars, bridgeVars, EndCloses
  <2>2. k \in Pipes /\ k + 1 \in Pipes /\ k + 1 # 1
    BY DEF Copiers, Pipes
  <2>3. fin'[e][k + 1] = fin[e][k + 1] /\ (fin[e][k] => fin'[e][k])
    BY <1>0, <2>2, CloseEffect
  <2>4. KeptOpen(e, k)
    BY <2>3 DEF KeptOpen, EndCloses
  <2>5. QED
    BY <1>4, <2>1, <2>4, SameSettled
<1>7. Orderly'
  BY <1>6 DEF Orderly, vars, pipeVars, bridgeVars, EndCloses
<1>10. QED
  BY <1>1, <1>2, <1>3, <1>5, <1>7 DEF Hops

\* A program reads from the last pipe of the other direction.
LEMMA EndReadsInv ==
    ASSUME BridgeInv, NEW d \in Dirs, EndReads(d)
    PROVE  Hops'
<1> Types /\ Bounded /\ Holds /\ Headed /\ Orderly
  BY DEF BridgeInv, Hops
<1>0. /\ d \in Dirs /\ 3 \in Pipes
      /\ Read(d, 3)
  BY DEF EndReads, Close, CopyStops, Dirs, Pipes, Copiers
<1>1. Types'
  BY <1>0, ReadEffect, SMTT(20) DEF Types, BrokerState, ProviderState, vars,
     pipeVars, bridgeVars, Dirs, Copiers, Links, EndReads
<1>2. Bounded'
  BY <1>0, ReadEffect, WindowNat, SMTT(20) DEF Types, Bounded, vars,
     pipeVars, bridgeVars, Dirs, Pipes, EndReads
<1>3. Headed'
  BY <1>0, ReadEffect, <1>1, SMTT(30) DEF Types, Bounded, Holds, Carries, Held,
     Header, Headed, vars, pipeVars, bridgeVars, Dirs, Pipes, Copiers, EndReads
<1>4. ASSUME NEW e \in Dirs, NEW k \in Copiers PROVE Kept(e, k)
  BY <1>0, ReadEffect, SMTT(20) DEF Kept, Types, vars, pipeVars, bridgeVars, Dirs,
     Pipes, Copiers, Headed, EndReads
<1>5. Holds'
  BY <1>4, SameCarries DEF Holds
<1>6. ASSUME ~ fault', NEW e \in Dirs, NEW k \in Copiers PROVE Settled(e, k)'
  <2>1. Settled(e, k)
    BY <1>6 DEF Orderly, vars, pipeVars, bridgeVars, EndReads
  <2>2. KeptOpen(e, k)
    BY <2>1, <1>0, ReadEffect, SMTT(20) DEF KeptOpen, Settled, Types, vars,
       pipeVars, bridgeVars, Dirs, Pipes, Copiers, Headed, EndReads
  <2>3. QED
    BY <1>4, <2>1, <2>2, SameSettled
<1>7. Orderly'
  BY <1>6 DEF Orderly, vars, pipeVars, bridgeVars, EndReads
<1>10. QED
  BY <1>1, <1>2, <1>3, <1>5, <1>7 DEF Hops

\* A program sees the end of the last pipe.
LEMMA EndSeesEndInv ==
    ASSUME BridgeInv, NEW d \in Dirs, EndSeesEnd(d)
    PROVE  Hops'
<1> Types /\ Bounded /\ Holds /\ Headed /\ Orderly
  BY DEF BridgeInv, Hops
<1>1. Types'
  BY SMTT(20) DEF Types, BrokerState, ProviderState, vars, pipeVars, bridgeVars,
     Dirs, Copiers, Links, EndSeesEnd
<1>2. Bounded'
  BY WindowNat, SMTT(20) DEF Types, Bounded, vars, pipeVars, bridgeVars,
     Dirs, Pipes, EndSeesEnd
<1>3. Headed'
  BY <1>1, SMTT(30) DEF Types, Bounded, Holds, Carries, Held, Header, Headed, vars,
     pipeVars, bridgeVars, Dirs, Pipes, Copiers, EndSeesEnd
<1>4. ASSUME NEW e \in Dirs, NEW k \in Copiers PROVE Kept(e, k)
  BY SMTT(20) DEF Kept, Types, vars, pipeVars, bridgeVars, Dirs, Pipes, Copiers,
     Headed, EndSeesEnd
<1>5. Holds'
  BY <1>4, SameCarries DEF Holds
<1>6. ASSUME ~ fault', NEW e \in Dirs, NEW k \in Copiers PROVE Settled(e, k)'
  <2>1. Settled(e, k)
    BY <1>6 DEF Orderly, vars, pipeVars, bridgeVars, EndSeesEnd
  <2>2. KeptOpen(e, k)
    BY <2>1, SMTT(20) DEF KeptOpen, Settled, Types, vars, pipeVars, bridgeVars,
       Dirs, Pipes, Copiers, Headed, EndSeesEnd
  <2>3. QED
    BY <1>4, <2>1, <2>2, SameSettled
<1>7. Orderly'
  BY <1>6 DEF Orderly, vars, pipeVars, bridgeVars, EndSeesEnd
<1>10. QED
  BY <1>1, <1>2, <1>3, <1>5, <1>7 DEF Hops

\* A copier with an empty buffer reads.
LEMMA CopyReadsInv ==
    ASSUME BridgeInv, NEW d \in Dirs, NEW j \in Copiers, CopyReads(d, j)
    PROVE  Hops'
<1> Types /\ Bounded /\ Holds /\ Headed /\ Orderly
  BY DEF BridgeInv, Hops
<1>0. /\ d \in Dirs /\ j \in Pipes
      /\ Read(d, j)
  BY DEF CopyReads, Close, CopyStops, Dirs, Pipes, Copiers
<1>1. Types'
  BY <1>0, ReadEffect, SMTT(20) DEF Types, BrokerState, ProviderState, vars,
     pipeVars, bridgeVars, Dirs, Copiers, Links, CopyReads
<1>2. Bounded'
  BY <1>0, ReadEffect, WindowNat, SMTT(20) DEF Types, Bounded, vars,
     pipeVars, bridgeVars, Dirs, Pipes, CopyReads
<1>3. Headed'
  BY <1>0, ReadEffect, <1>1, SMTT(30) DEF Types, Bounded, Holds, Carries, Held,
     Header, Headed, vars, pipeVars, bridgeVars, Dirs, Pipes, Copiers, CopyReads
<1>4. ASSUME NEW e \in Dirs, NEW k \in Copiers, ~ (e = d /\ k = j)
      PROVE  Kept(e, k)
  BY <1>4, <1>0, ReadEffect, SMTT(20) DEF Kept, Types, vars, pipeVars, bridgeVars,
     Dirs, Pipes, Copiers, Headed, CopyReads
<1>5. Carries(d, j)'
  <2>1. read'[d][j] = read[d][j] + 1 /\ wrote'[d][j + 1] = wrote[d][j + 1]
    BY <1>0, ReadEffect DEF CopyReads, Copiers, Pipes
  <2>2. copier'[d][j] = "copying" /\ copier[d][j] = "copying" /\ Held(d, j) = 0
    BY DEF CopyReads, bridgeVars
  <2>3. CASE d = "up" /\ j = 2
    <3>1. /\ read["up"][2] - 1 \in 0..MaxData["up"]
          /\ Taken("up", 2) = Whole[read["up"][2] - 1]
      BY <2>2, <2>3, InReach
    <3>2. read["up"][2] < wrote["up"][2] /\ read["up"][2] \in Nat
      BY <1>0, <2>3, ReadEffect, Upstream
    <3>3. read["up"][2] \in 0..MaxData["up"]
      BY <3>2, Upstream
    <3>4. Whole[read["up"][2]] \in Nat /\ Whole[read["up"][2] - 1] \in Nat
      BY <3>1, <3>3, WholeIs
    <3>5. Whole[read["up"][2] - 1] <= Whole[read["up"][2]]
      BY <3>1, <3>2, <3>3, WholeIs
    <3>6. Taken(d, j)' = Whole[read["up"][2]]
      BY <2>1, <2>3, <3>2 DEF Taken
    <3>7. wrote[d][j + 1] = Whole[read["up"][2] - 1]
      BY <2>2, <2>3, <3>1, <3>4, HeldIs
    <3>8. Held(d, j)' \in Nat
      BY <1>1, <2>1, <3>4, <3>5, <3>6, <3>7, HeldIsNext
    <3>9. QED
      BY <2>2, <2>3, <3>8 DEF Carries
  <2>4. CASE ~ (d = "up" /\ j = 2)
    <3>1. Taken(d, j)' = Taken(d, j) + 1 /\ Taken(d, j) \in Nat
      BY <2>1, <2>4, HeldIs DEF Taken
    <3>2. Held(d, j)' = 1
      BY <1>1, <2>1, <2>2, <3>1, HeldIs, HeldIsNext
    <3>3. QED
      BY <2>2, <2>4, <3>2 DEF Carries
  <2>5. QED
    BY <2>3, <2>4
<1>6. Holds'
  BY <1>4, <1>5, SameCarries DEF Holds
<1>7. ASSUME ~ fault', NEW e \in Dirs, NEW k \in Copiers, ~ (e = d /\ k = j)
      PROVE  Settled(e, k)'
  <2>1. \A f \in Dirs, i \in Copiers : Settled(f, i)
    BY <1>7 DEF Orderly, vars, pipeVars, bridgeVars, CopyReads
  <2>2. KeptOpen(e, k)
    BY <1>7, <2>1, <1>0, ReadEffect, SMTT(20) DEF KeptOpen, Settled, Types, vars,
       pipeVars, bridgeVars, Dirs, Pipes, Copiers, Headed, CopyReads
  <2>3. QED
    BY <1>4, <1>7, <2>1, <2>2, SameSettled
<1>8. ASSUME ~ fault' PROVE Settled(d, j)'
  <2>1. Settled(d, j) /\ copier[d][j] = "copying"
    BY <1>8 DEF Orderly, CopyReads
  <2>2. copier'[d][j] = "copying" /\ ~ fin'[d][j + 1]
    BY <2>1 DEF Settled, CopyReads, pipeVars, bridgeVars
  <2>3. QED
    BY <2>2 DEF Settled
<1>9. Orderly'
  BY <1>7, <1>8 DEF Orderly, vars, pipeVars, bridgeVars, CopyReads
<1>10. QED
  BY <1>1, <1>2, <1>3, <1>6, <1>9 DEF Hops

\* A copier writes what it has read, and its buffer is empty again.
LEMMA CopyWritesInv ==
    ASSUME BridgeInv, NEW d \in Dirs, NEW j \in Copiers, CopyWrites(d, j)
    PROVE  Hops'
<1> Types /\ Bounded /\ Holds /\ Headed /\ Orderly
  BY DEF BridgeInv, Hops
<1>0. /\ d \in Dirs /\ j + 1 \in Pipes
      /\ Write(d, j + 1)
  BY DEF CopyWrites, Close, CopyStops, Dirs, Pipes, Copiers
<1>1. Types'
  BY <1>0, WriteEffect, SMTT(20) DEF Types, BrokerState, ProviderState, vars,
     pipeVars, bridgeVars, Dirs, Copiers, Links, CopyWrites
<1>2. Bounded'
  BY <1>0, WriteEffect, WindowNat, SMTT(20) DEF Types, Bounded, vars,
     pipeVars, bridgeVars, Dirs, Pipes, CopyWrites
<1>3. Headed'
  BY <1>0, WriteEffect, <1>1, SMTT(30) DEF Types, Bounded, Holds, Carries, Held,
     Header, Headed, vars, pipeVars, bridgeVars, Dirs, Pipes, Copiers, CopyWrites
<1>4. ASSUME NEW e \in Dirs, NEW k \in Copiers, ~ (e = d /\ k = j)
      PROVE  Kept(e, k)
  BY <1>4, <1>0, WriteEffect, SMTT(20) DEF Kept, Types, vars, pipeVars, bridgeVars,
     Dirs, Pipes, Copiers, Headed, CopyWrites
<1>5. Carries(d, j)'
  <2>1. read'[d][j] = read[d][j] /\ wrote'[d][j + 1] = wrote[d][j + 1] + 1
    BY <1>0, WriteEffect DEF CopyWrites, Copiers, Pipes
  <2>2. copier'[d][j] = "copying" /\ copier[d][j] = "copying" /\ Held(d, j) > 0
    BY DEF CopyWrites, bridgeVars
  <2>3. Taken(d, j) \in Nat /\ Taken(d, j)' = Taken(d, j)
    <3>1. CASE d = "up" /\ j = 2
      BY <2>1, <2>2, <3>1, InReach, WholeIs DEF Taken
    <3>2. CASE ~ (d = "up" /\ j = 2)
      BY <2>1, <3>2, HeldIs DEF Taken
    <3>3. QED
      BY <3>1, <3>2
  <2>4. Held(d, j)' = Held(d, j) - 1
    BY <1>1, <2>1, <2>3, HeldIs, HeldIsNext
  <2>5. Carries(d, j)
    BY DEF Holds
  <2>6. QED
    BY <2>2, <2>4, <2>5 DEF Carries
<1>6. Holds'
  BY <1>4, <1>5, SameCarries DEF Holds
<1>7. ASSUME ~ fault', NEW e \in Dirs, NEW k \in Copiers, ~ (e = d /\ k = j)
      PROVE  Settled(e, k)'
  <2>1. \A f \in Dirs, i \in Copiers : Settled(f, i)
    BY <1>7 DEF Orderly, vars, pipeVars, bridgeVars, CopyWrites
  <2>2. KeptOpen(e, k)
    BY <1>7, <2>1, <1>0, WriteEffect, SMTT(20) DEF KeptOpen, Settled, Types, vars,
       pipeVars, bridgeVars, Dirs, Pipes, Copiers, Headed, CopyWrites
  <2>3. QED
    BY <1>4, <1>7, <2>1, <2>2, SameSettled
<1>8. ASSUME ~ fault' PROVE Settled(d, j)'
  <2>1. Settled(d, j) /\ copier[d][j] = "copying"
    BY <1>8 DEF Orderly, CopyWrites
  <2>2. copier'[d][j] = "copying" /\ ~ fin'[d][j + 1]
    BY <2>1 DEF Settled, CopyWrites, pipeVars, bridgeVars
  <2>3. QED
    BY <2>2 DEF Settled
<1>9. Orderly'
  BY <1>7, <1>8 DEF Orderly, vars, pipeVars, bridgeVars, CopyWrites
<1>10. QED
  BY <1>1, <1>2, <1>3, <1>6, <1>9 DEF Hops

\* A copier that sees the end of its source has written everything, and closes.
LEMMA CopyEndsInv ==
    ASSUME BridgeInv, NEW d \in Dirs, NEW j \in Copiers, CopyEnds(d, j)
    PROVE  Hops'
<1> Types /\ Bounded /\ Holds /\ Headed /\ Orderly
  BY DEF BridgeInv, Hops
<1>0. /\ d \in Dirs /\ j + 1 \in Pipes
      /\ Close(d, j + 1)
      /\ d \in Dirs /\ j \in Copiers
      /\ copier' = [copier EXCEPT ![d][j] = "done"]
  BY DEF CopyEnds, Close, CopyStops, Dirs, Pipes, Copiers
<1>1. Types'
  BY <1>0, CloseEffect, StopEffect, SMTT(20) DEF Types, BrokerState, ProviderState,
     vars, pipeVars, bridgeVars, Dirs, Copiers, Links, CopyEnds
<1>2. Bounded'
  BY <1>0, CloseEffect, StopEffect, WindowNat, SMTT(20) DEF Types, Bounded,
     vars, pipeVars, bridgeVars, Dirs, Pipes, CopyEnds
<1>3. Headed'
  BY <1>0, CloseEffect, StopEffect, <1>1, SMTT(30) DEF Types, Bounded, Holds,
     Carries, Held, Header, Headed, vars, pipeVars, bridgeVars, Dirs, Pipes,
     Copiers, CopyEnds, CopyStops, AtEnd, Refused, Readable
<1>4. ASSUME NEW e \in Dirs, NEW k \in Copiers, ~ (e = d /\ k = j)
      PROVE  Kept(e, k)
  BY <1>4, <1>0, CloseEffect, StopEffect, SMTT(20) DEF Kept, Types, vars, pipeVars,
     bridgeVars, Dirs, Pipes, Copiers, Headed, CopyEnds
<1>5. ASSUME NEW e \in Dirs, NEW k \in Copiers, e = d /\ k = j
      PROVE  Carries(e, k)'
  BY <1>5, <1>0, CloseEffect, StopEffect, <1>1, HeldIs, SMTT(30) DEF Types, Carries,
     Held, Header, Holds, Headed, vars, pipeVars, bridgeVars, Dirs, Pipes, Copiers,
     CopyEnds, CopyStops, AtEnd, Refused, Readable
<1>6. Holds'
  BY <1>4, <1>5, SameCarries DEF Holds
<1>7. ASSUME ~ fault', NEW e \in Dirs, NEW k \in Copiers, ~ (e = d /\ k = j)
      PROVE  Settled(e, k)'
  <2>1. \A f \in Dirs, i \in Copiers : Settled(f, i)
    BY <1>7 DEF Orderly, vars, pipeVars, bridgeVars, CopyEnds
  <2>2. k \in Pipes /\ k + 1 \in Pipes /\ (e # d \/ k + 1 # j + 1)
    BY <1>7 DEF Copiers, Pipes
  <2>3. fin'[e][k + 1] = fin[e][k + 1] /\ (fin[e][k] => fin'[e][k])
    BY <1>0, <2>2, CloseEffect
  <2>4. KeptOpen(e, k)
    BY <2>3 DEF KeptOpen, CopyEnds
  <2>5. QED
    BY <1>4, <1>7, <2>1, <2>4, SameSettled
<1>8. ASSUME ~ fault' PROVE Settled(d, j)'
  <2>1. broken = {} /\ Settled(d, j) /\ copier[d][j] = "copying"
    BY <1>8 DEF Orderly, CopyEnds, CopyStops
  <2>2. ~ fin[d][j + 1]
    BY <2>1 DEF Settled
  <2>3. Held(d, j) = 0 /\ fin[d][j] /\ ~ Readable(d, j)
    BY <2>1, <2>2 DEF CopyEnds, CopyStops, AtEnd, Refused
  <2>4. d \in Dirs /\ j \in Pipes /\ j + 1 \in Pipes
    BY DEF Copiers, Pipes
  <2>5. read[d][j] = wrote[d][j]
    <3>1. read[d][j] \in Nat /\ wrote[d][j] \in Nat /\ read[d][j] <= wrote[d][j]
      BY <2>4 DEF Types, Bounded
    <3>2. QED
      BY <2>3, <3>1 DEF Readable
  <2>6. fin'[d][j] /\ fin'[d][j + 1]
    BY <1>0, <2>3, <2>4, CloseEffect
  <2>7. Held(d, j)' = 0 /\ read'[d][j] = wrote'[d][j]
    BY <2>3, <2>5, HeldSame DEF CopyEnds
  <2>8. copier'[d][j] = "done"
    BY <1>0, StopEffect
  <2>9. QED
    BY <2>6, <2>7, <2>8 DEF Settled
<1>9. Orderly'
  BY <1>7, <1>8 DEF Orderly, vars, pipeVars, bridgeVars, CopyEnds
<1>10. QED
  BY <1>1, <1>2, <1>3, <1>6, <1>9 DEF Hops

\* A link that breaks is a fault, after which nothing is orderly any more.
LEMMA LinkBreaksInv ==
    ASSUME BridgeInv, NEW l \in Links, LinkBreaks(l)
    PROVE  Hops'
<1> Types /\ Bounded /\ Holds /\ Headed /\ Orderly
  BY DEF BridgeInv, Hops
<1>1. Types'
  BY SMTT(20) DEF Types, BrokerState, ProviderState, vars, pipeVars, bridgeVars,
     Dirs, Copiers, Links, LinkBreaks
<1>2. Bounded'
  BY WindowNat, SMTT(20) DEF Types, Bounded, vars, pipeVars, bridgeVars,
     Dirs, Pipes, LinkBreaks
<1>3. Headed'
  BY <1>1, SMTT(30) DEF Types, Bounded, Holds, Carries, Held, Header, Headed, vars,
     pipeVars, bridgeVars, Dirs, Pipes, Copiers, LinkBreaks
<1>4. ASSUME NEW e \in Dirs, NEW k \in Copiers PROVE Kept(e, k)
  BY SMTT(20) DEF Kept, Types, vars, pipeVars, bridgeVars, Dirs, Pipes, Copiers,
     Headed, LinkBreaks
<1>5. Holds'
  BY <1>4, SameCarries DEF Holds
<1>6. Orderly'
  BY DEF Orderly, LinkBreaks
<1>10. QED
  BY <1>1, <1>2, <1>3, <1>5, <1>6 DEF Hops

\* A stream that yamux resets is a link that breaks.
LEMMA StreamTimesOutBreaks ==
    ASSUME NEW l \in {1, 2}, StreamTimesOut(l)
    PROVE  l \in Links /\ LinkBreaks(l)
BY DEF StreamTimesOut, Links

\* Nothing has been sent at first.
LEMMA InitInv == ASSUME Init PROVE Hops
<1>1. Types
  <2>1. wrote \in [Dirs -> [Pipes -> Nat]] /\ read \in [Dirs -> [Pipes -> Nat]]
    BY DEF Init
  <2>2. fin \in [Dirs -> [Pipes -> BOOLEAN]] /\ ended \in [Dirs -> BOOLEAN]
    BY DEF Init
  <2>3. copier \in [Dirs -> [Copiers -> {"idle", "copying", "done"}]]
    BY DEF Init
  <2>4. /\ broken \subseteq Links /\ fault \in BOOLEAN
        /\ broker \in BrokerState /\ provider \in ProviderState
    BY DEF Init, BrokerState, ProviderState
  <2>5. QED
    BY <2>1, <2>2, <2>3, <2>4 DEF Types
<1>2. Bounded
  BY WindowNat, SMTT(20) DEF Init, Bounded
<1>3. Holds
  BY DEF Init, Holds, Carries, Dirs, Copiers, Pipes
<1>4. Headed
  BY DEF Init, Headed, Dirs, Copiers, Pipes
<1>5. Orderly
  BY DEF Init, Orderly, Settled, Dirs, Copiers, Pipes
<1>6. QED
  BY <1>1, <1>2, <1>3, <1>4, <1>5 DEF Hops

\* A step that changes nothing.
LEMMA StutterInv == ASSUME BridgeInv, UNCHANGED vars PROVE Hops'
<1>1. UNCHANGED <<wrote, read, fin, broken, fault, broker, provider, copier, ended>>
  BY DEF vars, pipeVars, bridgeVars
<1>2. QED
  BY <1>1 DEF BridgeInv, Hops, Types, Bounded, Holds, Carries, Headed, Orderly, Settled, Held

\* Every step keeps the invariant.
LEMMA StepHops == ASSUME BridgeInv, [Next]_vars PROVE Hops'
<1>1. CASE Dial \/ OpenStep
  BY <1>1, DialInv, OpenStreamInv, OpenStreamFailsInv DEF OpenStep
<1>2. CASE BrokerStep
  BY <1>2, ReadHeaderInv, ReadHeaderFailsInv, WriteHeaderInv, WriteHeaderFailsInv,
     BridgeReturnsInv DEF BrokerStep
<1>3. CASE ProviderStep
  BY <1>3, ReadAddressInv, ReadAddressFailsInv, DialTargetInv, DialTargetFailsInv,
     HandleReturnsInv DEF ProviderStep
<1>4. ASSUME NEW d \in Dirs, EndWrites(d) \/ EndCloses(d) \/ EndReceives(d) PROVE Hops'
  BY <1>4, EndWritesInv, EndClosesInv, EndReadsInv, EndSeesEndInv DEF EndReceives
<1>5. ASSUME NEW d \in Dirs, NEW j \in Copiers, CopyStep(d, j) PROVE Hops'
  BY <1>5, CopyReadsInv, CopyWritesInv, CopyEndsInv DEF CopyStep
<1>6. ASSUME NEW l \in Links, LinkBreaks(l) PROVE Hops'
  BY <1>6, LinkBreaksInv
<1>7. ASSUME NEW l \in {1, 2}, StreamTimesOut(l) PROVE Hops'
  BY <1>7, StreamTimesOutBreaks, LinkBreaksInv
<1>8. CASE UNCHANGED vars
  BY <1>8, StutterInv
<1>9. QED
  BY <1>1, <1>2, <1>3, <1>4, <1>5, <1>6, <1>7, <1>8 DEF Next

\* The client writes no more than it may.
LEMMA StepLimited == ASSUME BridgeInv, [Next]_vars PROVE Limited'
<1> Types /\ "up" \in Dirs /\ 1 \in Pipes /\ wrote["up"][1] \in Nat /\ MaxData["up"] \in Nat
  BY Upstream DEF BridgeInv, Hops, Dirs, Pipes
<1>1. CASE wrote'["up"][1] = wrote["up"][1]
  BY <1>1 DEF BridgeInv, Limited
<1>2. CASE Dial
  BY <1>2, WriteEffect DEF Dial, Limited
<1>3. CASE EndWrites("up")
  <2>1. wrote'["up"][1] = wrote["up"][1] + 1
    BY <1>3, WriteEffect DEF EndWrites
  <2>2. wrote["up"][1] - 1 < MaxData["up"]
    BY <1>3 DEF EndWrites, Header
  <2>3. QED
    BY <2>1, <2>2 DEF Limited
<1>4. CASE OpenStep \/ BrokerStep
  <2>1. CASE WriteHeader
    <3>1. 2 \in Pipes /\ Write("up", 2)
      BY <2>1 DEF WriteHeader, Pipes
    <3>2. QED
      BY <1>1, <3>1, WriteEffect
  <2>2. CASE ~ WriteHeader
    BY <1>1, <1>4, <2>2 DEF OpenStep, OpenStream, OpenStreamFails, BrokerStep, ReadHeader,
       ReadHeaderFails, WriteHeaderFails, BridgeReturns, pipeVars
  <2>3. QED
    BY <2>1, <2>2
<1>5. CASE ProviderStep
  BY <1>1, <1>5 DEF ProviderStep, ReadAddress, ReadAddressFails, DialTarget,
     DialTargetFails, HandleReturns, pipeVars
<1>6. ASSUME NEW d \in Dirs, EndWrites(d) \/ EndCloses(d) \/ EndReceives(d) PROVE Limited'
  <2>1. CASE EndWrites(d) /\ d # "up"
    BY <1>1, <2>1, WriteEffect DEF EndWrites
  <2>2. CASE EndCloses(d) \/ EndReceives(d)
    BY <1>1, <2>2 DEF EndCloses, EndReceives, EndReads, EndSeesEnd, pipeVars
  <2>3. QED
    BY <1>3, <1>6, <2>1, <2>2
<1>7. ASSUME NEW d \in Dirs, NEW j \in Copiers, CopyStep(d, j) PROVE Limited'
  <2>1. CASE CopyWrites(d, j)
    <3>1. j + 1 \in Pipes /\ j + 1 # 1 /\ Write(d, j + 1)
      BY <2>1 DEF CopyWrites, Copiers, Pipes
    <3>2. QED
      BY <1>1, <3>1, WriteEffect
  <2>2. CASE CopyReads(d, j) \/ CopyEnds(d, j)
    BY <1>1, <2>2 DEF CopyReads, CopyEnds
  <2>3. QED
    BY <1>7, <2>1, <2>2 DEF CopyStep
<1>8. ASSUME NEW l \in Links, LinkBreaks(l) PROVE Limited'
  BY <1>1, <1>8 DEF LinkBreaks, pipeVars
<1>9. ASSUME NEW l \in {1, 2}, StreamTimesOut(l) PROVE Limited'
  BY <1>8, <1>9, StreamTimesOutBreaks
<1>10. CASE UNCHANGED vars
  BY <1>1, <1>10 DEF vars, pipeVars
<1>11. QED
  BY <1>2, <1>4, <1>5, <1>6, <1>7, <1>8, <1>9, <1>10 DEF Next

\* Two bridges and their programs keep what is said above, whatever fails.
THEOREM BridgeInvariant == Spec => []BridgeInv
<1>1. Init => BridgeInv
  <2>1. Init => Limited
    BY WholeStarts DEF Init, Limited, Dirs, Pipes
  <2>2. QED
    BY <2>1, InitInv DEF BridgeInv
<1>2. BridgeInv /\ [Next]_vars => BridgeInv'
  BY StepHops, StepLimited DEF BridgeInv
<1>3. QED
  BY <1>1, <1>2, PTL DEF Spec

\* Types, windows and buffers: no pipe holds more than its window, no copier
\* more than the chunk in its buffer but for a head that has become whole.
THEOREM BridgeType == Spec => []TypeOK
<1>1. BridgeInv => TypeOK
  <2> SUFFICES ASSUME BridgeInv PROVE TypeOK
    OBVIOUS
  <2>1. ASSUME NEW d \in Dirs, NEW j \in Copiers, copier[d][j] = "copying"
        PROVE  Held(d, j) \in IF d = "up" /\ j = 2 THEN Nat ELSE {0, 1}
    BY <2>1 DEF BridgeInv, Hops, Holds, Carries
  <2>2. QED
    BY <2>1 DEF BridgeInv, Hops, Types, Bounded, TypeOK, BrokerState, ProviderState
<1>2. QED
  BY <1>1, BridgeInvariant, PTL

-----------------------------------------------------------------------------
(* The refinement. *)

\* What has been sent, per direction, is within Whole's reach.
LEMMA SentIs ==
    ASSUME BridgeInv, NEW d \in Dirs
    PROVE  /\ Sent[d] = IF wrote[d][1] = 0 THEN 0 ELSE wrote[d][1] - (IF d = "up" THEN 1 ELSE 0)
           /\ Sent[d] \in Nat /\ Due[d] \in Nat
           /\ d = "up" => Sent[d] \in 0..MaxData["up"] /\ Due[d] = Whole[Sent[d]]
           /\ d = "down" => Due[d] = Sent[d]
<1>1. Sent[d] = IF wrote[d][1] = 0 THEN 0 ELSE wrote[d][1] - (IF d = "up" THEN 1 ELSE 0)
  BY DEF Sent, Header
<1>2. wrote[d][1] \in Nat
  BY DEF BridgeInv, Hops, Types, Pipes
<1>3. CASE d = "up"
  <2>1. Sent[d] \in 0..MaxData["up"]
    BY <1>1, <1>2, <1>3, Upstream
  <2>2. Due[d] = Whole[Sent[d]]
    BY <1>3 DEF Due, Forwards
  <2>3. QED
    BY <1>1, <1>3, <2>1, <2>2, WholeIs
<1>4. CASE d = "down"
  BY <1>1, <1>2, <1>4 DEF Due, Forwards
<1>5. QED
  BY <1>3, <1>4 DEF Dirs

\* What the last copier of a direction has to write is due.
LEMMA TakenIsDue ==
    ASSUME BridgeInv, NEW d \in Dirs, copier[d][2] # "idle"
    PROVE  /\ Taken(d, 2) \in Nat /\ Taken(d, 2) <= Due[d]
           /\ read[d][2] = wrote[d][2] /\ wrote[d][2] = read[d][1] /\ read[d][1] = wrote[d][1]
                 => Taken(d, 2) = Due[d]
<1>1. CASE d = "up"
  <2>1. read[d][2] - 1 \in 0..MaxData["up"] /\ Taken(d, 2) = Whole[read[d][2] - 1]
    BY <1>1, InReach
  <2>2. Sent[d] = wrote[d][1] - 1
    BY <1>1, <2>1, SentIs, Upstream
  <2>3. read[d][2] - 1 \in 0..Sent[d]
    BY <1>1, <2>1, <2>2, SentIs, Upstream
  <2>4. Whole[read[d][2] - 1] <= Whole[Sent[d]] /\ Whole[read[d][2] - 1] \in Nat
    BY <1>1, <2>1, <2>3, SentIs, WholeIs
  <2>5. QED
    BY <1>1, <2>1, <2>2, <2>4, SentIs
<1>2. CASE d = "down"
  <2>1. Taken(d, 2) = read[d][2] /\ Due[d] = wrote[d][1]
    <3>1. wrote[d][1] \in Nat
      BY DEF BridgeInv, Hops, Types, Pipes
    <3>2. QED
      BY <1>2, <3>1, SentIs DEF Taken
  <2>2. /\ read[d][1] \in Nat /\ wrote[d][1] \in Nat /\ read[d][2] \in Nat /\ wrote[d][2] \in Nat
        /\ read[d][1] <= wrote[d][1] /\ read[d][2] <= wrote[d][2]
    BY DEF BridgeInv, Hops, Types, Bounded, Pipes
  <2>3. 1 \in Copiers /\ Carries(d, 1) /\ Types
    BY DEF BridgeInv, Hops, Holds, Copiers
  <2>4. Held(d, 1) = read[d][1] - wrote[d][2]
    BY <1>2, <2>3, HeldIs DEF Taken
  <2>5. wrote[d][2] <= read[d][1]
    BY <2>2, <2>3, <2>4 DEF Carries
  <2>6. QED
    BY <2>1, <2>2, <2>5
<1>3. QED
  BY <1>1, <1>2 DEF Dirs

\* Nothing is received that was not sent ...
LEMMA NothingAdded ==
    ASSUME BridgeInv, NEW d \in Dirs
    PROVE  wrote[d][3] <= Due[d] /\ Due[d] \in Nat /\ read[d][3] \in Nat
<1>1. read[d][3] \in Nat /\ wrote[d][3] \in Nat /\ Due[d] \in Nat
  BY SentIs DEF BridgeInv, Hops, Types, Pipes
<1>2. 2 \in Copiers /\ Carries(d, 2) /\ Types
  BY DEF BridgeInv, Hops, Holds, Copiers
<1>3. CASE copier[d][2] = "idle"
  BY <1>1, <1>2, <1>3 DEF Carries
<1>4. CASE copier[d][2] # "idle"
  <2>1. Held(d, 2) = Taken(d, 2) - wrote[d][3] /\ Held(d, 2) \in Nat
    BY <1>2, <1>4, HeldIs DEF Carries
  <2>2. QED
    BY <1>1, <1>4, <2>1, TakenIsDue
<1>5. QED
  BY <1>3, <1>4

\* ... and the end, unless something has failed, only after everything.
LEMMA NothingMissing ==
    ASSUME BridgeInv, NEW d \in Dirs, ~ fault, AtEnd(d, 3)
    PROVE  fin[d][1] /\ read[d][3] = Due[d]
<1>1. 1 \in Copiers /\ 2 \in Copiers /\ Types /\ broken = {} /\ Settled(d, 1) /\ Settled(d, 2)
  BY DEF BridgeInv, Hops, Orderly, Copiers
<1>2. fin[d][3] /\ ~ Readable(d, 3)
  BY <1>1 DEF AtEnd
<1>3. /\ copier[d][2] = "done"
      /\ fin[d][2] /\ read[d][2] = wrote[d][2] /\ Held(d, 2) = 0
      /\ fin[d][1] /\ read[d][1] = wrote[d][1] /\ Held(d, 1) = 0
  BY <1>1, <1>2 DEF Settled
<1>4. /\ wrote[d][1] \in Nat /\ wrote[d][2] \in Nat /\ wrote[d][3] \in Nat
      /\ read[d][3] \in Nat /\ read[d][3] <= wrote[d][3]
  BY DEF BridgeInv, Hops, Types, Bounded, Pipes
<1>5. /\ Held(d, 1) = read[d][1] - wrote[d][2]
      /\ Held(d, 2) = Taken(d, 2) - wrote[d][3]
  BY <1>1, HeldIs DEF Taken
<1>6. read[d][3] = wrote[d][3]
  BY <1>2, <1>4 DEF Readable
<1>7. Taken(d, 2) = Due[d] /\ Taken(d, 2) \in Nat
  BY <1>3, <1>4, <1>5, TakenIsDue
<1>8. QED
  BY <1>3, <1>4, <1>5, <1>6, <1>7

Closed == [d \in Dirs |-> fin[d][1]]
Got == [d \in Dirs |-> read[d][3]]

\* What is due depends on what has been sent alone.
LEMMA DueFollows == ASSUME UNCHANGED Sent PROVE UNCHANGED Due
BY DEF Due, Forwards

\* What happens between the two ends is not seen there.
LEMMA Unseen ==
    ASSUME UNCHANGED ended,
           \A d \in Dirs : /\ wrote'[d][1] = wrote[d][1] /\ fin'[d][1] = fin[d][1]
                           /\ read'[d][3] = read[d][3]
    PROVE  UNCHANGED <<Sent, Closed, Got, ended>>
BY DEF Sent, Closed, Got, Header

\* Whoever reads a pipe but the last delivers nothing.
LEMMA ReadUnseen ==
    ASSUME Types, NEW d \in Dirs, NEW i \in Pipes, i # 3, Read(d, i)
    PROVE  \A e \in Dirs : read'[e][3] = read[e][3]
BY ReadEffect DEF Pipes

\* Whoever writes to a pipe but the first sends nothing.
LEMMA WriteUnseen ==
    ASSUME Types, NEW d \in Dirs, NEW i \in Pipes, i # 1, Write(d, i)
    PROVE  \A e \in Dirs : wrote'[e][1] = wrote[e][1]
BY WriteEffect DEF Pipes

\* Whoever closes a pipe but the first closes no end.
LEMMA CloseUnseen ==
    ASSUME Types, NEW d \in Dirs, NEW i \in Pipes, i # 1, Close(d, i)
    PROVE  \A e \in Dirs : fin'[e][1] = fin[e][1]
BY CloseEffect DEF Pipes

\* Nor does closing one pipe in each direction, neither the first.
LEMMA CloseBothUnseen ==
    ASSUME Types, NEW i \in Pipes, NEW k \in Pipes, i # 1, k # 1,
           fin' = [fin EXCEPT !["up"][i] = TRUE, !["down"][k] = TRUE]
    PROVE  \A e \in Dirs : fin'[e][1] = fin[e][1]
<1>1. \A e \in Dirs, j \in Pipes :
          fin'[e][j] = \/ fin[e][j]
                       \/ e = "up" /\ j = i
                       \/ e = "down" /\ j = k
  BY CloseBothEffect, Zenon
<1>2. 1 \in Pipes /\ \A e \in Dirs : fin[e][1] \in BOOLEAN
  BY DEF Types, Pipes
<1>3. ASSUME NEW e \in Dirs PROVE fin'[e][1] = fin[e][1]
  <2>1. fin'[e][1] = \/ fin[e][1]
                     \/ e = "up" /\ 1 = i
                     \/ e = "down" /\ 1 = k
    BY <1>1, <1>2, Zenon
  <2>2. QED
    BY <1>2, <2>1, Zenon
<1>4. QED
  BY <1>3

\* The header is no data: writing it sends nothing.
LEMMA DialUnseen == ASSUME BridgeInv, Dial PROVE UNCHANGED <<Sent, Closed, Got, ended, fault>>
<1>1. Types /\ "up" \in Dirs /\ 1 \in Pipes /\ wrote["up"][1] = 0 /\ Write("up", 1)
  BY DEF BridgeInv, Hops, Dial, Dirs, Pipes
<1>2. wrote'["up"][1] = 1 /\ \A d \in Dirs : d # "up" => wrote'[d][1] = wrote[d][1]
  BY <1>1, WriteEffect
<1>3. Sent' = Sent
  BY <1>1, <1>2 DEF Sent, Header
<1>4. QED
  BY <1>3 DEF Closed, Got, Dial

\* The two functions' own steps, but for the ones that record a fault.
LEMMA BrokerUnseen ==
    ASSUME BridgeInv, OpenStream \/ BrokerStep, ~ ReadHeaderFails
    PROVE  UNCHANGED <<Sent, Closed, Got, ended, fault>>
<1> Types /\ "up" \in Dirs /\ 1 \in Pipes /\ 2 \in Pipes /\ 3 \in Pipes
  BY DEF BridgeInv, Hops, Dirs, Pipes
<1>1. CASE OpenStream
  BY <1>1, Unseen DEF OpenStream, pipeVars
<1>2. CASE ReadHeader
  BY <1>2, ReadUnseen, Unseen DEF ReadHeader
<1>3. CASE WriteHeader
  BY <1>3, WriteUnseen, Unseen DEF WriteHeader
<1>4. CASE WriteHeaderFails \/ BridgeReturns
  <2>1. fin' = [fin EXCEPT !["up"][2] = TRUE, !["down"][3] = TRUE]
    BY <1>4 DEF WriteHeaderFails, BridgeReturns
  <2>2. \A e \in Dirs : fin'[e][1] = fin[e][1]
    <3>1. 2 # 1 /\ 3 # 1
      OBVIOUS
    <3>2. QED
      BY <2>1, <3>1, CloseBothUnseen, Zenon
  <2>3. UNCHANGED <<wrote, read, fault, ended>>
    BY <1>4 DEF WriteHeaderFails, BridgeReturns
  <2>4. QED
    BY <2>2, <2>3, Unseen
<1>5. QED
  BY <1>1, <1>2, <1>3, <1>4 DEF BrokerStep

\* What Handle does is not seen, except that it cannot reach the target.
LEMMA ProviderUnseen ==
    ASSUME BridgeInv, ProviderStep, ~ DialTargetFails
    PROVE  UNCHANGED <<Sent, Closed, Got, ended, fault>>
<1> Types /\ "up" \in Dirs /\ "down" \in Dirs /\ 1 \in Pipes /\ 2 \in Pipes /\ 3 \in Pipes
  BY DEF BridgeInv, Hops, Dirs, Pipes
<1>1. CASE ReadAddress
  BY <1>1, ReadUnseen, Unseen DEF ReadAddress
<1>2. CASE ReadAddressFails
  BY <1>2, CloseUnseen, Unseen DEF ReadAddressFails
<1>3. CASE DialTarget
  BY <1>3, Unseen DEF DialTarget, pipeVars
<1>4. CASE HandleReturns
  <2>1. fin' = [fin EXCEPT !["up"][3] = TRUE, !["down"][2] = TRUE]
    BY <1>4 DEF HandleReturns
  <2>2. \A e \in Dirs : fin'[e][1] = fin[e][1]
    <3>1. 2 # 1 /\ 3 # 1
      OBVIOUS
    <3>2. QED
      BY <2>1, <3>1, CloseBothUnseen, Zenon
  <2>3. UNCHANGED <<wrote, read, fault, ended>>
    BY <1>4 DEF HandleReturns
  <2>4. QED
    BY <2>2, <2>3, Unseen
<1>5. QED
  BY <1>1, <1>2, <1>3, <1>4 DEF ProviderStep

\* What a copier does is not seen.
LEMMA CopyUnseen ==
    ASSUME BridgeInv, NEW d \in Dirs, NEW j \in Copiers, CopyStep(d, j)
    PROVE  UNCHANGED <<Sent, Closed, Got, ended, fault>>
<1>1. Types /\ j \in Pipes /\ j + 1 \in Pipes /\ j # 3 /\ j + 1 # 1
  BY DEF BridgeInv, Hops, Copiers, Pipes
<1>2. CASE CopyReads(d, j)
  BY <1>1, <1>2, ReadUnseen, Unseen DEF CopyReads
<1>3. CASE CopyWrites(d, j)
  BY <1>1, <1>3, WriteUnseen, Unseen DEF CopyWrites
<1>4. CASE CopyEnds(d, j)
  <2>1. Close(d, j + 1) /\ UNCHANGED <<wrote, read, ended, fault>>
    BY <1>4 DEF CopyEnds, Close
  <2>2. QED
    BY <1>1, <2>1, CloseUnseen, Unseen
<1>5. QED
  BY <1>2, <1>3, <1>4 DEF CopyStep

\* The tunnel's Fail, if nothing has failed yet.
LEMMA FaultSeen ==
    ASSUME BridgeInv,
           \/ OpenStreamFails \/ ReadHeaderFails \/ DialTargetFails
           \/ \E l \in Links : LinkBreaks(l)
    PROVE  UNCHANGED <<Sent, Closed, Got, ended>> /\ fault'
<1>1. Types /\ "down" \in Dirs /\ 2 \in Pipes /\ 3 \in Pipes
  BY DEF BridgeInv, Hops, Dirs, Pipes
<1>2. CASE OpenStreamFails
  BY <1>1, <1>2, CloseUnseen, Unseen DEF OpenStreamFails
<1>3. CASE ReadHeaderFails
  BY <1>1, <1>3, CloseUnseen, Unseen DEF ReadHeaderFails
<1>4. CASE DialTargetFails
  BY <1>1, <1>4, CloseUnseen, Unseen DEF DialTargetFails
<1>5. ASSUME NEW l \in Links, LinkBreaks(l)
      PROVE  UNCHANGED <<Sent, Closed, Got, ended>> /\ fault'
  BY <1>5, Unseen DEF LinkBreaks, pipeVars
<1>6. QED
  BY <1>2, <1>3, <1>4, <1>5

\* A program that writes sends, unless the chunk is of an unfinished head.
LEMMA EndWritesSends ==
    ASSUME BridgeInv, NEW d \in Dirs, EndWrites(d)
    PROVE  T!Send(d) \/ UNCHANGED <<Due, Closed, Got, ended, fault>>
<1>1. Types /\ 1 \in Pipes /\ wrote[d][1] \in Nat /\ Write(d, 1)
  BY DEF BridgeInv, Hops, Types, EndWrites, Pipes
<1>2. /\ ~ fin[d][1]
      /\ \A e \in Dirs : wrote'[e][1] = IF e = d THEN wrote[e][1] + 1 ELSE wrote[e][1]
  BY <1>1, WriteEffect
<1>3. d = "up" => wrote[d][1] > 0
  BY DEF EndWrites, MayWrite
<1>4. Sent'[d] = Sent[d] + 1
  BY <1>1, <1>2, <1>3, SMTT(20) DEF Sent, Header
<1>5. Due[d] \in Nat /\ Due'[d] \in Nat /\ Due'[d] >= Due[d]
  <2>1. CASE d = "down"
    <3>1. Due[d] = Sent[d] /\ Sent[d] \in Nat
      BY <2>1, SentIs
    <3>2. Due'[d] = Sent'[d]
      BY <2>1 DEF Due, Forwards
    <3>3. QED
      BY <1>4, <3>1, <3>2
  <2>2. CASE d = "up"
    <3>1. Due[d] = Whole[Sent[d]] /\ Sent[d] \in Nat
      BY <2>2, SentIs
    <3>2. Due'[d] = Whole[Sent'[d]]
      BY <2>2 DEF Due, Forwards
    <3>3. Sent'[d] \in 0..MaxData["up"]
      <4>1. wrote[d][1] - 1 < MaxData["up"]
        BY <2>2 DEF EndWrites, Header
      <4>2. Sent[d] = wrote[d][1] - 1
        BY <1>1, <1>3, <2>2, SentIs
      <4>3. QED
        BY <1>1, <1>4, <3>1, <4>1, <4>2, WholeStarts
    <3>4. Sent[d] \in 0..Sent'[d] /\ Sent[d] \in 0..MaxData["up"]
      BY <1>4, <3>1, <3>3, WholeStarts
    <3>5. Whole[Sent[d]] \in Nat /\ Whole[Sent'[d]] \in Nat /\ Whole[Sent[d]] <= Whole[Sent'[d]]
      BY <3>3, <3>4, WholeIs
    <3>6. QED
      BY <3>1, <3>2, <3>5
  <2>3. QED
    BY <2>1, <2>2 DEF Dirs
<1>6. UNCHANGED <<fin, read, ended, fault>>
  BY DEF EndWrites
<1>7. \A e \in Dirs : e # d => Due'[e] = Due[e]
  BY <1>2 DEF Due, Forwards, Sent, Header
<1>8. Due = [e \in Dirs |-> Due[e]] /\ Due' = [e \in Dirs |-> Due'[e]]
  BY DEF Due
<1>9. CASE Due'[d] = Due[d]
  <2>1. Due' = Due
    BY <1>7, <1>8, <1>9
  <2>2. QED
    BY <1>6, <2>1 DEF Closed, Got
<1>10. CASE Due'[d] > Due[d]
  <2>1. Due' = [Due EXCEPT ![d] = Due'[d]]
    BY <1>7, <1>8
  <2>2. QED
    BY <1>2, <1>5, <1>6, <1>10, <2>1 DEF T!Send
<1>11. QED
  BY <1>5, <1>9, <1>10

\* A program that closes closes.
LEMMA EndClosesCloses ==
    ASSUME BridgeInv, NEW d \in Dirs, EndCloses(d)
    PROVE  T!Close(d)
<1>1. Types /\ 1 \in Pipes /\ Close(d, 1)
  BY DEF BridgeInv, Hops, EndCloses, Close, Pipes
<1>2. fin'[d][1] = TRUE /\ \A e \in Dirs : e # d => fin'[e][1] = fin[e][1]
  BY <1>1, CloseEffect DEF Types
<1>3. [e \in Dirs |-> fin'[e][1]] = [[e \in Dirs |-> fin[e][1]] EXCEPT ![d] = TRUE]
  BY <1>2
<1>4. Due' = Due /\ UNCHANGED <<wrote, read, ended, fault>> /\ ~ fin[d][1]
  BY DueFollows DEF EndCloses, Sent
<1>5. QED
  BY <1>3, <1>4 DEF T!Close

\* A program that reads has a chunk delivered, which was sent.
LEMMA EndReadsDelivers ==
    ASSUME BridgeInv, NEW d \in Dirs, EndReads(d)
    PROVE  T!Deliver(d)
<1>1. Types /\ 3 \in Pipes /\ Read(d, 3) /\ ~ ended[d]
  BY DEF BridgeInv, Hops, EndReads, Pipes
<1>2. /\ read[d][3] < wrote[d][3]
      /\ \A e \in Dirs : read'[e][3] = IF e = d THEN read[e][3] + 1 ELSE read[e][3]
  BY <1>1, ReadEffect
<1>3. wrote[d][3] \in Nat
  BY <1>1 DEF Types
<1>4. read[d][3] < Due[d]
  BY <1>2, <1>3, NothingAdded
<1>5. [e \in Dirs |-> read'[e][3]] = [[e \in Dirs |-> read[e][3]] EXCEPT ![d] = @ + 1]
  BY <1>2
<1>6. Due' = Due /\ UNCHANGED <<fin, ended, fault>>
  BY DueFollows DEF EndReads, Sent
<1>7. QED
  BY <1>1, <1>4, <1>5, <1>6 DEF T!Deliver

\* A program sees the end only after everything, unless something has failed.
LEMMA EndSeesEndEnds ==
    ASSUME BridgeInv, NEW d \in Dirs, EndSeesEnd(d)
    PROVE  T!End(d)
<1>1. ~ fault => fin[d][1] /\ read[d][3] = Due[d]
  BY NothingMissing DEF EndSeesEnd
<1>2. /\ ~ ended[d] /\ ended' = [ended EXCEPT ![d] = TRUE]
      /\ Due' = Due /\ UNCHANGED <<fin, read, fault>>
  BY DueFollows DEF EndSeesEnd, Sent, pipeVars
<1>3. QED
  BY <1>1, <1>2 DEF T!End

\* Every step of the two bridges is a step of the tunnel or none.
LEMMA StepIsTunnelled == ASSUME BridgeInv, [Next]_vars PROVE [T!Next]_(T!vars)
<1>1. ASSUME UNCHANGED <<Sent, Closed, Got, ended, fault>> PROVE UNCHANGED T!vars
  BY <1>1, DueFollows DEF T!vars, Closed, Got
<1>2. ASSUME UNCHANGED <<Sent, Closed, Got, ended>>, fault' PROVE T!Fail \/ UNCHANGED T!vars
  <2>1. CASE fault
    BY <1>2, <2>1, DueFollows DEF T!vars, Closed, Got, BridgeInv, Hops, Types
  <2>2. CASE ~ fault
    BY <1>2, <2>2, DueFollows DEF T!Fail, Closed, Got
  <2>3. QED
    BY <2>1, <2>2
<1>3. CASE Dial \/ OpenStep \/ BrokerStep \/ ProviderStep
  <2>1. \/ OpenStreamFails \/ ReadHeaderFails \/ DialTargetFails
        \/ UNCHANGED <<Sent, Closed, Got, ended, fault>>
    BY <1>3, DialUnseen, BrokerUnseen, ProviderUnseen DEF OpenStep
  <2>2. QED
    BY <1>1, <1>2, <2>1, FaultSeen DEF T!Next
<1>4. ASSUME NEW d \in Dirs, EndWrites(d) \/ EndCloses(d) \/ EndReceives(d)
      PROVE  T!Next \/ UNCHANGED T!vars
  <2>1. CASE UNCHANGED <<Due, Closed, Got, ended, fault>>
    BY <2>1 DEF T!vars, Closed, Got
  <2>2. CASE T!Send(d) \/ T!Close(d) \/ T!Deliver(d) \/ T!End(d)
    BY <2>2 DEF T!Next, T!Dirs, Dirs
  <2>3. QED
    BY <1>4, <2>1, <2>2, EndWritesSends, EndClosesCloses, EndReadsDelivers,
       EndSeesEndEnds DEF EndReceives
<1>5. ASSUME NEW d \in Dirs, NEW j \in Copiers, CopyStep(d, j)
      PROVE  UNCHANGED T!vars
  BY <1>1, <1>5, CopyUnseen
<1>6. ASSUME NEW l \in Links, LinkBreaks(l) PROVE T!Next \/ UNCHANGED T!vars
  BY <1>2, <1>6, FaultSeen DEF T!Next
<1>7. ASSUME NEW l \in {1, 2}, StreamTimesOut(l) PROVE T!Next \/ UNCHANGED T!vars
  BY <1>6, <1>7, StreamTimesOutBreaks
<1>8. CASE UNCHANGED vars
  BY <1>1, <1>8 DEF vars, pipeVars, Sent, Closed, Got
<1>9. QED
  BY <1>3, <1>4, <1>5, <1>6, <1>7, <1>8 DEF Next

\* Whatever the window and the amounts of data, the two bridges are one
\* tunnel, however the client's data falls into request heads: each direction
\* delivers what is due and nothing else, and ends only after all of it unless
\* something outside the two functions has failed.
THEOREM BridgeIsTunnel == Spec => TunnelSpec
<1>1. Init => T!Init
  <2> SUFFICES ASSUME Init PROVE T!Init
    OBVIOUS
  <2>1. \A d \in Dirs : Sent[d] = 0
    BY DEF Init, Sent, Pipes
  <2>2. Due = [d \in Dirs |-> 0]
    BY <2>1, WholeStarts DEF Due, Forwards
  <2>3. QED
    BY <2>2 DEF Init, T!Init, Dirs, T!Dirs, Pipes
<1>2. BridgeInv /\ [Next]_vars => [T!Next]_(T!vars)
  BY StepIsTunnelled
<1>3. QED
  BY <1>1, <1>2, BridgeInvariant, PTL DEF Spec, TunnelSpec, T!Spec

====
