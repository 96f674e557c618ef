--------------------------- MODULE Scrubber_proofs ---------------------------
(***************************************************************************)
(* ScrubConn removes the proxy headers of every request and touches        *)
(* nothing else, for every well-formed connection, every way of cutting it *)
(* into writes, every limit of the buffer and every failure of the target. *)
(***************************************************************************)
EXTENDS Scrubber, SequenceTheorems, WellFoundedInduction, TLAPS

(***************************************************************************)
(* FlattenSeq is a recursive function.                                     *)
(***************************************************************************)

\* Induction over the naturals, for a set.
LEMMA Induction ==
    ASSUME NEW T, 0 \in T, \A n \in Nat : n \in T => n + 1 \in T
    PROVE  \A n \in Nat : n \in T
<1> DEFINE Rest == Nat \ T
           R == OpToRel(<, Nat)
<1>1. SUFFICES ASSUME Rest # {} PROVE FALSE
  OBVIOUS
<1>2. IsWellFoundedOn(R, Nat)
  BY NatLessThanWellFounded
<1>3. \A x, y \in Nat : x < y => <<x, y>> \in R
  BY DEF OpToRel
<1> HIDE DEF R
<1>4. PICK x \in Rest : \A y \in Rest : ~ (<<y, x>> \in R)
  BY <1>1, <1>2, WFMin
<1>5. x - 1 \in Nat /\ x - 1 < x
  BY <1>4
<1>6. x - 1 \in T
  BY <1>3, <1>4, <1>5
<1>7. (x - 1) + 1 \in T
  BY <1>5, <1>6
<1> QED
  BY <1>4, <1>5, <1>7


\* f[i] is the first i sequences of ss in a row.
Accumulates(f, ss, n) ==
    \A i \in 1..n : f[i] = IF i = 1 THEN ss[i] ELSE f[i - 1] \o ss[i]

\* There is such a function ...
LEMMA AccumulatorExists ==
    ASSUME NEW S, NEW ss \in Seq(Seq(S))
    PROVE  \A n \in 1..Len(ss) : \E f \in [1..n -> Seq(S)] : Accumulates(f, ss, n)
<1> DEFINE P(n) == n \in 1..Len(ss) => \E f \in [1..n -> Seq(S)] : Accumulates(f, ss, n)
           T == {n \in Nat : P(n)}
<1>0. Len(ss) \in Nat /\ \A i \in 1..Len(ss) : ss[i] \in Seq(S)
  BY LenProperties, ElementOfSeq
<1>1. P(0)
  BY <1>0
<1>2. ASSUME NEW n \in Nat, P(n) PROVE P(n + 1)
  <2> SUFFICES ASSUME n + 1 \in 1..Len(ss) 
               PROVE  \E g \in [1..n+1 -> Seq(S)] : Accumulates(g, ss, n + 1)
    OBVIOUS
  <2>0. ss[n + 1] \in Seq(S)
    BY <1>0
  <2>1. CASE n = 0
    <3> DEFINE g == [i \in 1..n+1 |-> ss[n + 1]]
    <3>1. g \in [1..n+1 -> Seq(S)] /\ Accumulates(g, ss, n + 1)
      BY <2>0, <2>1 DEF Accumulates
    <3> QED BY <3>1
  <2>2. CASE n # 0
    <3>1. n \in 1..Len(ss)
      BY <1>0, <2>2
    <3>2. PICK f \in [1..n -> Seq(S)] : Accumulates(f, ss, n)
      BY <1>2, <3>1
    <3>3. f[n] \o ss[n + 1] \in Seq(S)
      <4>1. f[n] \in Seq(S)
        BY <3>1
      <4> QED BY <2>0, <4>1, ConcatProperties
    <3> DEFINE g == [i \in 1..n+1 |-> IF i = n + 1 THEN f[n] \o ss[n + 1] ELSE f[i]]
    <3>4. g \in [1..n+1 -> Seq(S)]
      BY <3>3, <2>0
    <3>5. ASSUME NEW i \in 1..n+1 PROVE g[i] = IF i = 1 THEN ss[i] ELSE g[i - 1] \o ss[i]
      <4>1. CASE i = n + 1
        <5>1. i # 1 /\ i - 1 = n /\ n \in 1..n+1 /\ n # n + 1
          BY <4>1, <2>2
        <5> QED  BY <4>1, <5>1
      <4>2. CASE i # n + 1
        <5>1. i \in 1..n /\ (i # 1 => i - 1 \in 1..n+1 /\ i - 1 # n + 1)
          BY <4>2
        <5> QED  BY <3>2, <4>2, <5>1 DEF Accumulates
      <4> QED BY <4>1, <4>2
    <3>6. Accumulates(g, ss, n + 1)
      <4> HIDE DEF g
      <4> QED BY <3>5 DEF Accumulates
    <3> HIDE DEF g
    <3> QED BY <3>4, <3>6
  <2> QED BY <2>1, <2>2
<1> HIDE DEF P
<1>3. \A n \in Nat : n \in T => n + 1 \in T
  BY <1>2
<1>4. \A n \in Nat : n \in T
  <2>1. 0 \in T
    BY <1>1
  <2> HIDE DEF T
  <2> QED BY <1>3, <2>1, Induction
<1> QED BY <1>4, <1>0 DEF P

\* ... and only one ...
LEMMA AccumulatorUnique ==
    ASSUME NEW ss, NEW n \in Nat, NEW f, NEW g, Accumulates(f, ss, n), Accumulates(g, ss, n)
    PROVE  \A i \in 1..n : f[i] = g[i]
<1> DEFINE P(i) == i \in 1..n => f[i] = g[i]
           T == {i \in Nat : P(i)}
<1>2. ASSUME NEW i \in Nat, P(i) PROVE P(i + 1)
  <2>1. i + 1 # 1 => i \in 1..n \/ i + 1 \notin 1..n
    OBVIOUS
  <2>2. (i + 1) - 1 = i
    OBVIOUS
  <2> QED BY <1>2, <2>1, <2>2 DEF Accumulates
<1> HIDE DEF P
<1>3. P(0)
  BY DEF P
<1>4. 0 \in T /\ \A i \in Nat : i \in T => i + 1 \in T
  BY <1>2, <1>3
<1>5. \A i \in Nat : i \in T
  <2> HIDE DEF T
  <2> QED  BY <1>4, Induction
<1> QED BY <1>5 DEF P

\* ... and it is what FlattenSeq is defined by.
LEMMA FlattenIsLast ==
    ASSUME NEW S, NEW ss \in Seq(Seq(S)), ss # <<>>
    PROVE  \E f \in [1..Len(ss) -> Seq(S)] :
               Accumulates(f, ss, Len(ss)) /\ FlattenSeq(ss) = f[Len(ss)]
<1> DEFINE n == Len(ss)
           Is(f) == f = [i \in 1..n |-> IF i = 1 THEN ss[i] ELSE f[i - 1] \o ss[i]]
           flatten == CHOOSE f : Is(f)
<1>1. n \in Nat /\ n # 0
  BY EmptySeq
<1>2. PICK f \in [1..n -> Seq(S)] : Accumulates(f, ss, n)
  BY <1>1, AccumulatorExists
<1>3. Is(f)
  BY <1>2 DEF Accumulates
<1>4. Is(flatten)
  <2> HIDE DEF Is
  <2> QED BY <1>3
<1>5. Accumulates(flatten, ss, n)
  <2> HIDE DEF flatten
  <2> QED BY <1>4 DEF Accumulates
<1>6. FlattenSeq(ss) = flatten[n]
  BY <1>1 DEF FlattenSeq
<1>7. flatten[n] = f[n]
  <2> HIDE DEF flatten
  <2> QED BY <1>1, <1>2, <1>5, AccumulatorUnique
<1> QED BY <1>2, <1>6, <1>7

\* Bytes joined in either order.
LEMMA Associative ==
    ASSUME NEW s \in Seq(Symbols), NEW t \in Seq(Symbols), NEW u \in Seq(Symbols)
    PROVE  (s \o t) \o u = s \o (t \o u)
BY ConcatAssociative

\* The concatenation of nothing is nothing.
LEMMA FlattenEmpty == FlattenSeq(<<>>) = <<>>
BY DEF FlattenSeq

\* The concatenation of sequences over S is a sequence over S.
LEMMA FlattenType ==
    ASSUME NEW S, NEW ss \in Seq(Seq(S))
    PROVE  FlattenSeq(ss) \in Seq(S)
<1>1. CASE ss = <<>>
  BY <1>1, FlattenEmpty, EmptySeq
<1>2. CASE ss # <<>>
  <2>1. Len(ss) \in Nat \ {0}
    BY <1>2, EmptySeq
  <2>2. PICK f \in [1..Len(ss) -> Seq(S)] : FlattenSeq(ss) = f[Len(ss)]
    BY <1>2, FlattenIsLast
  <2>3. Len(ss) \in 1..Len(ss)
    BY <2>1
  <2>4. f[Len(ss)] \in Seq(S)
    BY <2>3
  <2> QED BY <2>2, <2>4
<1> QED BY <1>1, <1>2

\* One sequence more is concatenated last (what keeping one symbol more does).
LEMMA FlattenAppend ==
    ASSUME NEW S, NEW ss \in Seq(Seq(S)), NEW x \in Seq(S)
    PROVE  FlattenSeq(Append(ss, x)) = FlattenSeq(ss) \o x
<1> DEFINE n == Len(ss)
           tt == Append(ss, x)
<1>1. /\ tt \in Seq(Seq(S)) /\ tt # <<>> /\ Len(tt) = n + 1 /\ n \in Nat
      /\ \A i \in 1..n : tt[i] = ss[i]
      /\ tt[n + 1] = x
  BY AppendProperties, LenProperties
<1> HIDE DEF tt
<1>2. PICK g \in [1..(n + 1) -> Seq(S)] :
          Accumulates(g, tt, n + 1) /\ FlattenSeq(tt) = g[n + 1]
  BY <1>1, FlattenIsLast
<1>3. CASE ss = <<>>
  <2>1. n = 0
    BY <1>3
  <2>2. g[1] = x
    BY <1>1, <1>2, <2>1 DEF Accumulates
  <2> QED BY <1>2, <1>3, <2>1, <2>2, FlattenEmpty, ConcatEmptySeq DEF tt
<1>4. CASE ss # <<>>
  <2>1. n # 0
    BY <1>4, EmptySeq
  <2>2. PICK f \in [1..n -> Seq(S)] :
            Accumulates(f, ss, n) /\ FlattenSeq(ss) = f[n]
    BY <1>4, FlattenIsLast
  <2>3. Accumulates(g, ss, n)
    <3>1. \A i \in 1..n : i \in 1..(n + 1) /\ tt[i] = ss[i]
      BY <1>1
    <3> QED BY <1>2, <3>1 DEF Accumulates
  <2>4. g[n] = f[n]
    BY <1>1, <2>1, <2>2, <2>3, AccumulatorUnique
  <2>5. g[n + 1] = g[n] \o x
    <3>1. n + 1 # 1 /\ (n + 1) - 1 = n /\ n + 1 \in 1..n+1
      BY <1>1, <2>1
    <3> QED BY <1>1, <1>2, <3>1 DEF Accumulates
  <2> QED BY <1>2, <2>2, <2>4, <2>5 DEF tt
<1> QED BY <1>3, <1>4

(***************************************************************************)
(* Prefixes.                                                               *)
(***************************************************************************)

\* Prefixes, by index.
LEMMA PrefixIndex ==
    ASSUME NEW S, NEW s \in Seq(S), NEW t \in Seq(S)
    PROVE  IsPrefix(s, t) <=> Len(s) <= Len(t) /\ \A i \in 1..Len(s) : s[i] = t[i]
<1> DEFINE a == SubSeq(s, 1, Len(s))
           b == SubSeq(t, 1, Len(s))
<1>1. Len(s) \in Nat /\ Len(t) \in Nat
  BY LenProperties
<1>2. /\ a \in Seq(S) /\ Len(a) = Len(s) /\ \A i \in 1..Len(s) : a[i] = s[i]
  <2>1. \A i \in 1..Len(s) : s[i] \in S
    BY ElementOfSeq
  <2>2. 1 \in Int /\ Len(s) \in Int
    BY <1>1
  <2>3. /\ a \in Seq(S) /\ Len(a) = IF 1 <= Len(s) THEN Len(s) - 1 + 1 ELSE 0
        /\ \A i \in 1..Len(s) - 1 + 1 : a[i] = s[1 + i - 1]
    BY <2>1, <2>2, SubSeqProperties
  <2> HIDE DEF a
  <2> QED BY <1>1, <2>3
<1>3. ASSUME Len(s) <= Len(t)
      PROVE  /\ b \in Seq(S) /\ Len(b) = Len(s) /\ \A i \in 1..Len(s) : b[i] = t[i]
  <2>1. \A i \in 1..Len(s) : t[i] \in S
    BY <1>1, <1>3, ElementOfSeq
  <2>2. 1 \in Int /\ Len(s) \in Int
    BY <1>1
  <2>3. /\ b \in Seq(S) /\ Len(b) = IF 1 <= Len(s) THEN Len(s) - 1 + 1 ELSE 0
        /\ \A i \in 1..Len(s) - 1 + 1 : b[i] = t[1 + i - 1]
    BY <2>1, <2>2, SubSeqProperties
  <2> HIDE DEF b
  <2> QED BY <1>1, <2>3
<1>4. IsPrefix(s, t) <=> Len(s) <= Len(t) /\ a = b
  BY DEF IsPrefix
<1> HIDE DEF a, b
<1>5. ASSUME Len(s) <= Len(t) PROVE a = b <=> \A i \in 1..Len(s) : s[i] = t[i]
  <2>1. ASSUME \A i \in 1..Len(s) : s[i] = t[i] PROVE a = b
    <3>1. \A i \in 1..Len(a) : a[i] = b[i]
      BY <1>2, <1>3, <1>5, <2>1
    <3> QED BY <1>2, <1>3, <1>5, <3>1, SeqEqual
  <2> QED BY <1>2, <1>3, <1>5, <2>1
<1> QED BY <1>4, <1>5

\* A concatenation, by index.
LEMMA Concat ==
    ASSUME NEW S, NEW s \in Seq(S), NEW t \in Seq(S)
    PROVE  /\ s \o t \in Seq(S)
           /\ Len(s \o t) = Len(s) + Len(t)
           /\ \A i \in 1..Len(s) : (s \o t)[i] = s[i]
           /\ \A i \in 1..Len(t) : (s \o t)[Len(s) + i] = t[i]
<1> DEFINE u == s \o t
<1>1. /\ u \in Seq(S) /\ Len(u) = Len(s) + Len(t)
      /\ \A i \in 1 .. Len(s) + Len(t) : u[i] = IF i <= Len(s) THEN s[i] ELSE t[i - Len(s)]
  BY ConcatProperties
<1>2. Len(s) \in Nat /\ Len(t) \in Nat
  BY LenProperties
<1> HIDE DEF u
<1>3. ASSUME NEW i \in 1..Len(s) PROVE u[i] = s[i]
  <2>1. i \in 1..Len(s) + Len(t) /\ i <= Len(s)
    BY <1>2
  <2> QED BY <1>1, <2>1
<1>4. ASSUME NEW i \in 1..Len(t) PROVE u[Len(s) + i] = t[i]
  <2>1. /\ Len(s) + i \in 1..Len(s) + Len(t) /\ ~ (Len(s) + i <= Len(s))
        /\ (Len(s) + i) - Len(s) = i
    BY <1>2
  <2> QED BY <1>1, <2>1
<1> QED BY <1>1, <1>3, <1>4 DEF u

\* What comes first is a prefix.
LEMMA PrefixOfConcat ==
    ASSUME NEW S, NEW s \in Seq(S), NEW t \in Seq(S)
    PROVE  IsPrefix(s, s \o t)
<1> DEFINE u == s \o t
<1>1. u \in Seq(S) /\ Len(s) <= Len(u) /\ \A i \in 1..Len(s) : s[i] = u[i]
  <2>1. Len(s) \in Nat /\ Len(t) \in Nat
    BY LenProperties
  <2> QED BY <2>1, Concat
<1> HIDE DEF u
<1>2. IsPrefix(s, u)
  BY <1>1, PrefixIndex
<1> QED BY <1>2 DEF u

\* A prefix of a prefix.
LEMMA PrefixTransitive ==
    ASSUME NEW S, NEW s \in Seq(S), NEW t \in Seq(S), NEW u \in Seq(S),
           IsPrefix(s, t), IsPrefix(t, u)
    PROVE  IsPrefix(s, u)
<1>1. Len(s) \in Nat /\ Len(t) \in Nat /\ Len(u) \in Nat
  BY LenProperties
<1> QED BY <1>1, PrefixIndex

\* Of two beginnings of a sequence one begins with the other.
LEMMA PrefixesComparable ==
    ASSUME NEW S, NEW s \in Seq(S), NEW t \in Seq(S), NEW u \in Seq(S),
           IsPrefix(s, u), IsPrefix(t, u), Len(s) <= Len(t)
    PROVE  IsPrefix(s, t)
<1>1. Len(s) \in Nat /\ Len(t) \in Nat /\ Len(u) \in Nat
  BY LenProperties
<1> QED BY <1>1, PrefixIndex

(***************************************************************************)
(* What lies between two positions of a sequence.                          *)
(***************************************************************************)

Between(s, m, n) == SubSeq(s, m + 1, n)

\* By index.
LEMMA Part ==
    ASSUME NEW S, NEW s \in Seq(S), NEW m \in Nat, NEW n \in Nat, m <= n, n <= Len(s)
    PROVE  /\ Between(s, m, n) \in Seq(S)
           /\ Len(Between(s, m, n)) = n - m
           /\ \A i \in 1..(n - m) : Between(s, m, n)[i] = s[m + i]
<1> DEFINE a == SubSeq(s, m + 1, n)
<1>1. \A i \in (m + 1)..n : s[i] \in S
  BY LenProperties, ElementOfSeq
<1>2. /\ a \in Seq(S) /\ Len(a) = IF m + 1 <= n THEN n - (m + 1) + 1 ELSE 0
      /\ \A i \in 1..n - (m + 1) + 1 : a[i] = s[(m + 1) + i - 1]
  BY <1>1, SubSeqProperties
<1> HIDE DEF a
<1>3. Len(a) = n - m
  BY <1>2
<1>4. \A i \in 1..(n - m) : i \in 1..n - (m + 1) + 1 /\ (m + 1) + i - 1 = m + i
  OBVIOUS
<1> QED BY <1>2, <1>3, <1>4 DEF a, Between

\* Two parts in a row.
LEMMA Parts ==
    ASSUME NEW S, NEW s \in Seq(S), NEW k \in Nat, NEW m \in Nat, NEW n \in Nat,
           k <= m, m <= n, n <= Len(s)
    PROVE  Between(s, k, m) \o Between(s, m, n) = Between(s, k, n)
<1>1. Len(s) \in Nat
  BY LenProperties
<1>2. k + 1 \in 1..Len(s) + 1 /\ m \in (k + 1) - 1..Len(s) /\ n \in m..Len(s)
  BY <1>1
<1> QED BY <1>2, ConcatAdjacentSubSeq DEF Between

\* All of it, and nothing of it.
LEMMA PartsExtreme ==
    ASSUME NEW S, NEW s \in Seq(S), NEW n \in Nat
    PROVE  Between(s, 0, Len(s)) = s /\ Between(s, n, n) = <<>>
<1>1. Between(s, 0, Len(s)) = SubSeq(s, 1, Len(s))
  BY DEF Between
<1>2. Between(s, n, n) = <<>>
  <2>1. n + 1 \in Int /\ n \in Int /\ n < n + 1
    OBVIOUS
  <2> QED BY <2>1, SubSeqEmpty DEF Between
<1> QED BY <1>1, <1>2, SubSeqFull

\* A part that begins at 0 is a prefix, and every prefix is one.
LEMMA PartIsPrefix ==
    ASSUME NEW S, NEW s \in Seq(S), NEW n \in 0..Len(s)
    PROVE  IsPrefix(Between(s, 0, n), s)
<1> DEFINE a == Between(s, 0, n)
<1>1. Len(s) \in Nat
  BY LenProperties
<1>2. /\ a \in Seq(S) /\ Len(a) = n - 0
      /\ \A i \in 1..(n - 0) : a[i] = s[0 + i]
  BY <1>1, Part
<1> HIDE DEF a
<1>3. Len(a) <= Len(s) /\ \A i \in 1..Len(a) : a[i] = s[i]
  BY <1>1, <1>2
<1> QED BY <1>2, <1>3, PrefixIndex DEF a

\* A prefix of t is the part of t from the beginning, as long as the prefix is.
LEMMA PrefixIsPart ==
    ASSUME NEW S, NEW s \in Seq(S), NEW t \in Seq(S), IsPrefix(s, t)
    PROVE  s = Between(t, 0, Len(s))
<1>1. Len(s) \in Nat /\ s = SubSeq(s, 1, Len(s))
  BY LenProperties, SubSeqFull
<1> QED BY <1>1 DEF IsPrefix, Between

\* The first and the second half of a concatenation.
LEMMA HalvesOfConcat ==
    ASSUME NEW S, NEW s \in Seq(S), NEW t \in Seq(S)
    PROVE  /\ Between(s \o t, 0, Len(s)) = s
           /\ Between(s \o t, Len(s), Len(s) + Len(t)) = t
<1> DEFINE u == s \o t
           b == Between(u, Len(s), Len(s) + Len(t))
<1>1. /\ u \in Seq(S) /\ Len(u) = Len(s) + Len(t)
      /\ \A i \in 1..Len(t) : u[Len(s) + i] = t[i]
  BY Concat
<1>2. Len(s) \in Nat /\ Len(t) \in Nat
  BY LenProperties
<1>3. Between(u, 0, Len(s)) = s
  BY <1>1, PrefixOfConcat, PrefixIsPart
<1> HIDE DEF u
<1>4. /\ b \in Seq(S) /\ Len(b) = (Len(s) + Len(t)) - Len(s)
      /\ \A i \in 1..((Len(s) + Len(t)) - Len(s)) : b[i] = u[Len(s) + i]
  <2>1. /\ Len(s) + Len(t) \in Nat /\ Len(s) <= Len(s) + Len(t)
        /\ Len(s) + Len(t) <= Len(u) /\ u \in Seq(S) /\ Len(s) \in Nat
    BY <1>1, <1>2
  <2> QED BY <2>1, Part
<1> HIDE DEF b
<1>5. Len(b) = Len(t) /\ \A i \in 1..Len(b) : b[i] = t[i]
  BY <1>1, <1>2, <1>4
<1>6. b = t
  BY <1>4, <1>5, SeqEqual
<1> QED BY <1>3, <1>6 DEF u, b

\* A part of a part.
LEMMA PartOfPart ==
    ASSUME NEW S, NEW s \in Seq(S), NEW k \in Nat, NEW n \in Nat, k <= n, n <= Len(s),
           NEW i \in Nat, NEW j \in Nat, i <= j, k + j <= n
    PROVE  Between(Between(s, k, n), i, j) = Between(s, k + i, k + j)
<1> DEFINE a == Between(s, k, n)
           b == Between(a, i, j)
           c == Between(s, k + i, k + j)
<1>1. Len(s) \in Nat
  BY LenProperties
<1>2. /\ a \in Seq(S) /\ Len(a) = n - k
      /\ \A x \in 1..(n - k) : a[x] = s[k + x]
  BY Part
<1> HIDE DEF a
<1>3. /\ b \in Seq(S) /\ Len(b) = j - i
      /\ \A x \in 1..(j - i) : b[x] = a[i + x]
  <2>1. a \in Seq(S) /\ j <= Len(a)
    BY <1>2
  <2> QED BY <2>1, Part
<1> HIDE DEF b
<1>4. /\ c \in Seq(S) /\ Len(c) = (k + j) - (k + i)
      /\ \A x \in 1..((k + j) - (k + i)) : c[x] = s[(k + i) + x]
  <2> DEFINE m1 == k + i
             n1 == k + j
  <2>1. m1 \in Nat /\ n1 \in Nat /\ m1 <= n1 /\ n1 <= Len(s)
    BY <1>1
  <2> HIDE DEF m1, n1
  <2>2. /\ Between(s, m1, n1) \in Seq(S)
        /\ Len(Between(s, m1, n1)) = n1 - m1
        /\ \A x \in 1..(n1 - m1) : Between(s, m1, n1)[x] = s[m1 + x]
    BY <2>1, Part
  <2> QED BY <2>2 DEF m1, n1
<1> HIDE DEF c
<1>5. Len(b) = Len(c)
  BY <1>3, <1>4
<1>6. ASSUME NEW x \in 1..Len(b) PROVE b[x] = c[x]
  <2>1. /\ x \in 1..(j - i) /\ x \in 1..((k + j) - (k + i)) /\ i + x \in 1..(n - k)
        /\ k + (i + x) = (k + i) + x
    BY <1>3
  <2> QED BY <1>2, <1>3, <1>4, <2>1
<1>7. b = c
  BY <1>3, <1>4, <1>5, <1>6, SeqEqual
<1> QED BY <1>7 DEF a, b, c

(***************************************************************************)
(* The first k of the sequences that FlattenSeq puts in a row.             *)
(***************************************************************************)

To(ss, k) == FlattenSeq(Between(ss, 0, k))

\* One more of them at a time, up to all of them.
LEMMA ToNext ==
    ASSUME NEW S, NEW ss \in Seq(Seq(S))
    PROVE  /\ To(ss, 0) = <<>>
           /\ \A k \in 0..Len(ss) : To(ss, k) \in Seq(S)
           /\ \A k \in 0..(Len(ss) - 1) : To(ss, k + 1) = To(ss, k) \o ss[k + 1]
           /\ To(ss, Len(ss)) = FlattenSeq(ss)
<1>1. Len(ss) \in Nat /\ \A i \in 1..Len(ss) : ss[i] \in Seq(S)
  BY LenProperties, ElementOfSeq
<1>2. To(ss, 0) = <<>>
  BY PartsExtreme, FlattenEmpty DEF To
<1>3. ASSUME NEW k \in 0..Len(ss) PROVE Between(ss, 0, k) \in Seq(Seq(S))
  BY <1>1, Part
<1>4. ASSUME NEW k \in 0..Len(ss) PROVE To(ss, k) \in Seq(S)
  BY <1>3, FlattenType DEF To
<1>5. ASSUME NEW k \in 0..(Len(ss) - 1) PROVE To(ss, k + 1) = To(ss, k) \o ss[k + 1]
  <2> DEFINE a == Between(ss, 0, k)
             b == Between(ss, 0, k + 1)
             c == Append(a, ss[k + 1])
  <2>1. /\ a \in Seq(Seq(S)) /\ Len(a) = k - 0
        /\ \A i \in 1..(k - 0) : a[i] = ss[0 + i]
    <3>1. 0 \in Nat /\ k \in Nat /\ 0 <= k /\ k <= Len(ss)
      BY <1>1
    <3> QED BY <3>1, Part
  <2>2. /\ b \in Seq(Seq(S)) /\ Len(b) = (k + 1) - 0
        /\ \A i \in 1..((k + 1) - 0) : b[i] = ss[0 + i]
    <3> DEFINE m == k + 1
    <3>1. m \in Nat /\ 0 \in Nat /\ 0 <= m /\ m <= Len(ss)
      BY <1>1
    <3> HIDE DEF m
    <3>2. /\ Between(ss, 0, m) \in Seq(Seq(S)) /\ Len(Between(ss, 0, m)) = m - 0
          /\ \A i \in 1..(m - 0) : Between(ss, 0, m)[i] = ss[0 + i]
      BY <3>1, Part
    <3> QED BY <3>2 DEF m
  <2> HIDE DEF a, b
  <2>3. a \in Seq(Seq(S)) /\ ss[k + 1] \in Seq(S)
    BY <1>1, <2>1
  <2>4. /\ c \in Seq(Seq(S)) /\ Len(c) = Len(a) + 1
        /\ \A i \in 1..Len(a) : c[i] = a[i]
        /\ c[Len(a) + 1] = ss[k + 1]
    BY <2>3, AppendProperties
  <2>5. To(ss, k) = FlattenSeq(a) /\ To(ss, k + 1) = FlattenSeq(b)
    BY DEF To, a, b
  <2>6. FlattenSeq(c) = FlattenSeq(a) \o ss[k + 1]
    BY <2>3, FlattenAppend
  <2> HIDE DEF c
  <2>7. Len(b) = Len(c) /\ \A i \in 1..Len(b) : b[i] = c[i]
    <3>1. ASSUME NEW i \in 1..Len(b) PROVE b[i] = c[i]
      <4>1. CASE i = k + 1
        BY <2>1, <2>2, <2>4, <4>1
      <4>2. CASE i # k + 1
        <5>1. i \in 1..Len(a) /\ 0 + i = i
          BY <2>1, <2>2, <4>2
        <5> QED BY <2>1, <2>2, <2>4, <5>1
      <4> QED BY <4>1, <4>2
    <3> QED BY <2>1, <2>2, <2>4, <3>1
  <2>8. b = c
    BY <2>2, <2>4, <2>7, SeqEqual
  <2> QED BY <2>5, <2>6, <2>8
<1>6. To(ss, Len(ss)) = FlattenSeq(ss)
  BY <1>1, PartsExtreme DEF To
<1> QED BY <1>2, <1>4, <1>5, <1>6

\* They are a prefix of all of them.
LEMMA ToPrefix ==
    ASSUME NEW S, NEW ss \in Seq(Seq(S)), NEW k \in 0..Len(ss)
    PROVE  IsPrefix(To(ss, k), FlattenSeq(ss))
<1> DEFINE Fits(m) == m \in k..Len(ss) => IsPrefix(To(ss, k), To(ss, m))
           T == {m \in Nat : Fits(m)}
<1>0. Len(ss) \in Nat
  BY LenProperties
<1>1. ASSUME NEW x \in Seq(S) PROVE IsPrefix(x, x)
  BY <1>1 DEF IsPrefix
<1>2. \A m \in 0..Len(ss) : To(ss, m) \in Seq(S)
  BY ToNext
<1>3. Fits(k)
  BY <1>1, <1>2
<1>4. Fits(0)
  BY <1>0, <1>3
<1>5. ASSUME NEW m \in Nat, Fits(m) PROVE Fits(m + 1)
  <2> SUFFICES ASSUME m + 1 \in k..Len(ss), m + 1 # k
               PROVE  IsPrefix(To(ss, k), To(ss, m + 1))
    BY <1>3
  <2>1. m \in k..Len(ss) /\ m \in 0..(Len(ss) - 1) /\ m + 1 \in 0..Len(ss)
    BY <1>0
  <2>2. m \in 0..Len(ss) /\ k \in 0..Len(ss)
    BY <2>1
  <2>3. To(ss, m) \in Seq(S) /\ To(ss, m + 1) \in Seq(S) /\ To(ss, k) \in Seq(S)
    BY <1>2, <2>1, <2>2
  <2>4. ss[m + 1] \in Seq(S)
    BY <1>0, <2>1, ElementOfSeq
  <2>5. To(ss, m + 1) = To(ss, m) \o ss[m + 1]
    BY <2>1, ToNext
  <2>6. IsPrefix(To(ss, m), To(ss, m + 1))
    BY <2>3, <2>4, <2>5, PrefixOfConcat
  <2>7. IsPrefix(To(ss, k), To(ss, m))
    BY <1>5, <2>1
  <2> QED BY <2>3, <2>6, <2>7, PrefixTransitive
<1> HIDE DEF Fits
<1>6. 0 \in T /\ \A m \in Nat : m \in T => m + 1 \in T
  BY <1>4, <1>5
<1>7. \A m \in Nat : m \in T
  <2> HIDE DEF T
  <2> QED BY <1>6, Induction
<1>8. Fits(Len(ss))
  BY <1>0, <1>7
<1> QED BY <1>0, <1>8, ToNext DEF Fits

\* Where each of them lies.
LEMMA ToElement ==
    ASSUME NEW S, NEW ss \in Seq(Seq(S)), NEW k \in 0..(Len(ss) - 1)
    PROVE  /\ Len(To(ss, k + 1)) = Len(To(ss, k)) + Len(ss[k + 1])
           /\ Between(FlattenSeq(ss), Len(To(ss, k)), Len(To(ss, k + 1))) = ss[k + 1]
<1> DEFINE a == To(ss, k)
           b == To(ss, k + 1)
           x == ss[k + 1]
           all == FlattenSeq(ss)
<1>1. Len(ss) \in Nat
  BY LenProperties
<1>2. k \in 0..Len(ss) /\ k + 1 \in 0..Len(ss) /\ k + 1 \in 1..Len(ss)
  BY <1>1
<1>3. a \in Seq(S) /\ b \in Seq(S) /\ x \in Seq(S) /\ b = a \o x
  BY <1>2, ToNext, ElementOfSeq
<1>4. all \in Seq(S) /\ IsPrefix(b, all)
  BY <1>2, FlattenType, ToPrefix
<1> HIDE DEF a, b, x, all
<1>5. Len(a) \in Nat /\ Len(b) \in Nat /\ Len(x) \in Nat /\ Len(b) = Len(a) + Len(x)
  BY <1>3, LenProperties, Concat
<1>6. Between(b, Len(a), Len(b)) = x
  BY <1>3, <1>5, HalvesOfConcat
<1>7. b = Between(all, 0, Len(b)) /\ Len(b) <= Len(all)
  BY <1>3, <1>4, PrefixIsPart DEF IsPrefix
<1>8. Between(Between(all, 0, Len(b)), Len(a), Len(b))
          = Between(all, 0 + Len(a), 0 + Len(b))
  <2>1. 0 \in Nat /\ 0 <= Len(b) /\ Len(a) <= Len(b) /\ 0 + Len(b) <= Len(b)
    BY <1>5
  <2> QED BY <1>4, <1>5, <1>7, <2>1, PartOfPart
<1>9. Between(all, Len(a), Len(b)) = x
  <2>1. 0 + Len(a) = Len(a) /\ 0 + Len(b) = Len(b)
    BY <1>5
  <2> QED BY <1>6, <1>7, <1>8, <2>1
<1> QED BY <1>5, <1>9 DEF a, b, x, all

(***************************************************************************)
(* Where a head's lines begin, and what is left of it.                     *)
(***************************************************************************)

\* The least element of a set of naturals.
LEMMA LeastElement ==
    ASSUME NEW T, T # {}, \A x \in T : x \in Nat
    PROVE  \E x \in T : \A y \in T : x <= y
<1> DEFINE R == OpToRel(<, Nat)
<1>1. IsWellFoundedOn(R, Nat)
  BY NatLessThanWellFounded
<1>2. \A x, y \in Nat : x < y => <<x, y>> \in R
  BY DEF OpToRel
<1> HIDE DEF R
<1>3. PICK x \in T : \A y \in T : ~ (<<y, x>> \in R)
  <2>1. T \subseteq Nat
    OBVIOUS
  <2> QED BY <1>1, <2>1, WFMin
<1>4. ASSUME NEW y \in T PROVE x <= y
  <2>1. x \in Nat /\ y \in Nat
    OBVIOUS
  <2>2. y < x => <<y, x>> \in R
    BY <1>2, <2>1
  <2> QED BY <1>3, <2>1, <2>2
<1> QED BY <1>4

\* The greatest element of a bounded set of naturals.
LEMMA GreatestElement ==
    ASSUME NEW n \in Nat, NEW T, T # {}, \A x \in T : x \in 0..n
    PROVE  Max(T) \in T /\ \A x \in T : Max(T) >= x
<1> DEFINE U == {n - x : x \in T}
<1>1. U # {} /\ \A y \in U : y \in Nat
  OBVIOUS
<1>2. PICK y \in U : \A z \in U : y <= z
  <2> HIDE DEF U
  <2> QED BY <1>1, LeastElement
<1>3. PICK x \in T : y = n - x
  BY <1>2
<1>4. \A z \in T : x >= z
  <2> SUFFICES ASSUME NEW z \in T PROVE x >= z
    OBVIOUS
  <2>1. n - z \in U
    OBVIOUS
  <2>2. n - x <= n - z
    BY <1>2, <1>3, <2>1
  <2> QED BY <2>2
<1> QED BY <1>3, <1>4 DEF Max

\* The greatest element, where it is known.
LEMMA IsMax ==
    ASSUME NEW T, NEW x \in T, \A y \in T : y \in Nat, \A y \in T : x >= y
    PROVE  Max(T) = x
<1>1. \A y \in T : (\A z \in T : y >= z) => y = x
  OBVIOUS
<1> QED BY <1>1 DEF Max

\* The least element, where it is known.
LEMMA IsMin ==
    ASSUME NEW T, NEW x \in T, \A y \in T : y \in Nat, \A y \in T : x <= y
    PROVE  Min(T) = x
<1>1. \A y \in T : (\A z \in T : y <= z) => y = x
  OBVIOUS
<1> QED BY <1>1 DEF Min

\* The smaller of two numbers is one that is at most each of them.
LEMMA MinOfTwo ==
    ASSUME NEW a \in Nat, NEW b \in Nat
    PROVE  Min({a, b}) \in Nat /\ Min({a, b}) <= a /\ Min({a, b}) <= b
<1> DEFINE T == {a, b}
<1>1. a \in T /\ b \in T /\ \A y \in T : y \in Nat /\ (y = a \/ y = b)
  OBVIOUS
<1> HIDE DEF T
<1>2. CASE a <= b
  <2>1. \A y \in T : a <= y
    BY <1>1, <1>2
  <2>2. Min(T) = a
    BY <1>1, <2>1, IsMin
  <2> QED BY <1>2, <2>2 DEF T
<1>3. CASE b < a
  <2>1. \A y \in T : b <= y
    BY <1>1, <1>3
  <2>2. Min(T) = b
    BY <1>1, <2>1, IsMin
  <2> QED BY <1>3, <2>2 DEF T
<1> QED BY <1>2, <1>3

\* Intervals.
LEMMA SameLength ==
    ASSUME NEW m \in Nat, NEW n \in Nat, 1..m = 1..n
    PROVE  m = n
<1>1. m > 0 => m \in 1..n
  OBVIOUS
<1>2. n > 0 => n \in 1..m
  OBVIOUS
<1> QED BY <1>1, <1>2

\* A sequence of one element, and one element more.
LEMMA Single ==
    ASSUME NEW S, NEW a \in S
    PROVE  <<a>> \in Seq(S) /\ Len(<<a>>) = 1 /\ <<a>>[1] = a
OBVIOUS

\* A sequence and one element more.
LEMMA Appended ==
    ASSUME NEW S, NEW u \in Seq(S), NEW a \in S
    PROVE  /\ Append(u, a) \in Seq(S)
           /\ Len(Append(u, a)) = Len(u) + 1 /\ Len(u) \in Nat
           /\ \A k \in 1..Len(u) : Append(u, a)[k] = u[k]
           /\ Append(u, a)[Len(u) + 1] = a
<1>1. Len(u) \in Nat
  BY LenProperties
<1>2. /\ Append(u, a) \in Seq(S)
      /\ Len(Append(u, a)) = Len(u) + 1
      /\ \A k \in 1..Len(u) : Append(u, a)[k] = u[k]
      /\ Append(u, a)[Len(u) + 1] = a
  BY AppendProperties
<1> QED BY <1>1, <1>2

\* Every symbol is in a line.
LEMMA LineOfType ==
    ASSUME NEW u \in Seq(Symbols), NEW i \in 1..Len(u)
    PROVE  LineOf(u, i) \in 1..Len(u) /\ LineOf(u, i) <= i
<1> DEFINE T == {k \in LineStarts(u) : k <= i}
<1>1. Len(u) \in Nat
  BY LenProperties
<1>2. 1 \in T /\ \A k \in T : k \in 0..i /\ k \in 1..Len(u) /\ k <= i
  BY <1>1 DEF LineStarts
<1>3. i \in Nat /\ LineOf(u, i) = Max(T)
  BY DEF LineOf
<1> HIDE DEF T
<1>4. Max(T) \in T
  BY <1>2, <1>3, GreatestElement
<1> QED BY <1>2, <1>3, <1>4

\* A symbol more does not change the lines of those before.
LEMMA LineOfAppend ==
    ASSUME NEW u \in Seq(Symbols), NEW a \in Symbols, NEW i \in 1..Len(u)
    PROVE  LineOf(Append(u, a), i) = LineOf(u, i)
<1> DEFINE v == Append(u, a)
<1>1. /\ v \in Seq(Symbols) /\ Len(v) = Len(u) + 1 /\ Len(u) \in Nat
      /\ \A k \in 1..Len(u) : v[k] = u[k]
  BY AppendProperties, LenProperties
<1> HIDE DEF v
<1>2. {k \in LineStarts(v) : k <= i} = {k \in LineStarts(u) : k <= i}
  BY <1>1 DEF LineStarts
<1>3. LineOf(v, i) = LineOf(u, i)
  BY <1>2 DEF LineOf
<1> QED BY <1>3 DEF v

\* The symbols that ScrubProxyHeaders keeps.
Kept(u) == [i \in DOMAIN u |-> IF u[LineOf(u, i)] = "V" THEN <<>> ELSE <<u[i]>>]

\* What is kept of each symbol is a sequence of symbols, and their concatenation is the result.
LEMMA KeptType ==
    ASSUME NEW u \in Seq(Symbols)
    PROVE  /\ Kept(u) \in Seq(Seq(Symbols)) /\ Len(Kept(u)) = Len(u)
           /\ ScrubProxyHeaders(u) = FlattenSeq(Kept(u))
           /\ ScrubProxyHeaders(u) \in Seq(Symbols)
<1>1. Len(u) \in Nat /\ DOMAIN u = 1..Len(u) /\ \A i \in 1..Len(u) : u[i] \in Symbols
  BY LenProperties, ElementOfSeq
<1>2. ASSUME NEW i \in 1..Len(u)
      PROVE  (IF u[LineOf(u, i)] = "V" THEN <<>> ELSE <<u[i]>>) \in Seq(Symbols)
  BY <1>1, Single, EmptySeq
<1>3. Kept(u) \in [1..Len(u) -> Seq(Symbols)]
  BY <1>1, <1>2 DEF Kept
<1>4. Kept(u) \in Seq(Seq(Symbols))
  BY <1>1, <1>3, SeqDef
<1>5. Len(Kept(u)) = Len(u)
  <2>1. DOMAIN Kept(u) = 1..Len(Kept(u)) /\ Len(Kept(u)) \in Nat
    BY <1>4, LenProperties
  <2>2. DOMAIN Kept(u) = 1..Len(u)
    BY <1>1 DEF Kept
  <2> QED BY <1>1, <2>1, <2>2, SameLength
<1>6. ScrubProxyHeaders(u) = FlattenSeq(Kept(u))
  BY DEF ScrubProxyHeaders, Kept
<1> QED BY <1>4, <1>5, <1>6, FlattenType

\* One symbol more.
LEMMA ScrubSymbol ==
    ASSUME NEW u \in Seq(Symbols), NEW a \in Symbols
    PROVE  LET v == Append(u, a) IN
           ScrubProxyHeaders(v) = ScrubProxyHeaders(u) \o
               (IF v[LineOf(v, Len(u) + 1)] = "V" THEN <<>> ELSE <<a>>)
<1> DEFINE v == Append(u, a)
           x == IF v[LineOf(v, Len(u) + 1)] = "V" THEN <<>> ELSE <<a>>
           w == Append(Kept(u), x)
<1>1. /\ v \in Seq(Symbols) /\ Len(v) = Len(u) + 1 /\ Len(u) \in Nat
      /\ \A k \in 1..Len(u) : v[k] = u[k]
      /\ v[Len(u) + 1] = a
  <2>1. v \in Seq(Symbols) /\ Len(v) = Len(u) + 1 /\ Len(u) \in Nat
    BY Appended
  <2>2. \A k \in 1..Len(u) : v[k] = u[k]
    BY Appended
  <2>3. v[Len(u) + 1] = a
    BY Appended
  <2> QED BY <2>1, <2>2, <2>3
<1>2. \A i \in 1..Len(u) : LineOf(v, i) = LineOf(u, i)
  BY LineOfAppend
<1> HIDE DEF v
<1>3. x \in Seq(Symbols)
  BY Single, EmptySeq
<1> HIDE DEF x
<1>4. /\ Kept(u) \in Seq(Seq(Symbols)) /\ Len(Kept(u)) = Len(u)
      /\ ScrubProxyHeaders(u) = FlattenSeq(Kept(u))
  BY KeptType
<1>5. /\ Kept(v) \in Seq(Seq(Symbols)) /\ Len(Kept(v)) = Len(v)
      /\ ScrubProxyHeaders(v) = FlattenSeq(Kept(v))
  BY <1>1, KeptType
<1>6. /\ w \in Seq(Seq(Symbols)) /\ Len(w) = Len(u) + 1
      /\ \A i \in 1..Len(u) : w[i] = Kept(u)[i]
      /\ w[Len(u) + 1] = x
  <2>1. Kept(u) \in Seq(Seq(Symbols)) /\ Len(Kept(u)) = Len(u)
    BY <1>4
  <2>2. /\ w \in Seq(Seq(Symbols)) /\ Len(w) = Len(Kept(u)) + 1
        /\ \A i \in 1..Len(Kept(u)) : w[i] = Kept(u)[i]
        /\ w[Len(Kept(u)) + 1] = x
    <3>1. Kept(u) \in Seq(Seq(Symbols))
      BY <2>1
    <3>2. /\ Append(Kept(u), x) \in Seq(Seq(Symbols))
          /\ Len(Append(Kept(u), x)) = Len(Kept(u)) + 1
          /\ \A k \in 1..Len(Kept(u)) : Append(Kept(u), x)[k] = Kept(u)[k]
      BY <1>3, <3>1, Appended
    <3>3. Append(Kept(u), x)[Len(Kept(u)) + 1] = x
      BY <1>3, <3>1, Appended
    <3> HIDE DEF w
    <3>4. w = Append(Kept(u), x)
      BY DEF w
    <3> QED BY <3>2, <3>3, <3>4
  <2> QED BY <2>1, <2>2
<1>7. FlattenSeq(w) = FlattenSeq(Kept(u)) \o x
  BY <1>3, <1>4, FlattenAppend
<1> HIDE DEF w
<1>8. ASSUME NEW i \in 1..Len(v) PROVE Kept(v)[i] = w[i]
  <2>0. DOMAIN v = 1..Len(v) /\ DOMAIN u = 1..Len(u)
    BY <1>1, LenProperties
  <2>1. Kept(v)[i] = IF v[LineOf(v, i)] = "V" THEN <<>> ELSE <<v[i]>>
    BY <2>0 DEF Kept
  <2>2. CASE i = Len(u) + 1
    BY <1>1, <1>6, <2>1, <2>2 DEF x
  <2>3. CASE i \in 1..Len(u)
    <3>1. Kept(u)[i] = IF u[LineOf(u, i)] = "V" THEN <<>> ELSE <<u[i]>>
      BY <2>0, <2>3 DEF Kept
    <3>2. LineOf(u, i) \in 1..Len(u)
      BY <2>3, LineOfType
    <3>3. LineOf(v, i) = LineOf(u, i) /\ v[LineOf(v, i)] = u[LineOf(u, i)] /\ v[i] = u[i]
      BY <1>1, <1>2, <2>3, <3>2
    <3> QED BY <1>6, <2>1, <2>3, <3>1, <3>3
  <2> QED BY <1>1, <2>2, <2>3
<1>9. Kept(v) = w
  BY <1>1, <1>5, <1>6, <1>8, SeqEqual
<1>10. ScrubProxyHeaders(v) = ScrubProxyHeaders(u) \o x
  BY <1>4, <1>5, <1>7, <1>9
<1> QED BY <1>10 DEF v, x

\* A part that is one symbol longer.
LEMMA PartNext ==
    ASSUME NEW S, NEW x \in Seq(S), NEW j \in 0..(Len(x) - 1)
    PROVE  Between(x, 0, j + 1) = Between(x, 0, j) \o <<x[j + 1]>>
<1> DEFINE c == Between(x, j, j + 1)
<1>1. j \in Nat /\ j + 1 \in Nat /\ 0 <= j /\ j <= j + 1 /\ j + 1 <= Len(x)
  BY LenProperties
<1>2. Between(x, 0, j + 1) = Between(x, 0, j) \o c
  BY <1>1, Parts
<1>3. /\ c \in Seq(S) /\ Len(c) = (j + 1) - j
      /\ \A i \in 1..((j + 1) - j) : c[i] = x[j + i]
  BY <1>1, Part
<1> HIDE DEF c
<1>4. Len(c) = 1 /\ c[1] = x[j + 1]
  BY <1>1, <1>3
<1>5. x[j + 1] \in S
  BY <1>1, ElementOfSeq
<1>6. c = <<x[j + 1]>>
  <2> DEFINE d == <<x[j + 1]>>
  <2>1. d \in Seq(S) /\ Len(d) = 1 /\ d[1] = x[j + 1]
    BY <1>5, Single
  <2> HIDE DEF d
  <2>2. Len(c) = Len(d) /\ \A i \in 1..Len(c) : c[i] = d[i]
    BY <1>4, <2>1
  <2>3. c = d
    BY <1>3, <2>1, <2>2, SeqEqual
  <2> QED BY <2>3 DEF d
<1> QED BY <1>2, <1>6

\* Append is a concatenation.
LEMMA AppendConcat ==
    ASSUME NEW S, NEW u \in Seq(S), NEW a \in S
    PROVE  Append(u, a) = u \o <<a>>
<1> DEFINE v == Append(u, a)
           s == <<a>>
           w == u \o s
<1>1. /\ v \in Seq(S) /\ Len(v) = Len(u) + 1 /\ Len(u) \in Nat
      /\ \A k \in 1..Len(u) : v[k] = u[k]
      /\ v[Len(u) + 1] = a
  BY Appended
<1>2. s \in Seq(S) /\ Len(s) = 1 /\ s[1] = a
  BY Single
<1> HIDE DEF v, s
<1>3. /\ w \in Seq(S) /\ Len(w) = Len(u) + Len(s)
      /\ \A i \in 1..Len(u) : w[i] = u[i]
      /\ \A i \in 1..Len(s) : w[Len(u) + i] = s[i]
  <2>1. s \in Seq(S)
    BY <1>2
  <2> QED BY <2>1, Concat
<1> HIDE DEF w
<1>4. w[Len(u) + 1] = a
  <2>1. 1 \in 1..Len(s)
    BY <1>2
  <2> QED BY <1>2, <1>3, <2>1
<1>5. \A i \in 1..Len(v) : v[i] = w[i]
  BY <1>1, <1>3, <1>4
<1>6. v = w
  BY <1>1, <1>2, <1>3, <1>5, SeqEqual
<1> QED BY <1>6 DEF v, w, s

\* A line more: it is kept, or it is not.
LEMMA ScrubLine ==
    ASSUME NEW h \in Seq(Symbols), NEW x \in Seq(Symbols), x # <<>>,
           h = <<>> \/ h[Len(h)] = "n",
           \A i \in 1..(Len(x) - 1) : x[i] # "n"
    PROVE  ScrubProxyHeaders(h \o x) =
               ScrubProxyHeaders(h) \o (IF x[1] = "V" THEN <<>> ELSE x)
<1> DEFINE keep(j) == IF x[1] = "V" THEN <<>> ELSE Between(x, 0, j)
           Kept1(j) == ScrubProxyHeaders(h \o Between(x, 0, j)) = ScrubProxyHeaders(h) \o keep(j)
           T == {j \in Nat : j \in 0..Len(x) => Kept1(j)}
<1>1. Len(h) \in Nat /\ Len(x) \in Nat /\ Len(x) > 0
  BY LenProperties, EmptySeq
<1>2. ScrubProxyHeaders(h) \in Seq(Symbols)
  BY KeptType
<1>3. 0 \in T
  <2>1. Between(x, 0, 0) = <<>> /\ keep(0) = <<>>
    BY PartsExtreme
  <2>2. h \o <<>> = h /\ ScrubProxyHeaders(h) \o <<>> = ScrubProxyHeaders(h)
    BY <1>2, ConcatEmptySeq
  <2> HIDE DEF keep
  <2>3. Kept1(0)
    BY <2>1, <2>2
  <2> QED BY <2>3
<1>4. ASSUME NEW j \in Nat, j \in T, j + 1 \in 0..Len(x) PROVE Kept1(j + 1)
  <2> DEFINE a == Between(x, 0, j)
             b == Between(x, 0, j + 1)
             e == x[j + 1]
             u == h \o a
             v == h \o b
  <2>1. j \in 0..(Len(x) - 1) /\ j \in 0..Len(x)
    BY <1>1, <1>4
  <2>2. Kept1(j)
    BY <1>4, <2>1
  <2>3. e \in Symbols
    BY <1>1, <2>1, ElementOfSeq
  <2>4. a \in Seq(Symbols) /\ Len(a) = j
    <3>1. 0 \in Nat /\ 0 <= j /\ j <= Len(x) /\ j - 0 = j
      BY <2>1
    <3> QED BY <3>1, Part
  <2>5. /\ b \in Seq(Symbols) /\ Len(b) = j + 1
        /\ \A i \in 1..(j + 1) : b[i] = x[i]
    <3> DEFINE m == j + 1
    <3>1. 0 \in Nat /\ 0 <= m /\ m <= Len(x) /\ m - 0 = m /\ m \in Nat
      BY <1>4, <2>1
    <3>2. \A i \in 1..m : 0 + i = i
      OBVIOUS
    <3> HIDE DEF m
    <3>3. /\ Between(x, 0, m) \in Seq(Symbols)
          /\ Len(Between(x, 0, m)) = m - 0
          /\ \A i \in 1..(m - 0) : Between(x, 0, m)[i] = x[0 + i]
      BY <3>1, Part
    <3> HIDE DEF b
    <3>4. b = Between(x, 0, m)
      BY DEF b, m
    <3>5. /\ b \in Seq(Symbols) /\ Len(b) = m
          /\ \A i \in 1..m : b[i] = x[i]
      BY <3>1, <3>2, <3>3, <3>4
    <3> QED BY <3>5 DEF m
  <2>6. b = a \o <<e>>
    BY <2>1, PartNext
  <2> HIDE DEF a, b, e
  <2>7. u \in Seq(Symbols) /\ Len(u) = Len(h) + j
    BY <2>4, Concat
  <2>8. /\ v \in Seq(Symbols) /\ Len(v) = Len(h) + (j + 1)
        /\ \A i \in 1..Len(h) : v[i] = h[i]
        /\ \A i \in 1..(j + 1) : v[Len(h) + i] = x[i]
    <3>1. /\ v \in Seq(Symbols) /\ Len(v) = Len(h) + Len(b)
          /\ \A i \in 1..Len(h) : v[i] = h[i]
          /\ \A i \in 1..Len(b) : v[Len(h) + i] = b[i]
      <4>1. b \in Seq(Symbols)
        BY <2>5
      <4> QED BY <4>1, Concat
    <3> HIDE DEF v
    <3> QED BY <2>5, <3>1
  <2>9. v = Append(u, e)
    <3>1. <<e>> \in Seq(Symbols)
      BY <2>3, Single
    <3>2. v = (h \o a) \o <<e>>
      BY <2>4, <2>6, <3>1, Associative
    <3> QED BY <2>3, <2>7, <3>2, AppendConcat
  <2> HIDE DEF u, v
  <2>10. LineOf(v, Len(u) + 1) = Len(h) + 1
    <3> DEFINE U == {k \in LineStarts(v) : k <= Len(u) + 1}
    <3>1. Len(h) + 1 \in U
      <4>1. Len(h) + 1 \in 1..Len(v) /\ Len(h) + 1 <= Len(u) + 1
        BY <1>1, <2>7, <2>8
      <4>2. Len(h) # 0 => v[(Len(h) + 1) - 1] = "n"
        <5> SUFFICES ASSUME Len(h) # 0 PROVE v[(Len(h) + 1) - 1] = "n"
          OBVIOUS
        <5>1. h # <<>> /\ (Len(h) + 1) - 1 = Len(h) /\ Len(h) \in 1..Len(h)
          BY <1>1, EmptySeq
        <5> QED BY <2>8, <5>1
      <4>3. Len(h) = 0 => Len(h) + 1 = 1
        OBVIOUS
      <4> QED BY <4>1, <4>2, <4>3 DEF LineStarts
    <3>2. ASSUME NEW k \in U PROVE k \in Nat /\ Len(h) + 1 >= k
      <4>1. k \in 1..Len(v) /\ (k = 1 \/ v[k - 1] = "n")
        BY DEF LineStarts
      <4>2. CASE k > Len(h) + 1
        <5>1. /\ (k - 1) - Len(h) \in 1..(j + 1) /\ (k - 1) - Len(h) \in 1..(Len(x) - 1)
              /\ Len(h) + ((k - 1) - Len(h)) = k - 1 /\ k # 1
          <6>1. Len(h) \in Nat /\ Len(x) \in Nat /\ Len(v) = Len(h) + (j + 1)
            BY <1>1, <2>8
          <6>2. j + 1 <= Len(x) /\ k \in 1..Len(v) /\ k > Len(h) + 1
            BY <1>4, <4>1, <4>2
          <6> HIDE DEF U
          <6> QED BY <6>1, <6>2
        <5>2. v[k - 1] = x[(k - 1) - Len(h)]
          BY <2>8, <5>1
        <5> QED BY <4>1, <5>1, <5>2
      <4> QED BY <1>1, <2>8, <4>1, <4>2
    <3>3. LineOf(v, Len(u) + 1) = Max(U)
      BY DEF LineOf
    <3> HIDE DEF U
    <3> QED BY <3>1, <3>2, <3>3, IsMax
  <2>11. v[Len(h) + 1] = x[1]
    <3>1. 1 \in 1..(j + 1)
      OBVIOUS
    <3> QED BY <2>8, <3>1
  <2> DEFINE y == IF x[1] = "V" THEN <<>> ELSE <<e>>
  <2>12. ScrubProxyHeaders(v) = ScrubProxyHeaders(u) \o y
    BY <2>3, <2>7, <2>9, <2>10, <2>11, ScrubSymbol
  <2>13. ScrubProxyHeaders(u) = ScrubProxyHeaders(h) \o keep(j)
    BY <2>2 DEF u, a
  <2>14. keep(j + 1) = keep(j) \o y /\ keep(j) \in Seq(Symbols) /\ y \in Seq(Symbols)
    <3>1. <<>> \o <<>> = <<>>
      BY ConcatEmptySeq, EmptySeq
    <3>2. CASE x[1] = "V"
      BY <3>1, <3>2, EmptySeq
    <3>3. CASE x[1] # "V"
      BY <2>3, <2>4, <2>6, <3>3, Single DEF a, b
    <3> QED BY <3>2, <3>3
  <2> HIDE DEF y, keep
  <2>15. ScrubProxyHeaders(v) = ScrubProxyHeaders(h) \o keep(j + 1)
    <3>1. (ScrubProxyHeaders(h) \o keep(j)) \o y = ScrubProxyHeaders(h) \o (keep(j) \o y)
      <4> DEFINE r == ScrubProxyHeaders(h)
                 z == keep(j)
      <4>1. z \in Seq(Symbols) /\ y \in Seq(Symbols)
        BY <2>14
      <4>2. r \in Seq(Symbols)
        BY KeptType
      <4> HIDE DEF r, z
      <4>3. (r \o z) \o y = r \o (z \o y)
        BY <4>1, <4>2, Associative
      <4> QED BY <4>3 DEF r, z
    <3> QED BY <2>12, <2>13, <2>14, <3>1
  <2> QED BY <2>15 DEF v, b
<1>5. \A j \in Nat : j \in T => j + 1 \in T
  <2> HIDE DEF Kept1
  <2> QED BY <1>4
<1>6. \A j \in Nat : j \in T
  <2> HIDE DEF T
  <2> QED BY <1>3, <1>5, Induction
<1>7. Kept1(Len(x))
  <2> HIDE DEF Kept1
  <2> QED BY <1>1, <1>6
<1>8. Between(x, 0, Len(x)) = x
  BY PartsExtreme
<1> QED BY <1>7, <1>8

(***************************************************************************)
(* The heads of well-formed requests.                                      *)
(***************************************************************************)

\* A head's lines with their ends, and those of them that are kept.
Ended(r) == [i \in DOMAIN r.lines |-> r.lines[i] \o <<"n">>]

Cleaned(r) == [i \in DOMAIN r.lines |->
                  IF Head(r.lines[i]) = "V" THEN <<>> ELSE r.lines[i] \o <<"n">>]

IsLine(x) ==
    /\ x \in Seq(Symbols) /\ Len(x) >= 2 /\ x[Len(x)] = "n"
    /\ \A j \in 1..(Len(x) - 1) : x[j] # "n"

\* The end of a line is a symbol.
LEMMA LineEnd == <<"n">> \in Seq(Symbols) /\ Len(<<"n">>) = 1 /\ <<"n">>[1] = "n"
<1>1. "n" \in Symbols
  BY DEF Symbols
<1> QED BY <1>1, Single

\* A line of a well-formed head, with its end, is a line that begins with its header.
LEMMA LineEnded ==
    ASSUME NEW l \in Seq(Symbols), l # <<>>, "n" \notin ToSet(l)
    PROVE  LET x == l \o <<"n">> IN IsLine(x) /\ x[1] = Head(l) /\ IsPrefix(l, x)
<1> DEFINE e == <<"n">>
           x == l \o e
<1>1. Len(l) \in Nat \ {0} /\ DOMAIN l = 1..Len(l)
  BY LenProperties, EmptySeq
<1>2. e \in Seq(Symbols) /\ Len(e) = 1 /\ e[1] = "n"
  BY LineEnd
<1> HIDE DEF e
<1>3. e \in Seq(Symbols)
  BY <1>2
<1>4. /\ x \in Seq(Symbols) /\ Len(x) = Len(l) + Len(e)
      /\ \A i \in 1..Len(l) : x[i] = l[i]
      /\ \A i \in 1..Len(e) : x[Len(l) + i] = e[i]
  BY <1>3, Concat
<1>5. IsPrefix(l, x)
  BY <1>3, PrefixOfConcat
<1> HIDE DEF x
<1>6. x[Len(l) + 1] = "n" /\ Len(x) = Len(l) + 1
  <2>1. 1 \in 1..Len(e)
    BY <1>2
  <2> QED BY <1>2, <1>4, <2>1
<1>7. \A i \in 1..Len(l) : l[i] # "n"
  BY <1>1 DEF ToSet
<1>8. \A j \in 1..(Len(x) - 1) : x[j] # "n"
  BY <1>1, <1>4, <1>6, <1>7
<1>9. x[1] = Head(l)
  <2>1. 1 \in 1..Len(l) /\ Head(l) = l[1]
    BY <1>1
  <2> QED BY <1>4, <2>1
<1>10. IsLine(x)
  BY <1>1, <1>4, <1>6, <1>8 DEF IsLine
<1> QED BY <1>5, <1>9, <1>10 DEF x, e

\* The lines of a request that has a head, as sent and as the target is to get them.
LEMMA LinesOf ==
    ASSUME NEW r \in Request, HasHead(r)
    PROVE  /\ Len(r.lines) \in Nat \ {0}
           /\ Ended(r) \in Seq(Seq(Symbols)) /\ Len(Ended(r)) = Len(r.lines)
           /\ Cleaned(r) \in Seq(Seq(Symbols)) /\ Len(Cleaned(r)) = Len(r.lines)
           /\ HeadOf(r) = FlattenSeq(Ended(r)) \o <<"n">>
           /\ CleanHead(r) = FlattenSeq(Cleaned(r)) \o <<"n">>
           /\ \A i \in 1..Len(r.lines) :
                 /\ IsLine(Ended(r)[i])
                 /\ IsPrefix(r.lines[i], Ended(r)[i])
                 /\ Cleaned(r)[i] = IF Ended(r)[i][1] = "V" THEN <<>> ELSE Ended(r)[i]
<1> DEFINE n == Len(r.lines)
<1>1. r.lines \in Seq(Seq(Symbols)) /\ r.lines # <<>>
  BY DEF Request, HasHead
<1>2. n \in Nat \ {0} /\ DOMAIN r.lines = 1..n
  BY <1>1, LenProperties, EmptySeq
<1>3. \A i \in 1..n : /\ r.lines[i] \in Seq(Symbols)
                      /\ r.lines[i] # <<>> /\ "n" \notin ToSet(r.lines[i])
  BY <1>1, <1>2, ElementOfSeq DEF HasHead
<1>4. \A i \in 1..n : /\ Ended(r)[i] = r.lines[i] \o <<"n">>
                      /\ Cleaned(r)[i] = IF Head(r.lines[i]) = "V" THEN <<>>
                                         ELSE r.lines[i] \o <<"n">>
  BY <1>2 DEF Ended, Cleaned
<1>5. ASSUME NEW i \in 1..n
      PROVE  /\ IsLine(Ended(r)[i])
             /\ IsPrefix(r.lines[i], Ended(r)[i])
             /\ Cleaned(r)[i] = IF Ended(r)[i][1] = "V" THEN <<>> ELSE Ended(r)[i]
  <2>1. r.lines[i] \in Seq(Symbols) /\ r.lines[i] # <<>> /\ "n" \notin ToSet(r.lines[i])
    BY <1>3
  <2>2. LET x == r.lines[i] \o <<"n">>
        IN  IsLine(x) /\ x[1] = Head(r.lines[i]) /\ IsPrefix(r.lines[i], x)
    BY <2>1, LineEnded
  <2> QED BY <1>4, <2>2
<1>6. \A i \in 1..n : Ended(r)[i] \in Seq(Symbols) /\ Cleaned(r)[i] \in Seq(Symbols)
  BY <1>5, EmptySeq DEF IsLine
<1>7. Ended(r) \in [1..n -> Seq(Symbols)] /\ Cleaned(r) \in [1..n -> Seq(Symbols)]
  BY <1>2, <1>6 DEF Ended, Cleaned
<1>8. /\ Ended(r) \in Seq(Seq(Symbols)) /\ Len(Ended(r)) = n
      /\ Cleaned(r) \in Seq(Seq(Symbols)) /\ Len(Cleaned(r)) = n
  <2>1. Ended(r) \in Seq(Seq(Symbols)) /\ Len(Ended(r)) = n
    <3>1. n \in Nat /\ Ended(r) \in [1..n -> Seq(Symbols)] /\ DOMAIN Ended(r) = 1..n
      BY <1>2, <1>7
    <3>2. Ended(r) \in Seq(Seq(Symbols))
      BY <3>1, SeqDef
    <3>3. Len(Ended(r)) \in Nat /\ DOMAIN Ended(r) = 1..Len(Ended(r))
      BY <3>2, LenProperties
    <3> QED BY <3>1, <3>2, <3>3, SameLength
  <2>2. Cleaned(r) \in Seq(Seq(Symbols)) /\ Len(Cleaned(r)) = n
    <3>1. n \in Nat /\ Cleaned(r) \in [1..n -> Seq(Symbols)] /\ DOMAIN Cleaned(r) = 1..n
      BY <1>2, <1>7
    <3>2. Cleaned(r) \in Seq(Seq(Symbols))
      BY <3>1, SeqDef
    <3>3. Len(Cleaned(r)) \in Nat /\ DOMAIN Cleaned(r) = 1..Len(Cleaned(r))
      BY <3>2, LenProperties
    <3> QED BY <3>1, <3>2, <3>3, SameLength
  <2> QED BY <2>1, <2>2
<1>9. HeadOf(r) = FlattenSeq(Ended(r)) \o <<"n">> /\ CleanHead(r) = FlattenSeq(Cleaned(r)) \o <<"n">>
  BY DEF HeadOf, CleanHead, Ended, Cleaned
<1> QED BY <1>2, <1>5, <1>8, <1>9

\* The head does not end with a line that is not empty, but with the next.
LEMMA NoEnd ==
    ASSUME NEW h \in Seq(Symbols), NEW x \in Seq(Symbols), HeaderEnds(h) = {}, IsLine(x)
    PROVE  HeaderEnds(h \o x) = {}
<1> DEFINE u == h \o x
<1>1. Len(h) \in Nat /\ Len(x) \in Nat
  BY LenProperties
<1>2. /\ u \in Seq(Symbols) /\ Len(u) = Len(h) + Len(x)
      /\ \A i \in 1..Len(h) : u[i] = h[i]
      /\ \A i \in 1..Len(x) : u[Len(h) + i] = x[i]
  BY Concat
<1> HIDE DEF u
<1>3. ASSUME NEW i \in 2..Len(u), u[i - 1] = "n", u[i] = "n" PROVE FALSE
  <2>1. CASE i <= Len(h)
    <3>1. i \in 1..Len(h) /\ i - 1 \in 1..Len(h) /\ i \in 2..Len(h)
      BY <1>1, <2>1
    <3>2. h[i] = "n" /\ h[i - 1] = "n"
      BY <1>2, <1>3, <3>1
    <3> QED BY <3>1, <3>2 DEF HeaderEnds
  <2>2. CASE i > Len(h) /\ i < Len(u)
    <3>1. i - Len(h) \in 1..(Len(x) - 1) /\ i - Len(h) \in 1..Len(x)
          /\ Len(h) + (i - Len(h)) = i
      BY <1>1, <1>2, <2>2
    <3> QED BY <1>2, <1>3, <3>1 DEF IsLine
  <2>3. CASE i > Len(h) /\ i = Len(u)
    <3>1. /\ (i - 1) - Len(h) \in 1..(Len(x) - 1) /\ (i - 1) - Len(h) \in 1..Len(x)
          /\ Len(h) + ((i - 1) - Len(h)) = i - 1
      BY <1>1, <1>2, <2>3 DEF IsLine
    <3> QED BY <1>2, <1>3, <3>1 DEF IsLine
  <2> QED BY <1>1, <1>2, <2>1, <2>2, <2>3
<1>4. HeaderEnds(u) = {}
  BY <1>3 DEF HeaderEnds
<1> QED BY <1>4 DEF u

\* An empty line after a text in which no head ends makes the one place where a head ends.
LEMMA End ==
    ASSUME NEW h \in Seq(Symbols), HeaderEnds(h) = {}, h # <<>>, h[Len(h)] = "n"
    PROVE  LET u == h \o <<"n">> IN HeaderEnds(u) = {Len(u)}
<1> DEFINE e == <<"n">>
           u == h \o e
<1>1. Len(h) \in Nat \ {0}
  BY EmptySeq
<1>2. e \in Seq(Symbols) /\ Len(e) = 1 /\ e[1] = "n"
  BY LineEnd
<1>a. e \in Seq(Symbols)
  BY <1>2
<1> HIDE DEF e
<1>3. /\ u \in Seq(Symbols) /\ Len(u) = Len(h) + Len(e)
      /\ \A i \in 1..Len(h) : u[i] = h[i]
      /\ \A i \in 1..Len(e) : u[Len(h) + i] = e[i]
  BY <1>a, Concat
<1> HIDE DEF u
<1>4. Len(u) = Len(h) + 1 /\ u[Len(u)] = "n" /\ u[Len(u) - 1] = "n"
  <2>1. 1 \in 1..Len(e) /\ Len(h) \in 1..Len(h) /\ Len(u) - 1 = Len(h)
    BY <1>1, <1>2, <1>3
  <2> QED BY <1>2, <1>3, <2>1
<1>5. Len(u) \in HeaderEnds(u)
  BY <1>1, <1>4 DEF HeaderEnds
<1>6. ASSUME NEW i \in HeaderEnds(u) PROVE i = Len(u)
  <2>1. i \in 2..Len(u) /\ u[i - 1] = "n" /\ u[i] = "n"
    BY DEF HeaderEnds
  <2>2. CASE i <= Len(h)
    <3>1. i \in 1..Len(h) /\ i - 1 \in 1..Len(h) /\ i \in 2..Len(h)
      BY <1>1, <2>1, <2>2
    <3>2. h[i] = "n" /\ h[i - 1] = "n"
      BY <1>3, <2>1, <3>1
    <3> QED BY <3>1, <3>2 DEF HeaderEnds
  <2> QED BY <1>1, <1>4, <2>1, <2>2
<1>7. HeaderEnds(u) = {Len(u)}
  BY <1>5, <1>6
<1> QED BY <1>7 DEF u, e

\* The first k lines: none of them is the empty one, and what is left of them.
LEMMA HeadSoFar ==
    ASSUME NEW r \in Request, HasHead(r), NEW k \in 0..Len(r.lines)
    PROVE  LET h == To(Ended(r), k) IN
           /\ HeaderEnds(h) = {}
           /\ h = <<>> <=> k = 0
           /\ h = <<>> \/ h[Len(h)] = "n"
           /\ ScrubProxyHeaders(h) = To(Cleaned(r), k)
<1> DEFINE h(i) == To(Ended(r), i)
           So(i) == /\ HeaderEnds(h(i)) = {}
                    /\ h(i) = <<>> <=> i = 0
                    /\ h(i) = <<>> \/ h(i)[Len(h(i))] = "n"
                    /\ ScrubProxyHeaders(h(i)) = To(Cleaned(r), i)
           T == {i \in Nat : i \in 0..Len(r.lines) => So(i)}
<1>1. /\ Len(r.lines) \in Nat
      /\ Ended(r) \in Seq(Seq(Symbols)) /\ Len(Ended(r)) = Len(r.lines)
      /\ Cleaned(r) \in Seq(Seq(Symbols)) /\ Len(Cleaned(r)) = Len(r.lines)
  BY LinesOf
<1>2. /\ To(Ended(r), 0) = <<>>
      /\ \A i \in 0..Len(r.lines) : To(Ended(r), i) \in Seq(Symbols)
      /\ \A i \in 0..(Len(r.lines) - 1) : To(Ended(r), i + 1) = To(Ended(r), i) \o Ended(r)[i + 1]
  <2>1. Ended(r) \in Seq(Seq(Symbols))
    BY <1>1
  <2>2. /\ To(Ended(r), 0) = <<>>
        /\ \A i \in 0..Len(Ended(r)) : To(Ended(r), i) \in Seq(Symbols)
        /\ \A i \in 0..(Len(Ended(r)) - 1) : To(Ended(r), i + 1) = To(Ended(r), i) \o Ended(r)[i + 1]
    BY <2>1, ToNext
  <2> QED BY <1>1, <2>2
<1>3. /\ To(Cleaned(r), 0) = <<>>
      /\ \A i \in 0..(Len(r.lines) - 1) : To(Cleaned(r), i + 1) = To(Cleaned(r), i) \o Cleaned(r)[i + 1]
  <2>1. Cleaned(r) \in Seq(Seq(Symbols))
    BY <1>1
  <2>2. /\ To(Cleaned(r), 0) = <<>>
        /\ \A i \in 0..(Len(Cleaned(r)) - 1) : To(Cleaned(r), i + 1) = To(Cleaned(r), i) \o Cleaned(r)[i + 1]
    BY <2>1, ToNext
  <2> QED BY <1>1, <2>2
<1>4. 0 \in T
  <2>1. HeaderEnds(<<>>) = {}
    BY EmptySeq DEF HeaderEnds
  <2>2. ScrubProxyHeaders(<<>>) = <<>>
    <3>1. <<>> \in Seq(Symbols)
      BY EmptySeq
    <3>2. Kept(<<>>) \in Seq(Seq(Symbols)) /\ Len(Kept(<<>>)) = Len(<<>>)
          /\ ScrubProxyHeaders(<<>>) = FlattenSeq(Kept(<<>>))
      BY <3>1, KeptType
    <3>3. Kept(<<>>) = <<>>
      <4>1. Len(Kept(<<>>)) = 0
        BY <3>2, EmptySeq
      <4> QED BY <3>2, <4>1, EmptySeq
    <3> QED BY <3>2, <3>3, FlattenEmpty
  <2>3. So(0)
    BY <1>2, <1>3, <2>1, <2>2
  <2> HIDE DEF So
  <2> QED BY <2>3
<1>5. ASSUME NEW i \in Nat, i \in T, i + 1 \in 0..Len(r.lines) PROVE So(i + 1)
  <2> DEFINE g == h(i)
             x == Ended(r)[i + 1]
             u == g \o x
  <2>1. i \in 0..(Len(r.lines) - 1) /\ i \in 0..Len(r.lines) /\ i + 1 \in 1..Len(r.lines)
    BY <1>1, <1>5
  <2>2. So(i)
    <3> HIDE DEF So
    <3> QED BY <1>5, <2>1
  <2>3. g \in Seq(Symbols)
    BY <1>2, <2>1
  <2>4. HeaderEnds(g) = {} /\ (g = <<>> \/ g[Len(g)] = "n")
        /\ ScrubProxyHeaders(g) = To(Cleaned(r), i)
    BY <2>2
  <2>5. IsLine(x) /\ Cleaned(r)[i + 1] = IF x[1] = "V" THEN <<>> ELSE x
    BY <2>1, LinesOf
  <2>6. h(i + 1) = u
    BY <1>2, <2>1
  <2> HIDE DEF g, x, h
  <2>7. x \in Seq(Symbols) /\ x # <<>> /\ Len(x) \in Nat /\ Len(x) >= 2
        /\ \A j \in 1..(Len(x) - 1) : x[j] # "n"
    BY <2>5, EmptySeq, LenProperties DEF IsLine
  <2>8. HeaderEnds(u) = {}
    BY <2>3, <2>4, <2>5, <2>7, NoEnd
  <2>9. ScrubProxyHeaders(u) = ScrubProxyHeaders(g) \o (IF x[1] = "V" THEN <<>> ELSE x)
    <3>1. g = <<>> \/ g[Len(g)] = "n"
      BY <2>4
    <3> QED BY <2>3, <2>7, <3>1, ScrubLine
  <2>10. u # <<>> /\ u[Len(u)] = "n"
    <3>1. x \in Seq(Symbols)
      BY <2>7
    <3>2. /\ Len(u) = Len(g) + Len(x) /\ Len(g) \in Nat
          /\ \A j \in 1..Len(x) : u[Len(g) + j] = x[j]
      BY <2>3, <3>1, Concat, LenProperties
    <3>3. Len(x) \in 1..Len(x) /\ Len(u) # 0
      BY <2>7, <3>2
    <3> HIDE DEF u
    <3>4. u[Len(u)] = "n"
      BY <2>5, <3>2, <3>3 DEF IsLine
    <3> QED BY <3>3, <3>4, EmptySeq
  <2>11. ScrubProxyHeaders(u) = To(Cleaned(r), i + 1)
    BY <1>3, <2>1, <2>4, <2>5, <2>9
  <2> HIDE DEF u
  <2> QED BY <2>6, <2>8, <2>10, <2>11
<1>6. \A i \in Nat : i \in T => i + 1 \in T
  <2> HIDE DEF So
  <2> QED BY <1>5
<1>7. \A i \in Nat : i \in T
  <2> HIDE DEF T
  <2> QED BY <1>4, <1>6, Induction
<1>8. So(k)
  <2> HIDE DEF So
  <2> QED BY <1>1, <1>7
<1> QED BY <1>8

\* Methods are two symbols, and none of them ends a line.
LEMMA MethodType ==
    \A m \in Methods :
        m \in Seq(Symbols) /\ Len(m) = 2 /\ \A i \in 1..2 : m[i] # "n"
<1> SUFFICES ASSUME NEW m \in Methods
             PROVE  m \in Seq(Symbols) /\ Len(m) = 2 /\ \A i \in 1..2 : m[i] # "n"
  OBVIOUS
<1>1. "P" \in Symbols /\ "O" \in Symbols /\ "U" \in Symbols
  BY DEF Symbols
<1>2. <<"P", "O">> \in Seq(Symbols) /\ <<"P", "U">> \in Seq(Symbols)
  BY <1>1
<1>3. m = <<"P", "O">> \/ m = <<"P", "U">>
  BY DEF Methods
<1>4. m \in Seq(Symbols)
  BY <1>2, <1>3
<1> QED BY <1>3, <1>4

\* A head ends where its empty line ends and nowhere before; what is removed
\* from it are the lines of proxy headers; and it begins with a method.
LEMMA HeadScanned ==
    ASSUME NEW r \in Request, HasHead(r)
    PROVE  /\ HeadOf(r) \in Seq(Symbols)
           /\ HeaderEnds(HeadOf(r)) = {Len(HeadOf(r))}
           /\ ScrubProxyHeaders(HeadOf(r)) = CleanHead(r)
           /\ \E m \in Methods : IsPrefix(m, HeadOf(r))
<1> DEFINE n == Len(r.lines)
           h == To(Ended(r), n)
           e == <<"n">>
           lines == Ended(r)
<1>1. /\ n \in Nat \ {0}
      /\ lines \in Seq(Seq(Symbols)) /\ Len(lines) = n
      /\ Cleaned(r) \in Seq(Seq(Symbols)) /\ Len(Cleaned(r)) = n
      /\ HeadOf(r) = FlattenSeq(lines) \o e /\ CleanHead(r) = FlattenSeq(Cleaned(r)) \o e
      /\ \A i \in 1..n : IsLine(lines[i]) /\ IsPrefix(r.lines[i], lines[i])
  BY LinesOf
<1>2. FlattenSeq(lines) = h /\ FlattenSeq(Cleaned(r)) = To(Cleaned(r), n)
  BY <1>1, ToNext
<1>3. h \in Seq(Symbols)
  BY <1>1, <1>2, FlattenType
<1>4. HeaderEnds(h) = {} /\ h # <<>> /\ h[Len(h)] = "n"
      /\ ScrubProxyHeaders(h) = To(Cleaned(r), n)
  <2>1. n \in 0..Len(r.lines)
    BY <1>1
  <2> QED BY <1>1, <2>1, HeadSoFar
<1>5. e \in Seq(Symbols) /\ Len(e) = 1 /\ e[1] = "n"
  BY LineEnd
<1>6. HeadOf(r) = h \o e
  BY <1>1, <1>2
<1>7. \E m \in Methods : IsPrefix(m, HeadOf(r))
  <2>1. PICK m \in Methods : IsPrefix(m, r.lines[1])
    BY DEF HasHead
  <2>2. m \in Seq(Symbols)
    BY MethodType
  <2>3. r.lines[1] \in Seq(Symbols)
    BY <1>1, ElementOfSeq DEF Request
  <2>4. lines[1] \in Seq(Symbols) /\ IsPrefix(r.lines[1], lines[1])
    <3>1. 1 \in 1..n /\ \A i \in 1..n : IsLine(lines[i]) /\ IsPrefix(r.lines[i], lines[i])
      BY <1>1
    <3> HIDE DEF lines, n
    <3> QED BY <3>1 DEF IsLine
  <2>5. To(lines, 1) = lines[1]
    <3>1. 0 \in 0..(Len(lines) - 1) /\ 0 + 1 = 1
      BY <1>1
    <3>2. To(lines, 0 + 1) = To(lines, 0) \o lines[0 + 1] /\ To(lines, 0) = <<>>
      BY <1>1, <3>1, ToNext
    <3> HIDE DEF lines
    <3> QED BY <2>4, <3>1, <3>2, ConcatEmptySeq
  <2>6. IsPrefix(To(lines, 1), FlattenSeq(lines))
    <3>1. 1 \in 0..Len(lines)
      BY <1>1
    <3> QED BY <1>1, <3>1, ToPrefix
  <2>7. IsPrefix(h, HeadOf(r))
    BY <1>3, <1>5, <1>6, PrefixOfConcat
  <2>8. HeadOf(r) \in Seq(Symbols)
    BY <1>3, <1>5, <1>6, Concat
  <2>a. IsPrefix(lines[1], h)
    BY <1>2, <2>5, <2>6
  <2> HIDE DEF h, lines
  <2>9. IsPrefix(m, lines[1])
    BY <2>1, <2>2, <2>3, <2>4, PrefixTransitive
  <2>10. IsPrefix(m, h)
    BY <1>3, <2>2, <2>4, <2>9, <2>a, PrefixTransitive
  <2>11. IsPrefix(m, HeadOf(r))
    BY <1>3, <2>2, <2>7, <2>8, <2>10, PrefixTransitive
  <2> QED BY <2>11
<1>8. HeaderEnds(HeadOf(r)) = {Len(HeadOf(r))}
  <2> HIDE DEF h
  <2> QED BY <1>3, <1>4, <1>6, End
<1>9. ScrubProxyHeaders(h \o e) = ScrubProxyHeaders(h) \o (IF e[1] = "V" THEN <<>> ELSE e)
  <2>1. e # <<>> /\ \A i \in 1..(Len(e) - 1) : e[i] # "n"
    BY <1>5, EmptySeq
  <2>2. h = <<>> \/ h[Len(h)] = "n"
    BY <1>4
  <2>3. e \in Seq(Symbols)
    BY <1>5
  <2> HIDE DEF e, h
  <2> QED BY <1>3, <2>1, <2>2, <2>3, ScrubLine
<1>10. ScrubProxyHeaders(HeadOf(r)) = CleanHead(r)
  BY <1>1, <1>2, <1>4, <1>5, <1>6, <1>9
<1> QED BY <1>3, <1>5, <1>6, <1>7, <1>8, <1>10, Concat

(***************************************************************************)
(* What a head says of the body.                                           *)
(***************************************************************************)

\* What lines begin with in u.
Starts(u) == {u[i] : i \in LineStarts(u)}

\* A line adds the symbol it begins with.
LEMMA StartsLine ==
    ASSUME NEW h \in Seq(Symbols), NEW x \in Seq(Symbols), x # <<>>,
           h = <<>> \/ h[Len(h)] = "n",
           \A j \in 1..(Len(x) - 1) : x[j] # "n"
    PROVE  Starts(h \o x) = Starts(h) \cup {x[1]}
<1> DEFINE u == h \o x
<1>1. Len(h) \in Nat /\ Len(x) \in Nat \ {0} /\ (h = <<>> <=> Len(h) = 0)
  BY LenProperties, EmptySeq
<1>2. /\ Len(u) = Len(h) + Len(x)
      /\ \A i \in 1..Len(h) : u[i] = h[i]
      /\ \A i \in 1..Len(x) : u[Len(h) + i] = x[i]
  BY Concat
<1> HIDE DEF u
<1>3. ASSUME NEW i \in LineStarts(u) PROVE u[i] \in Starts(h) \cup {x[1]}
  <2>1. i \in 1..Len(u) /\ (i = 1 \/ u[i - 1] = "n")
    BY DEF LineStarts
  <2>2. CASE i <= Len(h)
    <3>1. i \in 1..Len(h) /\ (i # 1 => i - 1 \in 1..Len(h))
      BY <1>1, <2>1, <2>2
    <3>2. i = 1 \/ h[i - 1] = "n"
      BY <1>2, <2>1, <3>1
    <3> QED BY <1>2, <3>1, <3>2 DEF LineStarts, Starts
  <2>3. CASE i = Len(h) + 1
    <3>1. 1 \in 1..Len(x)
      BY <1>1
    <3> QED BY <1>2, <2>3, <3>1
  <2>4. CASE i > Len(h) + 1
    <3> DEFINE m == (i - 1) - Len(h)
    <3>1. m \in 1..(Len(x) - 1) /\ m \in 1..Len(x) /\ Len(h) + m = i - 1 /\ i # 1
      BY <1>1, <1>2, <2>1, <2>4
    <3> HIDE DEF m
    <3>2. u[Len(h) + m] = x[m] /\ x[m] # "n"
      BY <1>2, <3>1
    <3>3. u[i - 1] = x[m]
      BY <3>1, <3>2
    <3> QED BY <2>1, <3>1, <3>2, <3>3
  <2> QED BY <1>1, <2>1, <2>2, <2>3, <2>4
<1>4. ASSUME NEW i \in LineStarts(h) PROVE h[i] \in Starts(u)
  <2>1. i \in 1..Len(h) /\ (i = 1 \/ h[i - 1] = "n")
    BY DEF LineStarts
  <2>2. i \in 1..Len(u) /\ (i # 1 => i - 1 \in 1..Len(h))
    BY <1>1, <1>2, <2>1
  <2>3. i = 1 \/ u[i - 1] = "n"
    BY <1>2, <2>1, <2>2
  <2> QED BY <1>2, <2>1, <2>2, <2>3 DEF LineStarts, Starts
<1>5. x[1] \in Starts(u)
  <2>1. 1 \in 1..Len(x) /\ Len(h) + 1 \in 1..Len(u) /\ (Len(h) + 1) - 1 = Len(h)
        /\ (Len(h) # 0 => Len(h) \in 1..Len(h))
    BY <1>1, <1>2
  <2>2. Len(h) + 1 = 1 \/ u[(Len(h) + 1) - 1] = "n"
    BY <1>1, <1>2, <2>1
  <2> QED BY <1>2, <2>1, <2>2 DEF LineStarts, Starts
<1>6. Starts(u) = Starts(h) \cup {x[1]}
  BY <1>3, <1>4, <1>5 DEF Starts
<1> QED BY <1>6 DEF u

\* The lines of a head begin with its headers, and the last with its end.
LEMMA StartsOfHead ==
    ASSUME NEW r \in Request, HasHead(r)
    PROVE  Starts(HeadOf(r)) = Headers(r) \cup {"n"}
<1> DEFINE n == Len(r.lines)
           h(k) == To(Ended(r), k)
           First(k) == {Head(r.lines[j]) : j \in 1..k}
           So(k) == Starts(h(k)) = First(k)
           T == {k \in Nat : k \in 0..n => So(k)}
<1>1. /\ n \in Nat /\ Ended(r) \in Seq(Seq(Symbols)) /\ Len(Ended(r)) = n
      /\ HeadOf(r) = FlattenSeq(Ended(r)) \o <<"n">>
      /\ \A i \in 1..n : IsLine(Ended(r)[i])
  BY LinesOf
<1>2. /\ h(0) = <<>> /\ h(n) = FlattenSeq(Ended(r))
      /\ \A k \in 0..n : h(k) \in Seq(Symbols)
      /\ \A k \in 0..(n - 1) : h(k + 1) = h(k) \o Ended(r)[k + 1]
  BY <1>1, ToNext
<1>3. \A k \in 0..n : h(k) = <<>> \/ h(k)[Len(h(k))] = "n"
  BY HeadSoFar
<1>4. \A i \in 1..n : Ended(r)[i][1] = Head(r.lines[i])
  <2> SUFFICES ASSUME NEW i \in 1..n PROVE Ended(r)[i][1] = Head(r.lines[i])
    OBVIOUS
  <2>1. r.lines \in Seq(Seq(Symbols))
    BY DEF Request
  <2>2. i \in DOMAIN r.lines /\ r.lines[i] \in Seq(Symbols)
    BY <2>1, LenProperties, ElementOfSeq
  <2>3. r.lines[i] # <<>> /\ "n" \notin ToSet(r.lines[i]) /\ Ended(r)[i] = r.lines[i] \o <<"n">>
    BY <2>2 DEF HasHead, Ended
  <2> QED BY <2>2, <2>3, LineEnded
<1> HIDE DEF h, n
<1>5. 0 \in T
  <2>1. Starts(<<>>) = {}
    BY EmptySeq DEF Starts, LineStarts
  <2> QED BY <1>2, <2>1
<1>6. ASSUME NEW k \in Nat, k \in T, k + 1 \in 0..n PROVE So(k + 1)
  <2>1. k \in 0..n /\ k \in 0..(n - 1) /\ k + 1 \in 1..n /\ 1..(k + 1) = (1..k) \cup {k + 1}
    BY <1>1, <1>6
  <2> DEFINE x == Ended(r)[k + 1]
  <2>2. /\ x \in Seq(Symbols) /\ x # <<>> /\ \A j \in 1..(Len(x) - 1) : x[j] # "n"
        /\ x[1] = Head(r.lines[k + 1])
    BY <1>1, <1>4, <2>1, EmptySeq DEF IsLine
  <2>3. h(k) \in Seq(Symbols) /\ (h(k) = <<>> \/ h(k)[Len(h(k))] = "n") /\ h(k + 1) = h(k) \o x
    BY <1>2, <1>3, <2>1
  <2> HIDE DEF x
  <2>4. Starts(h(k) \o x) = Starts(h(k)) \cup {x[1]}
    <3> DEFINE g == h(k)
    <3>1. g \in Seq(Symbols) /\ (g = <<>> \/ g[Len(g)] = "n")
      BY <2>3
    <3> HIDE DEF g
    <3>2. Starts(g \o x) = Starts(g) \cup {x[1]}
      BY <2>2, <3>1, StartsLine
    <3> QED BY <3>2 DEF g
  <2>5. Starts(h(k)) = First(k)
    BY <1>6, <2>1
  <2>6. First(k + 1) = First(k) \cup {Head(r.lines[k + 1])}
    BY <2>1
  <2> QED BY <2>2, <2>3, <2>4, <2>5, <2>6
<1>7. \A k \in Nat : k \in T
  <2>1. \A k \in Nat : k \in T => k + 1 \in T
    <3> HIDE DEF So
    <3> QED BY <1>6
  <2> HIDE DEF T
  <2> QED BY <1>5, <2>1, Induction
<1>8. Starts(h(n)) = First(n)
  BY <1>1, <1>7
<1>9. First(n) = Headers(r)
  <2>1. r.lines \in Seq(Seq(Symbols))
    BY DEF Request
  <2>2. DOMAIN r.lines = 1..n
    BY <2>1, LenProperties DEF n
  <2> QED BY <2>2 DEF Headers
<1>10. Starts(h(n) \o <<"n">>) = Starts(h(n)) \cup {"n"}
  <2> DEFINE g == h(n)
             e == <<"n">>
  <2>1. g \in Seq(Symbols) /\ (g = <<>> \/ g[Len(g)] = "n")
    BY <1>1, <1>2, <1>3
  <2>2. e \in Seq(Symbols) /\ e # <<>> /\ e[1] = "n" /\ \A j \in 1..(Len(e) - 1) : e[j] # "n"
    BY LineEnd, EmptySeq
  <2> HIDE DEF g, e
  <2>3. Starts(g \o e) = Starts(g) \cup {e[1]}
    BY <2>1, <2>2, StartsLine
  <2> QED BY <2>2, <2>3 DEF g, e
<1> QED BY <1>1, <1>2, <1>8, <1>9, <1>10

\* bodyPlan finds what the request declares.
LEMMA BodyPlanned ==
    ASSUME NEW r \in Request, HasHead(r)
    PROVE  /\ UntrackableBody(HeadOf(r)) <=> Untrackable(r)
           /\ HasLength(r) => BodyLength(HeadOf(r)) = Len(r.body)
<1> DEFINE head == HeadOf(r)
           D == {i \in LineStarts(head) : head[i] \in DOMAIN ContentLength}
<1>1. Starts(head) = Headers(r) \cup {"n"}
  BY StartsOfHead
<1>2. "n" # "K" /\ "n" \notin DOMAIN ContentLength
  BY DEF ContentLength
<1>3. head \in Seq(Symbols)
  BY HeadScanned
<1> HIDE DEF head
<1>4. UntrackableBody(head) <=> Untrackable(r)
  BY <1>1, <1>2 DEF UntrackableBody, Untrackable, Starts
<1>5. ASSUME HasLength(r) PROVE BodyLength(head) = Len(r.body)
  <2>1. CASE D = {}
    <3>1. Headers(r) \cap DOMAIN ContentLength = {}
      BY <1>1, <2>1 DEF Starts
    <3>2. Len(r.body) = 0
      BY <1>5, <3>1, EmptySeq DEF HasLength
    <3> QED BY <2>1, <3>2 DEF BodyLength
  <2>2. CASE D # {}
    <3>1. Len(head) \in Nat /\ \A i \in D : i \in 0..Len(head)
      BY <1>3, LenProperties DEF LineStarts
    <3>2. Max(D) \in D
      <4> HIDE DEF D
      <4> QED BY <2>2, <3>1, GreatestElement
    <3>3. head[Max(D)] \in Starts(head) /\ head[Max(D)] \in DOMAIN ContentLength
      BY <3>2 DEF Starts
    <3>4. head[Max(D)] \in Headers(r) \cap DOMAIN ContentLength
      BY <1>1, <1>2, <3>3
    <3>5. Len(r.body) = ContentLength[head[Max(D)]]
      BY <1>5, <3>4 DEF HasLength
    <3> QED BY <2>2, <3>5 DEF BodyLength
  <2> QED BY <2>1, <2>2
<1> QED BY <1>4, <1>5 DEF head

(***************************************************************************)
(* Where the requests of a well-formed connection lie.                     *)
(***************************************************************************)

Raws(c) == [i \in DOMAIN c.requests |-> Raw(c.requests[i])]

Cleans(c) == [i \in DOMAIN c.requests |-> Clean(c.requests[i])]

\* Where the first k requests end, and what is left of them.
At(c, k) == Len(To(Raws(c), k))

CleanTo(c, k) == To(Cleans(c), k)

\* What a well-formed connection consists of.
LEMMA Requests ==
    ASSUME NEW c, WellFormed(c)
    PROVE  /\ Len(c.requests) \in Nat /\ c.rest \in Seq(Symbols)
           /\ \A i \in 1..Len(c.requests) :
                 LET r == c.requests[i] IN
                 /\ r \in Request /\ HasHead(r)
                 /\ HeadOf(r) \in Seq(Symbols) /\ CleanHead(r) \in Seq(Symbols)
                 /\ r.body \in Seq(Symbols)
                 /\ Raw(r) \in Seq(Symbols) /\ Clean(r) \in Seq(Symbols)
           /\ Raws(c) \in Seq(Seq(Symbols)) /\ Len(Raws(c)) = Len(c.requests)
           /\ Cleans(c) \in Seq(Seq(Symbols)) /\ Len(Cleans(c)) = Len(c.requests)
<1> DEFINE n == Len(c.requests)
<1>1. /\ c.requests \in Seq(Request) /\ c.rest \in Seq(Symbols)
      /\ \A i \in DOMAIN c.requests : HasHead(c.requests[i])
  BY DEF WellFormed
<1>2. n \in Nat /\ DOMAIN c.requests = 1..n /\ \A i \in 1..n : c.requests[i] \in Request
  BY <1>1, LenProperties, ElementOfSeq
<1>3. ASSUME NEW i \in 1..n
      PROVE  LET r == c.requests[i] IN
                 /\ r \in Request /\ HasHead(r)
                 /\ HeadOf(r) \in Seq(Symbols) /\ CleanHead(r) \in Seq(Symbols)
                 /\ r.body \in Seq(Symbols)
                 /\ Raw(r) \in Seq(Symbols) /\ Clean(r) \in Seq(Symbols)
  <2> DEFINE r == c.requests[i]
  <2>1. r \in Request /\ HasHead(r)
    BY <1>1, <1>2
  <2> HIDE DEF r
  <2>2. HeadOf(r) \in Seq(Symbols) /\ ScrubProxyHeaders(HeadOf(r)) = CleanHead(r)
    BY <2>1, HeadScanned
  <2>3. CleanHead(r) \in Seq(Symbols)
    <3>1. ScrubProxyHeaders(HeadOf(r)) \in Seq(Symbols)
      BY <2>2, KeptType
    <3> QED BY <2>2, <3>1
  <2>4. r.body \in Seq(Symbols)
    BY <2>1 DEF Request
  <2>5. Raw(r) \in Seq(Symbols)
    <3>1. HeadOf(r) \in Seq(Symbols)
      BY <2>2
    <3> QED BY <2>4, <3>1, Concat DEF Raw
  <2>6. Clean(r) \in Seq(Symbols)
    BY <2>3, <2>4, Concat DEF Clean
  <2> QED BY <2>1, <2>2, <2>3, <2>4, <2>5, <2>6 DEF r
<1>4. \A i \in 1..n : Raw(c.requests[i]) \in Seq(Symbols) /\ Clean(c.requests[i]) \in Seq(Symbols)
  BY <1>3
<1>5. Raws(c) \in Seq(Seq(Symbols)) /\ Len(Raws(c)) = n
  <2>1. Raws(c) \in [1..n -> Seq(Symbols)] /\ DOMAIN Raws(c) = 1..n
    BY <1>2, <1>4 DEF Raws
  <2>2. Raws(c) \in Seq(Seq(Symbols))
    BY <1>2, <2>1, SeqDef
  <2>3. Len(Raws(c)) \in Nat /\ DOMAIN Raws(c) = 1..Len(Raws(c))
    BY <2>2, LenProperties
  <2> QED BY <1>2, <2>1, <2>2, <2>3, SameLength
<1>6. Cleans(c) \in Seq(Seq(Symbols)) /\ Len(Cleans(c)) = n
  <2>1. Cleans(c) \in [1..n -> Seq(Symbols)] /\ DOMAIN Cleans(c) = 1..n
    BY <1>2, <1>4 DEF Cleans
  <2>2. Cleans(c) \in Seq(Seq(Symbols))
    BY <1>2, <2>1, SeqDef
  <2>3. Len(Cleans(c)) \in Nat /\ DOMAIN Cleans(c) = 1..Len(Cleans(c))
    BY <2>2, LenProperties
  <2> QED BY <1>2, <2>1, <2>2, <2>3, SameLength
<1> QED BY <1>1, <1>2, <1>3, <1>5, <1>6

\* The positions are positions of what is sent.
LEMMA Positions ==
    ASSUME NEW c, WellFormed(c)
    PROVE  /\ Sends(c) \in Seq(Symbols) /\ Len(Sends(c)) \in Nat
           /\ \A k \in 0..Len(c.requests) :
                 /\ At(c, k) \in Nat /\ At(c, k) <= Len(Sends(c))
                 /\ CleanTo(c, k) \in Seq(Symbols)
           /\ At(c, 0) = 0 /\ CleanTo(c, 0) = <<>>
           /\ Between(Sends(c), At(c, Len(c.requests)), Len(Sends(c))) = c.rest
<1> DEFINE raws == Raws(c)
           n == Len(c.requests)
           flat == FlattenSeq(raws)
           all == flat \o c.rest
<1>1. /\ raws \in Seq(Seq(Symbols)) /\ Len(raws) = n /\ n \in Nat
      /\ Cleans(c) \in Seq(Seq(Symbols)) /\ Len(Cleans(c)) = n
      /\ c.rest \in Seq(Symbols)
  BY Requests
<1>2. Sends(c) = all
  BY DEF Sends, Raws
<1>3. raws \in Seq(Seq(Symbols)) /\ Cleans(c) \in Seq(Seq(Symbols)) /\ c.rest \in Seq(Symbols)
  BY <1>1
<1> HIDE DEF raws
<1>4. flat \in Seq(Symbols) /\ To(raws, 0) = <<>> /\ To(raws, Len(raws)) = flat
      /\ \A k \in 0..Len(raws) : To(raws, k) \in Seq(Symbols) /\ IsPrefix(To(raws, k), flat)
  BY <1>3, FlattenType, ToNext, ToPrefix
<1>5. To(Cleans(c), 0) = <<>> /\ \A k \in 0..Len(Cleans(c)) : To(Cleans(c), k) \in Seq(Symbols)
  BY <1>3, ToNext
<1> HIDE DEF flat
<1>6. flat \in Seq(Symbols) /\ c.rest \in Seq(Symbols)
  BY <1>3, <1>4
<1>7. all \in Seq(Symbols) /\ Len(all) = Len(flat) + Len(c.rest)
      /\ Len(flat) \in Nat /\ Len(c.rest) \in Nat
  BY <1>6, Concat, LenProperties
<1>8. Between(all, Len(flat), Len(flat) + Len(c.rest)) = c.rest
  BY <1>6, HalvesOfConcat
<1> HIDE DEF all
<1>9. ASSUME NEW k \in 0..n PROVE At(c, k) \in Nat /\ At(c, k) <= Len(flat)
  <2>1. To(raws, k) \in Seq(Symbols) /\ IsPrefix(To(raws, k), flat)
    BY <1>1, <1>4
  <2>2. Len(To(raws, k)) \in Nat
    BY <2>1, LenProperties
  <2> QED BY <2>1, <2>2 DEF At, IsPrefix, raws
<1>10. At(c, n) = Len(flat) /\ At(c, 0) = 0
  <2>1. Len(<<>>) = 0
    BY EmptySeq
  <2> QED BY <1>1, <1>4, <2>1 DEF At, raws
<1>11. \A k \in 0..n : At(c, k) \in Nat /\ At(c, k) <= Len(all)
  BY <1>7, <1>9
<1>12. CleanTo(c, 0) = <<>> /\ \A k \in 0..n : CleanTo(c, k) \in Seq(Symbols)
  BY <1>1, <1>5 DEF CleanTo
<1> QED BY <1>2, <1>7, <1>8, <1>10, <1>11, <1>12

\* A request consists of its head and its body.
LEMMA RequestAt ==
    ASSUME NEW c, WellFormed(c), NEW k \in 0..(Len(c.requests) - 1)
    PROVE  LET r == c.requests[k + 1]
               b == At(c, k) + Len(HeadOf(r)) IN
           /\ At(c, k + 1) = b + Len(r.body)
           /\ Len(HeadOf(r)) \in Nat /\ Len(r.body) \in Nat
           /\ Between(Sends(c), At(c, k), At(c, k + 1)) = Raw(r)
           /\ Between(Sends(c), At(c, k), b) = HeadOf(r)
           /\ Between(Sends(c), b, At(c, k + 1)) = r.body
           /\ CleanTo(c, k + 1) = CleanTo(c, k) \o Clean(r)
<1> DEFINE raws == Raws(c)
           flat == FlattenSeq(raws)
           n == Len(c.requests)
           r == c.requests[k + 1]
           head == HeadOf(r)
           body == r.body
           i == At(c, k)
           j == At(c, k + 1)
           all == Sends(c)
           raw == head \o body
           b == i + Len(head)
<1>1. /\ raws \in Seq(Seq(Symbols)) /\ Len(raws) = n /\ n \in Nat
      /\ Cleans(c) \in Seq(Seq(Symbols)) /\ Len(Cleans(c)) = n
      /\ c.rest \in Seq(Symbols)
  BY Requests
<1>2. k \in 0..(n - 1) /\ k \in 0..n /\ k + 1 \in 0..n /\ k + 1 \in 1..n
  BY <1>1
<1>3. head \in Seq(Symbols) /\ body \in Seq(Symbols)
  BY <1>2, Requests
<1>4. raws[k + 1] = raw /\ Cleans(c)[k + 1] = Clean(r) /\ Raw(r) = raw
  <2>1. DOMAIN c.requests = 1..n
    BY LenProperties DEF WellFormed
  <2> QED BY <1>2, <2>1 DEF Raws, Cleans, Raw
<1>5. CleanTo(c, k + 1) = CleanTo(c, k) \o Clean(r)
  <2>1. Cleans(c) \in Seq(Seq(Symbols)) /\ k \in 0..(Len(Cleans(c)) - 1)
    BY <1>1, <1>2
  <2>2. To(Cleans(c), k + 1) = To(Cleans(c), k) \o Cleans(c)[k + 1]
    BY <2>1, ToNext
  <2> QED BY <1>4, <2>2 DEF CleanTo
<1>6. all \in Seq(Symbols) /\ all = flat \o c.rest
  BY Positions DEF Sends, Raws
<1>7. flat \in Seq(Symbols) /\ c.rest \in Seq(Symbols) /\ raws \in Seq(Seq(Symbols))
  BY <1>1, FlattenType
<1>8. j = i + Len(raw) /\ Between(flat, i, j) = raw
  <2>1. k \in 0..(Len(raws) - 1)
    BY <1>1, <1>2
  <2>2. /\ Len(To(raws, k + 1)) = Len(To(raws, k)) + Len(raws[k + 1])
        /\ Between(flat, Len(To(raws, k)), Len(To(raws, k + 1))) = raws[k + 1]
    BY <1>7, <2>1, ToElement
  <2> QED BY <1>4, <2>2 DEF At
<1>9. i \in Nat /\ j \in Nat /\ j <= Len(flat)
  <2>1. i \in Nat /\ j \in Nat
    BY <1>2, Positions
  <2>2. IsPrefix(To(raws, k + 1), flat)
    BY <1>1, <1>2, <1>7, ToPrefix
  <2> QED BY <2>1, <2>2 DEF At, IsPrefix
<1>10. Between(all, 0, Len(flat)) = flat /\ Len(flat) \in Nat /\ Len(flat) <= Len(all)
  <2> HIDE DEF flat, all
  <2>1. Between(flat \o c.rest, 0, Len(flat)) = flat
    BY <1>7, HalvesOfConcat
  <2>2. Len(flat) \in Nat /\ Len(c.rest) \in Nat /\ Len(flat \o c.rest) = Len(flat) + Len(c.rest)
    BY <1>7, LenProperties, Concat
  <2> QED BY <1>6, <2>1, <2>2
<1>11. raw \in Seq(Symbols) /\ Len(raw) = Len(head) + Len(body)
       /\ Len(head) \in Nat /\ Len(body) \in Nat
       /\ Between(raw, 0, Len(head)) = head
       /\ Between(raw, Len(head), Len(head) + Len(body)) = body
  <2>1. head \in Seq(Symbols) /\ body \in Seq(Symbols)
    BY <1>3
  <2> HIDE DEF head, body
  <2>2. raw \in Seq(Symbols) /\ Len(raw) = Len(head) + Len(body)
    BY <2>1, Concat
  <2>3. /\ Between(raw, 0, Len(head)) = head
        /\ Between(raw, Len(head), Len(head) + Len(body)) = body
    BY <2>1, HalvesOfConcat
  <2> QED BY <2>1, <2>2, <2>3, LenProperties
<1> HIDE DEF raws, flat, n, r, head, body, i, j, all, raw
<1>12. Between(all, i, j) = raw
  <2>1. Between(Between(all, 0, Len(flat)), i, j) = Between(all, 0 + i, 0 + j)
    <3>1. all \in Seq(Symbols) /\ 0 \in Nat /\ 0 <= Len(flat) /\ i <= j /\ 0 + j <= Len(flat)
          /\ Len(flat) \in Nat /\ Len(flat) <= Len(all) /\ i \in Nat /\ j \in Nat
      BY <1>6, <1>8, <1>9, <1>10, <1>11
    <3> QED BY <3>1, PartOfPart
  <2>2. 0 + i = i /\ 0 + j = j
    BY <1>9
  <2> QED BY <1>8, <1>10, <2>1, <2>2
<1>13. b \in Nat /\ j = b + Len(body) /\ b <= j /\ i <= b
  BY <1>8, <1>9, <1>11
<1>14. /\ Between(raw, 0, Len(head)) = Between(all, i + 0, i + Len(head))
       /\ Between(raw, Len(head), Len(head) + Len(body))
              = Between(all, i + Len(head), i + (Len(head) + Len(body)))
  <2> HIDE DEF b
  <2>1. /\ all \in Seq(Symbols) /\ i \in Nat /\ j \in Nat /\ i <= j /\ j <= Len(all)
        /\ 0 \in Nat /\ Len(head) \in Nat /\ Len(head) + Len(body) \in Nat
        /\ 0 <= Len(head) /\ Len(head) <= Len(head) + Len(body)
        /\ i + Len(head) <= j /\ i + (Len(head) + Len(body)) <= j
    <3>1. j <= Len(flat) /\ Len(flat) <= Len(all) /\ Len(flat) \in Nat /\ Len(all) \in Nat
      BY <1>6, <1>9, <1>10, LenProperties
    <3>2. j <= Len(all)
      BY <1>9, <3>1
    <3> QED BY <1>6, <1>8, <1>9, <1>11, <3>2
  <2>2. Between(Between(all, i, j), 0, Len(head)) = Between(all, i + 0, i + Len(head))
    BY <2>1, PartOfPart
  <2>3. Between(Between(all, i, j), Len(head), Len(head) + Len(body))
              = Between(all, i + Len(head), i + (Len(head) + Len(body)))
    BY <2>1, PartOfPart
  <2> QED BY <1>12, <2>2, <2>3
<1>15. Between(all, i, b) = head /\ Between(all, b, j) = body
  <2>1. i + 0 = i /\ i + (Len(head) + Len(body)) = j
    BY <1>8, <1>9, <1>11
  <2> QED BY <1>11, <1>14, <2>1
<1> QED BY <1>4, <1>5, <1>11, <1>12, <1>13, <1>15 DEF r, head, body, i, j, all, b

\* Positions grow.
LEMMA AtGrows ==
    ASSUME NEW c, WellFormed(c), NEW j \in 0..Len(c.requests), NEW k \in 0..j
    PROVE  At(c, k) <= At(c, j)
<1> DEFINE T == {i \in Nat : i \in k..Len(c.requests) => At(c, k) <= At(c, i)}
<1>1. Len(c.requests) \in Nat /\ \A i \in 0..Len(c.requests) : At(c, i) \in Nat
  BY Positions, Requests
<1>2. 0 \in T
  BY <1>1
<1>3. ASSUME NEW i \in Nat, i \in T PROVE i + 1 \in T
  <2> SUFFICES ASSUME i + 1 \in k..Len(c.requests), i + 1 # k PROVE At(c, k) <= At(c, i + 1)
    BY <1>1
  <2>1. i \in k..Len(c.requests) /\ i \in 0..(Len(c.requests) - 1) /\ i \in 0..Len(c.requests)
    BY <1>1
  <2>2. /\ At(c, i + 1) = At(c, i) + Len(HeadOf(c.requests[i + 1])) + Len(c.requests[i + 1].body)
        /\ Len(HeadOf(c.requests[i + 1])) \in Nat /\ Len(c.requests[i + 1].body) \in Nat
    BY <2>1, RequestAt
  <2>3. At(c, k) <= At(c, i) /\ At(c, i) \in Nat /\ At(c, k) \in Nat
    BY <1>1, <1>3, <2>1
  <2> QED BY <2>2, <2>3
<1> HIDE DEF T
<1>4. \A i \in Nat : i \in T
  BY <1>2, <1>3, Induction
<1> QED BY <1>1, <1>4 DEF T

\* The connection with its first k requests cleaned, as Renderings has it.
LEMMA CleanedUpTo ==
    ASSUME NEW c, WellFormed(c), NEW k \in 0..Len(c.requests)
    PROVE  LET mixed == [i \in DOMAIN c.requests |->
                            IF i < k + 1 THEN Clean(c.requests[i]) ELSE Raw(c.requests[i])]
           IN  FlattenSeq(mixed) \o c.rest =
                   CleanTo(c, k) \o Between(Sends(c), At(c, k), Len(Sends(c)))
<1> DEFINE n == Len(c.requests)
           all == Sends(c)
           mixed == [i \in DOMAIN c.requests |->
                        IF i < k + 1 THEN Clean(c.requests[i]) ELSE Raw(c.requests[i])]
           So(j) == To(mixed, j) = IF j <= k THEN CleanTo(c, j)
                                   ELSE CleanTo(c, k) \o Between(all, At(c, k), At(c, j))
           T == {j \in Nat : j \in 0..n => So(j)}
<1>1. n \in Nat /\ DOMAIN c.requests = 1..n
  BY LenProperties, Requests DEF WellFormed
<1>2. \A i \in 1..n : Raw(c.requests[i]) \in Seq(Symbols) /\ Clean(c.requests[i]) \in Seq(Symbols)
  BY Requests
<1>3. /\ all \in Seq(Symbols) /\ Len(all) \in Nat
      /\ \A j \in 0..n : /\ At(c, j) \in Nat /\ At(c, j) <= Len(all)
                         /\ CleanTo(c, j) \in Seq(Symbols)
      /\ CleanTo(c, 0) = <<>>
      /\ Between(all, At(c, n), Len(all)) = c.rest
  BY Positions
<1>4. mixed \in Seq(Seq(Symbols)) /\ Len(mixed) = n
  <2>1. mixed \in [1..n -> Seq(Symbols)] /\ DOMAIN mixed = 1..n
    BY <1>1, <1>2
  <2> HIDE DEF mixed
  <2>2. mixed \in Seq(Seq(Symbols))
    BY <1>1, <2>1, SeqDef
  <2>3. Len(mixed) \in Nat /\ DOMAIN mixed = 1..Len(mixed)
    BY <2>2, LenProperties
  <2> QED BY <1>1, <2>1, <2>2, <2>3, SameLength
<1>5. \A i \in 1..n : mixed[i] = IF i <= k THEN Clean(c.requests[i]) ELSE Raw(c.requests[i])
  BY <1>1
<1> HIDE DEF mixed
<1>6. /\ To(mixed, 0) = <<>> /\ To(mixed, n) = FlattenSeq(mixed)
      /\ \A j \in 0..(n - 1) : To(mixed, j + 1) = To(mixed, j) \o mixed[j + 1]
  <2>1. mixed \in Seq(Seq(Symbols))
    BY <1>4
  <2>2. /\ To(mixed, 0) = <<>> /\ To(mixed, Len(mixed)) = FlattenSeq(mixed)
        /\ \A j \in 0..(Len(mixed) - 1) : To(mixed, j + 1) = To(mixed, j) \o mixed[j + 1]
    BY <2>1, ToNext
  <2> QED BY <1>4, <2>2
<1>7. 0 \in T
  BY <1>3, <1>6
<1>8. ASSUME NEW j \in Nat, j \in T, j + 1 \in 0..n PROVE So(j + 1)
  <2>1. j \in 0..(n - 1) /\ j \in 0..n /\ j + 1 \in 1..n
    BY <1>1, <1>8
  <2>2. So(j)
    <3> HIDE DEF So
    <3> QED BY <1>8, <2>1
  <2> DEFINE r == c.requests[j + 1]
  <2>3. /\ At(c, j) <= At(c, j + 1)
        /\ Between(all, At(c, j), At(c, j + 1)) = Raw(r)
        /\ CleanTo(c, j + 1) = CleanTo(c, j) \o Clean(r)
    <3>1. /\ At(c, j + 1) = At(c, j) + Len(HeadOf(r)) + Len(r.body)
          /\ Len(HeadOf(r)) \in Nat /\ Len(r.body) \in Nat
          /\ Between(Sends(c), At(c, j), At(c, j + 1)) = Raw(r)
          /\ CleanTo(c, j + 1) = CleanTo(c, j) \o Clean(r)
      BY <2>1, RequestAt
    <3>2. At(c, j) \in Nat
      BY <1>3, <2>1
    <3>3. At(c, j) <= At(c, j + 1)
      <4> HIDE DEF r
      <4> QED BY <3>1, <3>2
    <3> QED BY <3>1, <3>3
  <2>4. To(mixed, j + 1) = To(mixed, j) \o (IF j + 1 <= k THEN Clean(r) ELSE Raw(r))
    BY <1>5, <1>6, <2>1
  <2>5. CASE j + 1 <= k
    <3>1. To(mixed, j) = CleanTo(c, j)
      BY <2>1, <2>2, <2>5
    <3> HIDE DEF r
    <3> QED BY <2>3, <2>4, <2>5, <3>1
  <2>6. CASE ~ (j + 1 <= k)
    <3>1. k <= j /\ k \in 0..n
      BY <2>1, <2>6
    <3>2. At(c, k) \in Nat /\ At(c, k) <= At(c, j)
      <4>1. At(c, k) \in Nat
        BY <1>3
      <4>3. At(c, k) <= At(c, j)
        BY <1>3, <2>1, <3>1, AtGrows
      <4> QED BY <4>1, <4>3
    <3>3. To(mixed, j) = CleanTo(c, k) \o Between(all, At(c, k), At(c, j))
      <4>1. CASE j = k
        <5>1. Between(all, At(c, k), At(c, k)) = <<>> /\ CleanTo(c, k) \o <<>> = CleanTo(c, k)
          BY <1>3, PartsExtreme, ConcatEmptySeq
        <5> QED BY <2>2, <4>1, <5>1
      <4> QED BY <2>1, <2>2, <3>1, <4>1
    <3>4. Between(all, At(c, k), At(c, j)) \o Between(all, At(c, j), At(c, j + 1))
              = Between(all, At(c, k), At(c, j + 1))
      <4> DEFINE x == At(c, k)
                 y == At(c, j)
                 z == At(c, j + 1)
      <4>1. /\ x \in Nat /\ y \in Nat /\ z \in Nat /\ x <= y /\ y <= z
            /\ z <= Len(all) /\ all \in Seq(Symbols)
        BY <1>3, <2>1, <2>3, <3>2
      <4> HIDE DEF x, y, z
      <4>2. Between(all, x, y) \o Between(all, y, z) = Between(all, x, z)
        BY <4>1, Parts
      <4> QED BY <4>2 DEF x, y, z
    <3>5. /\ CleanTo(c, k) \in Seq(Symbols)
          /\ Between(all, At(c, k), At(c, j)) \in Seq(Symbols)
          /\ Between(all, At(c, j), At(c, j + 1)) \in Seq(Symbols)
      <4>1. /\ At(c, j) \in Nat /\ At(c, j) <= Len(all)
            /\ At(c, j + 1) \in Nat /\ At(c, j + 1) <= Len(all)
        BY <1>3, <2>1
      <4>2. all \in Seq(Symbols) /\ At(c, k) \in Nat
        BY <1>3
      <4>3. Between(all, At(c, k), At(c, j)) \in Seq(Symbols)
        BY <3>2, <4>1, <4>2, Part
      <4>4. Between(all, At(c, j), At(c, j + 1)) \in Seq(Symbols)
        BY <2>3, <4>1, <4>2, Part
      <4> QED BY <1>3, <4>3, <4>4
    <3>6. (CleanTo(c, k) \o Between(all, At(c, k), At(c, j))) \o Between(all, At(c, j), At(c, j + 1))
             = CleanTo(c, k) \o (Between(all, At(c, k), At(c, j)) \o Between(all, At(c, j), At(c, j + 1)))
      BY <3>5, Associative
    <3> QED BY <2>3, <2>4, <2>6, <3>3, <3>4, <3>6
  <2> QED BY <2>5, <2>6
<1>9. \A j \in Nat : j \in T => j + 1 \in T
  <2> HIDE DEF So
  <2> QED BY <1>8
<1>10. \A j \in Nat : j \in T
  <2> HIDE DEF T
  <2> QED BY <1>7, <1>9, Induction
<1>11. So(n)
  <2> HIDE DEF So
  <2> QED BY <1>1, <1>10
<1>12. At(c, k) <= At(c, n) /\ At(c, k) \in Nat /\ At(c, n) \in Nat /\ At(c, n) <= Len(all)
  BY <1>1, <1>3, AtGrows
<1>13. FlattenSeq(mixed) = CleanTo(c, k) \o Between(all, At(c, k), At(c, n))
  <2>1. CASE n = k
    <3>1. Between(all, At(c, k), At(c, k)) = <<>> /\ CleanTo(c, k) \o <<>> = CleanTo(c, k)
      BY <1>3, PartsExtreme, ConcatEmptySeq
    <3> QED BY <1>6, <1>11, <2>1, <3>1
  <2> QED BY <1>1, <1>6, <1>11, <2>1
<1>14. Between(all, At(c, k), At(c, n)) \o c.rest = Between(all, At(c, k), Len(all))
  <2>1. Between(all, At(c, k), At(c, n)) \o Between(all, At(c, n), Len(all))
            = Between(all, At(c, k), Len(all))
    <3>1. all \in Seq(Symbols) /\ Len(all) \in Nat /\ Len(all) <= Len(all)
      BY <1>3
    <3> HIDE DEF all
    <3> QED BY <1>12, <3>1, Parts
  <2> QED BY <1>3, <2>1
<1>15. /\ CleanTo(c, k) \in Seq(Symbols) /\ c.rest \in Seq(Symbols)
       /\ Between(all, At(c, k), At(c, n)) \in Seq(Symbols)
  <2>1. Between(all, At(c, k), At(c, n)) \in Seq(Symbols)
    BY <1>3, <1>12, Part
  <2> QED BY <1>3, <2>1 DEF WellFormed
<1>16. FlattenSeq(mixed) \o c.rest = CleanTo(c, k) \o Between(all, At(c, k), Len(all))
  <2>1. (CleanTo(c, k) \o Between(all, At(c, k), At(c, n))) \o c.rest
            = CleanTo(c, k) \o (Between(all, At(c, k), At(c, n)) \o c.rest)
    <3> DEFINE x == CleanTo(c, k)
               y == Between(all, At(c, k), At(c, n))
               z == c.rest
    <3>1. x \in Seq(Symbols) /\ y \in Seq(Symbols) /\ z \in Seq(Symbols)
      BY <1>15
    <3> HIDE DEF x, y, z
    <3>2. (x \o y) \o z = x \o (y \o z)
      BY <3>1, Associative
    <3> QED BY <3>2 DEF x, y, z
  <2> QED BY <1>13, <1>14, <2>1
<1> QED BY <1>16 DEF mixed

\* The renderings are the connection with its first k requests cleaned, where
\* the next is too long or is none.
LEMMA Rendered ==
    ASSUME WellFormed(connection), NEW k \in 0..Len(connection.requests),
           k = Len(connection.requests) \/ TooLong(connection.requests[k + 1])
    PROVE  LET all == Sends(connection) IN
           CleanTo(connection, k) \o Between(all, At(connection, k), Len(all)) \in Renderings
<1> DEFINE c == connection
           rs == connection.requests
           mixed(j) == [i \in DOMAIN rs |-> IF i < j THEN Clean(rs[i]) ELSE Raw(rs[i])]
           Rendering(j) == FlattenSeq(mixed(j)) \o connection.rest
<1>1. Len(rs) \in Nat /\ DOMAIN rs = 1..Len(rs)
  BY LenProperties, Requests DEF WellFormed
<1>2. k + 1 \in {i \in DOMAIN rs : TooLong(rs[i])} \cup {Len(rs) + 1}
  BY <1>1
<1>3. Renderings = {Rendering(j) : j \in {i \in DOMAIN rs : TooLong(rs[i])} \cup {Len(rs) + 1}}
  BY DEF Renderings
<1>4. Rendering(k + 1) = CleanTo(c, k) \o Between(Sends(c), At(c, k), Len(Sends(c)))
  BY CleanedUpTo
<1> HIDE DEF Rendering
<1> QED BY <1>2, <1>3, <1>4

\* The boundaries are the positions.
LEMMA BoundaryAt ==
    ASSUME WellFormed(connection), NEW k \in 0..Len(connection.requests)
    PROVE  k + 1 \in DOMAIN Boundaries /\ Boundaries[k + 1] = At(connection, k)
<1> DEFINE rs == connection.requests
           raws == Raws(connection)
           first == [i \in 1..((k + 1) - 1) |-> Raw(rs[i])]
           part == Between(raws, 0, k)
<1>1. Len(rs) \in Nat /\ DOMAIN rs = 1..Len(rs)
  BY LenProperties, Requests DEF WellFormed
<1>2. raws \in Seq(Seq(Symbols)) /\ Len(raws) = Len(rs)
      /\ \A i \in 1..Len(rs) : Raw(rs[i]) \in Seq(Symbols)
  BY Requests
<1>3. \A i \in 1..Len(rs) : raws[i] = Raw(rs[i])
  BY <1>1 DEF Raws
<1> HIDE DEF raws
<1>4. /\ part \in Seq(Seq(Symbols)) /\ Len(part) = k - 0
      /\ \A i \in 1..(k - 0) : part[i] = raws[0 + i]
  <2>1. raws \in Seq(Seq(Symbols)) /\ 0 \in Nat /\ 0 <= k /\ k <= Len(raws) /\ k \in Nat
    BY <1>1, <1>2
  <2> QED BY <2>1, Part
<1> HIDE DEF part
<1>5. first \in Seq(Seq(Symbols)) /\ Len(first) = k
  <2>1. first \in [1..k -> Seq(Symbols)] /\ DOMAIN first = 1..k /\ k \in Nat
    BY <1>1, <1>2
  <2> HIDE DEF first
  <2>2. first \in Seq(Seq(Symbols))
    BY <2>1, SeqDef
  <2>3. Len(first) \in Nat /\ DOMAIN first = 1..Len(first)
    BY <2>2, LenProperties
  <2> QED BY <2>1, <2>2, <2>3, SameLength
<1>6. \A i \in 1..k : first[i] = Raw(rs[i])
  OBVIOUS
<1> HIDE DEF first
<1>7. Len(first) = Len(part) /\ \A i \in 1..Len(first) : first[i] = part[i]
  <2>1. Len(first) = Len(part)
    BY <1>4, <1>5
  <2>2. ASSUME NEW i \in 1..Len(first) PROVE first[i] = part[i]
    <3>1. i \in 1..k /\ i \in 1..(k - 0) /\ i \in 1..Len(rs) /\ 0 + i = i
      BY <1>1, <1>5
    <3>2. part[i] = raws[i]
      BY <1>4, <3>1
    <3> QED BY <1>3, <1>6, <3>1, <3>2
  <2> QED BY <2>1, <2>2
<1>8. first = part
  BY <1>4, <1>5, <1>7, SeqEqual
<1>9. k + 1 \in DOMAIN Boundaries /\ Boundaries[k + 1] = Len(FlattenSeq(first))
  BY <1>1 DEF Boundaries, first
<1> QED BY <1>8, <1>9 DEF At, To, part, raws

\* What is scanned for a head and begins with one, as far as it goes.
LEMMA ScanHead ==
    ASSUME NEW s \in Seq(Symbols), NEW head \in Seq(Symbols),
           HeaderEnds(head) = {Len(head)}, NEW m \in Methods, IsPrefix(m, head),
           \A i \in 1..Len(s) : i <= Len(head) => s[i] = head[i]
    PROVE  /\ LooksLikeHTTPRequest(s)
           /\ Len(s) < Len(head) => HeaderEnds(s) = {}
           /\ Len(s) >= Len(head) => HeaderEnds(s) # {} /\ Min(HeaderEnds(s)) = Len(head)
<1>1. Len(s) \in Nat /\ Len(head) \in Nat
  BY LenProperties
<1>2. m \in Seq(Symbols) /\ Len(m) = 2
  BY MethodType
<1>3. 2 <= Len(head) /\ \A i \in 1..2 : m[i] = head[i]
  BY <1>2, PrefixIndex
<1>4. LooksLikeHTTPRequest(s)
  <2>1. CASE Len(s) <= 2
    <3>1. \A i \in 1..Len(s) : s[i] = m[i]
      BY <1>1, <1>3, <2>1
    <3>2. IsPrefix(s, m)
      BY <1>2, <2>1, <3>1, PrefixIndex
    <3> QED BY <3>2 DEF LooksLikeHTTPRequest
  <2>2. CASE Len(s) > 2
    <3>1. \A i \in 1..Len(m) : m[i] = s[i]
      BY <1>1, <1>2, <1>3, <2>2
    <3>2. Len(m) <= Len(s)
      BY <1>1, <1>2, <2>2
    <3>3. IsPrefix(m, s)
      BY <1>2, <3>1, <3>2, PrefixIndex
    <3> QED BY <3>3 DEF LooksLikeHTTPRequest
  <2> QED BY <1>1, <2>1, <2>2
<1>5. \A i \in 2..Len(s) : i <= Len(head) => (i \in HeaderEnds(s) <=> i \in HeaderEnds(head))
  <2> SUFFICES ASSUME NEW i \in 2..Len(s), i <= Len(head)
               PROVE  i \in HeaderEnds(s) <=> i \in HeaderEnds(head)
    OBVIOUS
  <2>1. /\ i \in 1..Len(s) /\ i - 1 \in 1..Len(s) /\ i - 1 <= Len(head)
        /\ i \in 2..Len(head)
    BY <1>1
  <2>2. s[i] = head[i] /\ s[i - 1] = head[i - 1]
    BY <2>1
  <2> QED BY <2>1, <2>2 DEF HeaderEnds
<1>6. \A i \in HeaderEnds(s) : i \in 2..Len(s) /\ i \in Nat
  BY DEF HeaderEnds
<1>7. ASSUME Len(s) < Len(head) PROVE HeaderEnds(s) = {}
  BY <1>1, <1>5, <1>6, <1>7
<1>8. ASSUME Len(s) >= Len(head)
      PROVE  HeaderEnds(s) # {} /\ Min(HeaderEnds(s)) = Len(head)
  <2>1. Len(head) \in HeaderEnds(s)
    BY <1>1, <1>3, <1>5, <1>8
  <2>2. \A i \in HeaderEnds(s) : i \in Nat /\ Len(head) <= i
    BY <1>1, <1>5, <1>6
  <2> QED BY <2>1, <2>2, IsMin
<1> QED BY <1>4, <1>7, <1>8

\* What is scanned for a head where there is none.
LEMMA ScanRest ==
    ASSUME NEW rest \in Seq(Symbols), NEW s \in Seq(Symbols), IsPrefix(s, rest), s # <<>>,
           rest = <<>> \/ ~ LooksLikeHTTPRequest(rest),
           LooksLikeHTTPRequest(s)
    PROVE  HeaderEnds(s) = {} /\ \E m \in Methods : IsPrefix(s, m)
<1>1. Len(s) \in Nat \ {0} /\ Len(rest) \in Nat
  BY LenProperties, EmptySeq
<1>2. rest # <<>>
  BY <1>1, EmptySeq DEF IsPrefix
<1>3. PICK m \in Methods : IsPrefix(m, s) \/ IsPrefix(s, m)
  BY DEF LooksLikeHTTPRequest
<1>4. m \in Seq(Symbols) /\ Len(m) = 2 /\ \A i \in 1..2 : m[i] # "n"
  BY MethodType
<1>5. ~ IsPrefix(m, s)
  <2>1. IsPrefix(m, s) => IsPrefix(m, rest)
    BY <1>4, PrefixTransitive
  <2> QED BY <1>2, <2>1 DEF LooksLikeHTTPRequest
<1>6. IsPrefix(s, m)
  BY <1>3, <1>5
<1>7. Len(s) <= 2 /\ \A i \in 1..Len(s) : s[i] = m[i]
  BY <1>4, <1>6, PrefixIndex
<1>8. ASSUME NEW i \in HeaderEnds(s) PROVE FALSE
  <2>1. i \in 2..Len(s) /\ s[i] = "n"
    BY DEF HeaderEnds
  <2>2. i \in 1..2 /\ i \in 1..Len(s)
    BY <1>1, <1>7, <2>1
  <2> QED BY <1>4, <1>7, <2>1, <2>2
<1> QED BY <1>6, <1>8

(***************************************************************************)
(* The invariant.  While the target accepts what it is given, ScrubConn is *)
(* between two requests or in a head, k requests being done; or in the     *)
(* body of the k-th; or it passes everything through.                      *)
(***************************************************************************)

AtHead(c, k, at, o, b) ==
    /\ at = At(c, k) /\ o = CleanTo(c, k)
    /\ k > 0 => ~ Untrackable(c.requests[k])
    /\ b # <<>> => /\ LooksLikeHTTPRequest(b) /\ HeaderEnds(b) = {}
                   /\ Len(b) <= MaxHeader

InBody(c, k, at, o, rest) ==
    /\ k > 0 /\ ~ Untrackable(c.requests[k])
    /\ rest > 0 /\ at + rest = At(c, k)
    /\ o \o Between(Sends(c), at, At(c, k)) = CleanTo(c, k)

Through(c, k, at, o) ==
    /\ k = Len(c.requests) \/ TooLong(c.requests[k + 1])
    /\ At(c, k) <= at
    /\ o = CleanTo(c, k) \o Between(Sends(c), At(c, k), at)

\* f symbols of c have been handed to Write, of which it has not dealt with q,
\* holds b, and has written o for the at before.
Where(c, f, q, b, at) ==
    /\ at \in Nat /\ f \in 0..Len(Sends(c))
    /\ q \in Seq(Symbols) /\ b \in Seq(Symbols)
    /\ at + Len(b) + Len(q) = f
    /\ b = Between(Sends(c), at, at + Len(b))
    /\ q = Between(Sends(c), at + Len(b), f)

Doing(c, k, at, o, b, pass, skip) ==
    \/ ~ pass /\ skip = 0 /\ AtHead(c, k, at, o, b)
    \/ ~ pass /\ b = <<>> /\ InBody(c, k, at, o, skip)
    \/ pass /\ skip = 0 /\ b = <<>> /\ Through(c, k, at, o)

InPlace(c, f, q, b, o, pass, skip) ==
    /\ o \in Seq(Symbols) /\ pass \in BOOLEAN /\ skip \in Nat
    /\ \E at \in Nat, k \in 0..Len(c.requests) :
          Where(c, f, q, b, at) /\ Doing(c, k, at, o, b, pass, skip)

ScrubInv ==
    /\ TypeOK
    /\ failed => NothingCorrupted
    /\ out \in Seq(Symbols)
    /\ ~ failed => InPlace(connection, fed, p, buf, out, passThrough, skipBody)

-----------------------------------------------------------------------------

\* What has been written is the beginning of a rendering.
LEMMA InPlaceSafe ==
    ASSUME WellFormed(connection), NEW f, NEW q, NEW b, NEW o, NEW pass, NEW skip,
           InPlace(connection, f, q, b, o, pass, skip)
    PROVE  o \in Seq(Symbols) /\ \E r \in Renderings : r \in Seq(Symbols) /\ IsPrefix(o, r)
<1> DEFINE c == connection
           all == Sends(c)
           n == Len(c.requests)
           tail(k) == Between(all, At(c, k), Len(all))
           done(k) == CleanTo(c, k) \o tail(k)
<1>1. PICK at \in Nat, k \in 0..n : Where(c, f, q, b, at) /\ Doing(c, k, at, o, b, pass, skip)
  BY DEF InPlace
<1>2. /\ all \in Seq(Symbols) /\ Len(all) \in Nat
      /\ \A j \in 0..n : /\ At(c, j) \in Nat /\ At(c, j) <= Len(all)
                         /\ CleanTo(c, j) \in Seq(Symbols)
  BY Positions
<1>3. n \in Nat /\ n \in 0..n
  BY Requests
<1>4. o \in Seq(Symbols)
  BY DEF InPlace
<1> HIDE DEF all
<1>5. ASSUME NEW j \in 0..n PROVE tail(j) \in Seq(Symbols)
  <2>1. At(c, j) \in Nat /\ At(c, j) <= Len(all) /\ Len(all) <= Len(all)
    BY <1>2
  <2> QED BY <1>2, <2>1, Part
<1>6. ASSUME NEW j \in 0..n PROVE done(j) \in Seq(Symbols) /\ IsPrefix(CleanTo(c, j), done(j))
  <2>1. CleanTo(c, j) \in Seq(Symbols) /\ tail(j) \in Seq(Symbols)
    BY <1>2, <1>5
  <2> HIDE DEF tail
  <2> QED BY <2>1, Concat, PrefixOfConcat
<1>7. done(n) \in Renderings
  BY <1>3, Rendered DEF all
<1>8. CASE ~ pass
  <2>1. IsPrefix(o, CleanTo(c, k))
    <3>1. CleanTo(c, k) \in Seq(Symbols) /\ At(c, k) \in Nat /\ At(c, k) <= Len(all)
      BY <1>2
    <3>2. CASE AtHead(c, k, at, o, b)
      BY <3>1, <3>2 DEF AtHead, IsPrefix
    <3>3. CASE InBody(c, k, at, o, skip)
      <4>1. at <= At(c, k)
        BY <3>1, <3>3 DEF InBody, InPlace
      <4>2. Between(all, at, At(c, k)) \in Seq(Symbols)
        BY <1>2, <3>1, <4>1, Part
      <4>3. IsPrefix(o, o \o Between(all, at, At(c, k)))
        BY <1>4, <4>2, PrefixOfConcat
      <4> QED BY <3>3, <4>3 DEF InBody, all
    <3> QED BY <1>1, <1>8, <3>2, <3>3 DEF Doing
  <2>2. IsPrefix(CleanTo(c, k), CleanTo(c, n))
    <3>1. Cleans(c) \in Seq(Seq(Symbols)) /\ Len(Cleans(c)) = n
      BY Requests
    <3>2. To(Cleans(c), n) = FlattenSeq(Cleans(c))
      BY <3>1, ToNext
    <3>3. IsPrefix(To(Cleans(c), k), FlattenSeq(Cleans(c)))
      BY <3>1, ToPrefix
    <3> QED BY <3>2, <3>3 DEF CleanTo
  <2>3. CleanTo(c, k) \in Seq(Symbols) /\ CleanTo(c, n) \in Seq(Symbols)
        /\ done(n) \in Seq(Symbols) /\ IsPrefix(CleanTo(c, n), done(n))
    BY <1>2, <1>3, <1>6
  <2> HIDE DEF done
  <2>4. IsPrefix(o, CleanTo(c, n))
    BY <1>4, <2>1, <2>2, <2>3, PrefixTransitive
  <2>5. IsPrefix(o, done(n))
    BY <1>4, <2>3, <2>4, PrefixTransitive
  <2> QED BY <1>4, <1>7, <2>3, <2>5
<1>9. CASE pass
  <2>1. Through(c, k, at, o) /\ b = <<>>
    BY <1>1, <1>9 DEF Doing
  <2>2. done(k) \in Renderings
    BY <2>1, Rendered DEF Through, all
  <2>3. at <= Len(all) /\ At(c, k) <= at /\ At(c, k) \in Nat
    <3>1. Len(b) \in Nat /\ Len(q) \in Nat /\ at + Len(b) + Len(q) <= Len(all)
      BY <1>1, LenProperties DEF Where, all
    <3> QED BY <1>2, <2>1, <3>1 DEF Through
  <2> DEFINE x == Between(all, At(c, k), at)
             y == Between(all, at, Len(all))
  <2>4. x \in Seq(Symbols) /\ y \in Seq(Symbols)
    <3>1. all \in Seq(Symbols) /\ Len(all) \in Nat /\ Len(all) <= Len(all)
      BY <1>2
    <3>2. x \in Seq(Symbols)
      BY <2>3, <3>1, Part
    <3>3. y \in Seq(Symbols)
      BY <2>3, <3>1, Part
    <3> QED BY <3>2, <3>3
  <2>5. x \o y = tail(k)
    <3>1. all \in Seq(Symbols) /\ Len(all) \in Nat /\ Len(all) <= Len(all)
      BY <1>2
    <3> QED BY <2>3, <3>1, Parts
  <2>6. o = CleanTo(c, k) \o x /\ CleanTo(c, k) \in Seq(Symbols)
    BY <1>2, <2>1 DEF Through, all
  <2>7. done(k) \in Seq(Symbols)
    BY <1>6
  <2> DEFINE z == CleanTo(c, k)
  <2> HIDE DEF x, y, tail, z
  <2>8. (z \o x) \o y = z \o (x \o y)
    BY <2>4, <2>6, Associative DEF z
  <2>9. o \o y = done(k)
    BY <2>5, <2>6, <2>8 DEF z
  <2>10. IsPrefix(o, o \o y)
    BY <1>4, <2>4, PrefixOfConcat
  <2> HIDE DEF done
  <2> QED BY <1>4, <2>2, <2>7, <2>9, <2>10
<1>10. pass \in BOOLEAN
  BY DEF InPlace
<1> QED BY <1>8, <1>9, <1>10

\* Everything that has not been dealt with is one part of what is sent.
LEMMA Pending ==
    ASSUME NEW c, WellFormed(c), NEW f, NEW q, NEW b, NEW at, Where(c, f, q, b, at)
    PROVE  /\ b \o q \in Seq(Symbols) /\ b \o q = Between(Sends(c), at, f)
           /\ at \in Nat /\ f \in Nat /\ at <= f /\ f <= Len(Sends(c))
           /\ Len(b) \in Nat /\ Len(q) \in Nat
           /\ Len(b \o q) = Len(b) + Len(q) /\ at + Len(b \o q) = f
           /\ Sends(c) \in Seq(Symbols) /\ Len(Sends(c)) \in Nat
           /\ \A i \in 1..Len(b \o q) : (b \o q)[i] = Sends(c)[at + i]
<1> DEFINE all == Sends(c)
           s == b \o q
<1>1. all \in Seq(Symbols) /\ Len(all) \in Nat
  BY Positions
<1>2. /\ at \in Nat /\ f \in 0..Len(all) /\ q \in Seq(Symbols) /\ b \in Seq(Symbols)
      /\ at + Len(b) + Len(q) = f
      /\ b = Between(all, at, at + Len(b)) /\ q = Between(all, at + Len(b), f)
  BY DEF Where
<1> HIDE DEF all
<1>3. Len(b) \in Nat /\ Len(q) \in Nat
  BY <1>2, LenProperties
<1>4. s \in Seq(Symbols) /\ Len(s) = Len(b) + Len(q)
  <2>1. b \in Seq(Symbols) /\ q \in Seq(Symbols)
    BY <1>2
  <2> QED BY <2>1, Concat
<1>5. f \in Nat /\ at <= f /\ f <= Len(all) /\ at + Len(b) \in Nat
      /\ at <= at + Len(b) /\ at + Len(b) <= f
  BY <1>1, <1>2, <1>3
<1>6. s = Between(all, at, f)
  <2>1. Between(all, at, at + Len(b)) \o Between(all, at + Len(b), f) = Between(all, at, f)
    <3>1. at \in Nat
      BY <1>2
    <3> QED BY <1>1, <1>5, <3>1, Parts
  <2> QED BY <1>2, <2>1
<1>7. \A i \in 1..Len(s) : s[i] = all[at + i]
  <2>1. at \in Nat
    BY <1>2
  <2>2. \A i \in 1..(f - at) : Between(all, at, f)[i] = all[at + i]
    BY <1>1, <1>5, <2>1, Part
  <2>3. Len(s) = f - at
    BY <1>2, <1>3, <1>4
  <2> HIDE DEF s
  <2> QED BY <1>6, <2>2, <2>3
<1> HIDE DEF s
<1>8. at + Len(s) = f
  BY <1>2, <1>3, <1>4
<1> QED BY <1>1, <1>2, <1>3, <1>4, <1>5, <1>6, <1>7, <1>8 DEF s, all

\* io.Copy: more is pending.
LEMMA Copied ==
    ASSUME NEW c, WellFormed(c), NEW f, NEW b, NEW o, NEW pass, NEW skip,
           InPlace(c, f, <<>>, b, o, pass, skip),
           NEW n \in Nat, f + n <= Len(Sends(c))
    PROVE  InPlace(c, f + n, SubSeq(Sends(c), f + 1, f + n), b, o, pass, skip)
<1> DEFINE q == SubSeq(Sends(c), f + 1, f + n)
<1>1. PICK at \in Nat, k \in 0..Len(c.requests) :
          Where(c, f, <<>>, b, at) /\ Doing(c, k, at, o, b, pass, skip)
  BY DEF InPlace
<1>2. /\ f \in Nat /\ Sends(c) \in Seq(Symbols) /\ Len(Sends(c)) \in Nat
  BY <1>1, Pending
<1>3. Len(b) \in Nat /\ at + Len(b) = f
  BY <1>1, LenProperties, EmptySeq DEF Where
<1>4. q = Between(Sends(c), f, f + n)
  BY DEF Between
<1> HIDE DEF q
<1>5. q \in Seq(Symbols) /\ Len(q) = n
  <2>1. f + n \in Nat /\ f <= f + n /\ (f + n) - f = n
    BY <1>2
  <2>2. /\ Between(Sends(c), f, f + n) \in Seq(Symbols)
        /\ Len(Between(Sends(c), f, f + n)) = (f + n) - f
    BY <1>2, <2>1, Part
  <2> QED BY <1>4, <2>1, <2>2
<1>6. Where(c, f + n, q, b, at)
  <2>1. f + n \in 0..Len(Sends(c)) /\ at + Len(b) + Len(q) = f + n
    BY <1>2, <1>3, <1>5
  <2> QED BY <1>1, <1>3, <1>4, <1>5, <2>1 DEF Where
<1> QED BY <1>1, <1>6 DEF InPlace, q

\* Nothing is pending.
LEMMA WhereNothing ==
    ASSUME NEW c, WellFormed(c), NEW f \in Nat, f <= Len(Sends(c))
    PROVE  Where(c, f, <<>>, <<>>, f)
<1>1. <<>> \in Seq(Symbols) /\ Len(<<>>) = 0
  BY EmptySeq
<1>2. Between(Sends(c), f, f) = <<>> /\ f + 0 = f /\ f + 0 + 0 = f
  BY Positions, PartsExtreme
<1>3. f \in 0..Len(Sends(c))
  BY Positions
<1> QED BY <1>1, <1>2, <1>3 DEF Where

\* Everything pending is written as it is.
LEMMA Extended ==
    ASSUME NEW c, WellFormed(c), NEW k \in 0..Len(c.requests),
           NEW f, NEW q, NEW b, NEW at, Where(c, f, q, b, at),
           At(c, k) <= at
    PROVE  LET o == CleanTo(c, k) \o Between(Sends(c), At(c, k), at) IN
           /\ o \o (b \o q) = CleanTo(c, k) \o Between(Sends(c), At(c, k), f)
           /\ o \o (b \o q) \in Seq(Symbols)
<1> DEFINE all == Sends(c)
           s == b \o q
           x == CleanTo(c, k)
           y == Between(all, At(c, k), at)
<1>1. s \in Seq(Symbols) /\ s = Between(all, at, f)
      /\ at \in Nat /\ f \in Nat /\ at <= f /\ f <= Len(all)
      /\ all \in Seq(Symbols) /\ Len(all) \in Nat
  BY Pending
<1>2. At(c, k) \in Nat /\ x \in Seq(Symbols)
  BY Positions
<1> HIDE DEF all
<1>3. y \in Seq(Symbols)
  <2>1. at <= Len(all)
    BY <1>1
  <2> QED BY <1>1, <1>2, <2>1, Part
<1>4. y \o Between(all, at, f) = Between(all, At(c, k), f)
  BY <1>1, <1>2, Parts
<1> HIDE DEF x, y, s
<1>6. s \in Seq(Symbols)
  BY <1>1
<1>7. (x \o y) \o s = x \o (y \o s) /\ y \o s \in Seq(Symbols)
  BY <1>2, <1>3, <1>6, Associative, Concat
<1>8. x \o (y \o s) \in Seq(Symbols)
  BY <1>2, <1>7, Concat
<1>9. y \o s = Between(all, At(c, k), f)
  BY <1>1, <1>4
<1> QED BY <1>7, <1>8, <1>9 DEF x, y, s, all

\* Write passes on what it is given.
LEMMA PassedThrough ==
    ASSUME NEW c, WellFormed(c), NEW f, NEW q, NEW b, NEW o, NEW skip,
           InPlace(c, f, q, b, o, TRUE, skip)
    PROVE  InPlace(c, f, <<>>, b, o \o q, TRUE, skip)
<1> DEFINE all == Sends(c)
<1>1. PICK at \in Nat, k \in 0..Len(c.requests) :
          Where(c, f, q, b, at) /\ Doing(c, k, at, o, b, TRUE, skip)
  BY DEF InPlace
<1>2. skip = 0 /\ b = <<>> /\ Through(c, k, at, o)
  BY <1>1 DEF Doing
<1>3. o \o q = CleanTo(c, k) \o Between(all, At(c, k), f) /\ o \o q \in Seq(Symbols)
      /\ At(c, k) <= f /\ f \in Nat /\ f <= Len(all)
  <2>1. At(c, k) <= at /\ o = CleanTo(c, k) \o Between(all, At(c, k), at)
    BY <1>2 DEF Through
  <2>2. at \in Nat /\ f \in Nat /\ at <= f /\ f <= Len(all)
    BY <1>1, Pending
  <2>3. At(c, k) \in Nat
    BY Positions
  <2>4. b \o q = q
    BY <1>1, <1>2, ConcatEmptySeq DEF Where
  <2>5. /\ o \o (b \o q) = CleanTo(c, k) \o Between(all, At(c, k), f)
        /\ o \o (b \o q) \in Seq(Symbols)
    <3>1. Where(c, f, q, b, at)
      BY <1>1
    <3>2. At(c, k) <= at
      BY <2>1
    <3> DEFINE x == CleanTo(c, k) \o Between(Sends(c), At(c, k), at)
    <3>3. /\ x \o (b \o q) = CleanTo(c, k) \o Between(Sends(c), At(c, k), f)
          /\ x \o (b \o q) \in Seq(Symbols)
      BY <3>1, <3>2, Extended
    <3>4. o = x
      BY <2>1
    <3> HIDE DEF x
    <3> QED BY <3>3, <3>4
  <2> QED BY <2>1, <2>2, <2>3, <2>4, <2>5
<1>4. Where(c, f, <<>>, <<>>, f)
  BY <1>3, WhereNothing
<1>5. Through(c, k, f, o \o q)
  BY <1>2, <1>3 DEF Through
<1>6. Doing(c, k, f, o \o q, <<>>, TRUE, 0)
  BY <1>5 DEF Doing
<1> QED BY <1>2, <1>3, <1>4, <1>6 DEF InPlace

\* Write passes on what belongs to a body, and no more.
LEMMA BodyWritten ==
    ASSUME NEW c, WellFormed(c), NEW f, NEW q, NEW b, NEW o, NEW skip,
           InPlace(c, f, q, b, o, FALSE, skip), skip > 0,
           NEW n \in Nat, n <= Len(q), n <= skip
    PROVE  /\ SubSeq(q, 1, n) \in Seq(Symbols)
           /\ b = <<>>
           /\ InPlace(c, f, SubSeq(q, n + 1, Len(q)), b, o \o SubSeq(q, 1, n), FALSE, skip - n)
<1> DEFINE all == Sends(c)
           x == Between(q, 0, n)
           y == Between(q, n, Len(q))
<1>1. PICK at \in Nat, k \in 0..Len(c.requests) :
          Where(c, f, q, b, at) /\ Doing(c, k, at, o, b, FALSE, skip)
  BY DEF InPlace
<1>2. b = <<>> /\ InBody(c, k, at, o, skip) /\ skip \in Nat /\ o \in Seq(Symbols)
  BY <1>1 DEF Doing, InPlace
<1>3. /\ at \in Nat /\ f \in Nat /\ f <= Len(all) /\ all \in Seq(Symbols) /\ Len(all) \in Nat
      /\ Len(q) \in Nat /\ at + Len(q) = f /\ q \in Seq(Symbols)
      /\ q = Between(all, at, f)
  <2>1. Where(c, f, q, b, at)
    BY <1>1
  <2>2. /\ at \in Nat /\ f \in Nat /\ f <= Len(all) /\ all \in Seq(Symbols) /\ Len(all) \in Nat
        /\ Len(q) \in Nat /\ b \o q = Between(all, at, f)
        /\ Len(b) \in Nat
    BY <2>1, Pending
  <2>3. q \in Seq(Symbols) /\ at + Len(b) + Len(q) = f
    BY <2>1 DEF Where
  <2>4. b \o q = q /\ Len(b) = 0
    BY <1>2, <2>3, ConcatEmptySeq, EmptySeq
  <2> HIDE DEF all
  <2> QED BY <2>2, <2>3, <2>4
<1>4. /\ At(c, k) \in Nat /\ At(c, k) <= Len(all) /\ at + skip = At(c, k)
      /\ o \o Between(all, at, At(c, k)) = CleanTo(c, k)
      /\ k > 0 /\ ~ Untrackable(c.requests[k])
      /\ CleanTo(c, k) \in Seq(Symbols)
  BY <1>2, Positions DEF InBody
<1> HIDE DEF all
<1>5. x = Between(all, at, at + n) /\ y = Between(all, at + n, f)
  <2>1. at <= f /\ at + n <= f /\ 0 <= n /\ n \in Nat /\ 0 \in Nat /\ n <= Len(q)
        /\ at + Len(q) <= f /\ at + 0 = at
    BY <1>3
  <2>2. Between(Between(all, at, f), 0, n) = Between(all, at + 0, at + n)
    BY <1>3, <2>1, PartOfPart
  <2>3. Between(Between(all, at, f), n, Len(q)) = Between(all, at + n, at + Len(q))
    BY <1>3, <2>1, PartOfPart
  <2> QED BY <1>3, <2>1, <2>2, <2>3
<1>6. SubSeq(q, 1, n) = x /\ SubSeq(q, n + 1, Len(q)) = y
  BY DEF Between
<1> HIDE DEF x, y
<1>7. at + n \in Nat /\ at <= at + n /\ at + n <= f /\ at + n <= At(c, k)
      /\ at + n <= Len(all) /\ skip - n \in Nat /\ (at + n) + (skip - n) = At(c, k)
  BY <1>2, <1>3, <1>4
<1>8. x \in Seq(Symbols) /\ Len(x) = n
  <2> DEFINE m == at + n
  <2>1. at \in Nat /\ m \in Nat /\ at <= m /\ m <= Len(all) /\ all \in Seq(Symbols)
        /\ m - at = n
    BY <1>3, <1>7
  <2>2. x = Between(all, at, m)
    BY <1>5
  <2> HIDE DEF m
  <2>3. Between(all, at, m) \in Seq(Symbols) /\ Len(Between(all, at, m)) = m - at
    BY <2>1, Part
  <2> QED BY <2>1, <2>2, <2>3
<1>9. y \in Seq(Symbols) /\ Len(y) = f - (at + n)
  <2> DEFINE m == at + n
  <2>1. m \in Nat /\ f \in Nat /\ m <= f /\ f <= Len(all) /\ all \in Seq(Symbols)
    BY <1>3, <1>7
  <2> HIDE DEF m
  <2>2. Between(all, m, f) \in Seq(Symbols) /\ Len(Between(all, m, f)) = f - m
    BY <2>1, Part
  <2>3. /\ Between(all, at + n, f) \in Seq(Symbols)
        /\ Len(Between(all, at + n, f)) = f - (at + n)
    BY <2>2 DEF m
  <2> QED BY <1>5, <2>3
<1>10. Where(c, f, y, <<>>, at + n)
  <2>1. <<>> \in Seq(Symbols) /\ Len(<<>>) = 0
    BY EmptySeq
  <2>2. Between(all, at + n, at + n) = <<>>
    BY <1>3, <1>7, PartsExtreme
  <2>3. (at + n) + 0 = at + n /\ (at + n) + 0 + Len(y) = f /\ f \in 0..Len(all)
    BY <1>3, <1>7, <1>9
  <2> QED BY <1>5, <1>7, <1>9, <2>1, <2>2, <2>3 DEF Where, all
<1>11. o \o x \in Seq(Symbols)
  BY <1>2, <1>8, Concat
<1>12. (o \o x) \o Between(all, at + n, At(c, k)) = CleanTo(c, k)
  <2> DEFINE z == Between(all, at + n, At(c, k))
  <2>1. z \in Seq(Symbols)
    BY <1>3, <1>4, <1>7, Part
  <2>2. x \o z = Between(all, at, At(c, k))
    <3>1. Between(all, at, at + n) \o Between(all, at + n, At(c, k)) = Between(all, at, At(c, k))
      <4>1. /\ all \in Seq(Symbols) /\ at \in Nat /\ at + n \in Nat /\ At(c, k) \in Nat
            /\ at <= at + n /\ at + n <= At(c, k) /\ At(c, k) <= Len(all)
        BY <1>3, <1>4, <1>7
      <4> QED BY <4>1, Parts
    <3> QED BY <1>5, <3>1
  <2> HIDE DEF z
  <2>a. x \in Seq(Symbols) /\ o \in Seq(Symbols)
    BY <1>2, <1>8
  <2>3. (o \o x) \o z = o \o (x \o z)
    BY <2>1, <2>a, Associative
  <2> QED BY <1>4, <2>2, <2>3 DEF z
<1>13. Doing(c, k, at + n, o \o x, <<>>, FALSE, skip - n)
  <2>1. CASE skip - n > 0
    <3>1. InBody(c, k, at + n, o \o x, skip - n)
      BY <1>4, <1>7, <1>12, <2>1 DEF InBody, all
    <3> QED BY <3>1 DEF Doing
  <2>2. CASE skip - n = 0
    <3>1. at + n = At(c, k)
      BY <1>4, <1>7, <2>2
    <3>2. Between(all, at + n, At(c, k)) = <<>>
      BY <1>3, <1>4, <3>1, PartsExtreme
    <3>3. o \o x = CleanTo(c, k)
      BY <1>11, <1>12, <3>2, ConcatEmptySeq
    <3>4. AtHead(c, k, at + n, o \o x, <<>>)
      BY <1>4, <3>1, <3>3 DEF AtHead
    <3> QED BY <2>2, <3>4 DEF Doing
  <2>3. skip - n > 0 \/ skip - n = 0
    BY <1>7
  <2> QED BY <2>1, <2>2, <2>3
<1>14. InPlace(c, f, y, <<>>, o \o x, FALSE, skip - n)
  BY <1>7, <1>10, <1>11, <1>13 DEF InPlace
<1> QED BY <1>2, <1>6, <1>8, <1>14

\* What a scan between two requests, or in a head, meets.
LEMMA Scanned ==
    ASSUME NEW c, WellFormed(c), NEW f, NEW q, NEW b, NEW k \in 0..Len(c.requests),
           Where(c, f, q, b, At(c, k)), b \o q # <<>>,
           k > 0 => ~ Untrackable(c.requests[k])
    PROVE  LET s == b \o q
               head == HeadOf(c.requests[k + 1])
           IN  \/ /\ k < Len(c.requests)
                  /\ LooksLikeHTTPRequest(s)
                  /\ Len(s) < Len(head) => HeaderEnds(s) = {}
                  /\ Len(s) >= Len(head) =>
                        /\ HeaderEnds(s) # {} /\ Min(HeaderEnds(s)) = Len(head)
                        /\ Between(s, 0, Len(head)) = head
               \/ /\ k = Len(c.requests)
                  /\ LooksLikeHTTPRequest(s) =>
                        HeaderEnds(s) = {} /\ \E m \in Methods : IsPrefix(s, m)
<1> DEFINE all == Sends(c)
           n == Len(c.requests)
           at == At(c, k)
           s == b \o q
<1>1. /\ s \in Seq(Symbols) /\ s = Between(all, at, f)
      /\ at \in Nat /\ f \in Nat /\ at <= f /\ f <= Len(all) /\ at + Len(s) = f
      /\ all \in Seq(Symbols) /\ Len(all) \in Nat
      /\ \A i \in 1..Len(s) : s[i] = all[at + i]
  BY Pending
<1>2. n \in Nat /\ s # <<>>
  BY Requests
<1>3. CASE k < n
  <2> DEFINE r == c.requests[k + 1]
             head == HeadOf(r)
  <2>1. k \in 0..(n - 1) /\ k + 1 \in 1..n /\ k + 1 \in 0..n
    BY <1>2, <1>3
  <2>2. r \in Request /\ HasHead(r) /\ r.body \in Seq(Symbols)
    BY <2>1, Requests
  <2>3. /\ head \in Seq(Symbols) /\ HeaderEnds(head) = {Len(head)}
        /\ \E m \in Methods : IsPrefix(m, head)
    <3> HIDE DEF r
    <3> QED BY <2>2, HeadScanned
  <2>4. /\ Len(head) \in Nat /\ Len(r.body) \in Nat
        /\ At(c, k + 1) = (at + Len(head)) + Len(r.body)
        /\ Between(all, at, at + Len(head)) = head
    BY <2>1, RequestAt
  <2>5. At(c, k + 1) \in Nat /\ At(c, k + 1) <= Len(all)
    BY <2>1, Positions
  <2> HIDE DEF s, all, at, head
  <2>6. at + Len(head) \in Nat /\ at <= at + Len(head) /\ at + Len(head) <= Len(all)
    <3> DEFINE next == At(c, k + 1)
               body == Len(r.body)
    <3>1. /\ at \in Nat /\ Len(head) \in Nat /\ body \in Nat /\ next \in Nat
          /\ Len(all) \in Nat /\ next <= Len(all) /\ next = (at + Len(head)) + body
      BY <1>1, <2>4, <2>5
    <3> HIDE DEF next, body
    <3> QED BY <3>1
  <2>7. \A i \in 1..Len(head) : head[i] = all[at + i]
    <3>1. \A i \in 1..((at + Len(head)) - at) : Between(all, at, at + Len(head))[i] = all[at + i]
      <4>1. all \in Seq(Symbols) /\ at \in Nat
        BY <1>1
      <4> QED BY <2>6, <4>1, Part
    <3>2. (at + Len(head)) - at = Len(head)
      BY <1>1, <2>4
    <3> QED BY <2>4, <3>1, <3>2
  <2>8. \A i \in 1..Len(s) : i <= Len(head) => s[i] = head[i]
    <3> SUFFICES ASSUME NEW i \in 1..Len(s), i <= Len(head) PROVE s[i] = head[i]
      OBVIOUS
    <3>1. i \in 1..Len(head)
      BY <2>4
    <3> QED BY <1>1, <2>7, <3>1
  <2>9. /\ LooksLikeHTTPRequest(s)
        /\ Len(s) < Len(head) => HeaderEnds(s) = {}
        /\ Len(s) >= Len(head) => HeaderEnds(s) # {} /\ Min(HeaderEnds(s)) = Len(head)
    <3>1. PICK m \in Methods : IsPrefix(m, head)
      BY <2>3
    <3>2. s \in Seq(Symbols) /\ head \in Seq(Symbols) /\ HeaderEnds(head) = {Len(head)}
      BY <1>1, <2>3
    <3> QED BY <2>8, <3>1, <3>2, ScanHead
  <2>10. ASSUME Len(s) >= Len(head) PROVE Between(s, 0, Len(head)) = head
    <3>1. Len(s) \in Nat
      BY <1>1, LenProperties
    <3>2. /\ 0 \in Nat /\ 0 <= Len(head) /\ at + Len(head) <= f /\ at + 0 = at
      BY <1>1, <2>4, <2>10, <3>1
    <3>3. Between(Between(all, at, f), 0, Len(head)) = Between(all, at + 0, at + Len(head))
      BY <1>1, <2>4, <3>2, PartOfPart
    <3> QED BY <1>1, <2>4, <3>2, <3>3
  <2> QED BY <1>3, <2>9, <2>10 DEF s, head
<1>4. CASE k = n
  <2>1. /\ c.rest \in Seq(Symbols) /\ Between(all, at, Len(all)) = c.rest
    BY <1>4, Positions, Requests
  <2>2. c.rest = <<>> \/ ~ LooksLikeHTTPRequest(c.rest)
    <3>1. c.requests # <<>> => k > 0
      BY <1>2, <1>4, EmptySeq DEF WellFormed
    <3>2. c.requests # <<>> => ~ Untrackable(Last(c.requests))
      BY <1>4, <3>1 DEF Last
    <3> QED BY <3>2 DEF WellFormed
  <2> HIDE DEF s, all, at
  <2>3. IsPrefix(s, c.rest)
    <3>1. Len(c.rest) = Len(all) - at
      <4>1. at <= Len(all) /\ Len(all) <= Len(all)
        BY <1>1
      <4>2. Len(Between(all, at, Len(all))) = Len(all) - at
        BY <1>1, <4>1, Part
      <4> QED BY <2>1, <4>2
    <3>2. /\ 0 \in Nat /\ f - at \in Nat /\ 0 <= f - at /\ at + (f - at) <= Len(all)
          /\ at <= Len(all) /\ Len(all) <= Len(all) /\ at + 0 = at /\ at + (f - at) = f
      BY <1>1
    <3>3. Between(Between(all, at, Len(all)), 0, f - at) = Between(all, at + 0, at + (f - at))
      <4> DEFINE m == f - at
                 z == Len(all)
      <4>1. /\ all \in Seq(Symbols) /\ at \in Nat /\ z \in Nat /\ m \in Nat /\ 0 \in Nat
            /\ 0 <= m /\ at + m <= z /\ at <= z /\ z <= Len(all)
        BY <1>1, <3>2
      <4> HIDE DEF m, z
      <4>2. Between(Between(all, at, z), 0, m) = Between(all, at + 0, at + m)
        BY <4>1, PartOfPart
      <4> QED BY <4>2 DEF m, z
    <3>4. s = Between(c.rest, 0, f - at)
      BY <1>1, <2>1, <3>2, <3>3
    <3>5. f - at \in 0..Len(c.rest)
      BY <1>1, <3>1, <3>2
    <3> QED BY <2>1, <3>4, <3>5, PartIsPrefix
  <2>4. ASSUME LooksLikeHTTPRequest(s)
        PROVE  HeaderEnds(s) = {} /\ \E m \in Methods : IsPrefix(s, m)
    <3>1. s \in Seq(Symbols)
      BY <1>1
    <3> QED BY <1>2, <2>1, <2>2, <2>3, <2>4, <3>1, ScanRest
  <2> QED BY <1>4, <2>4 DEF s
<1>5. k <= n /\ k \in Nat
  BY <1>2
<1> QED BY <1>2, <1>3, <1>4, <1>5

\* Between two requests, or in a head, k requests are done.
LEMMA AtSomeHead ==
    ASSUME NEW c, WellFormed(c), NEW f, NEW q, NEW b, NEW o,
           InPlace(c, f, q, b, o, FALSE, 0), q # <<>>
    PROVE  /\ b \o q # <<>> /\ o \in Seq(Symbols)
           /\ \E k \in 0..Len(c.requests) :
                 Where(c, f, q, b, At(c, k)) /\ AtHead(c, k, At(c, k), o, b)
<1>1. PICK at \in Nat, k \in 0..Len(c.requests) :
          Where(c, f, q, b, at) /\ Doing(c, k, at, o, b, FALSE, 0)
  BY DEF InPlace
<1>2. AtHead(c, k, at, o, b)
  BY <1>1 DEF Doing, InBody
<1>3. at = At(c, k)
  BY <1>2 DEF AtHead
<1>4. b \o q # <<>>
  BY <1>1, ConcatEqualIffEmpty DEF Where
<1> QED BY <1>1, <1>2, <1>3, <1>4 DEF InPlace

\* Write gives up looking for heads.
LEMMA GivenUp ==
    ASSUME NEW c, WellFormed(c), NEW f, NEW q, NEW b, NEW o,
           InPlace(c, f, q, b, o, FALSE, 0), q # <<>>,
           \/ ~ LooksLikeHTTPRequest(b \o q)
           \/ HeaderEnds(b \o q) = {} /\ ~ (Len(b \o q) <= MaxHeader)
    PROVE  /\ b \o q \in Seq(Symbols)
           /\ InPlace(c, f, <<>>, <<>>, o \o (b \o q), TRUE, 0)
<1> DEFINE s == b \o q
           n == Len(c.requests)
           all == Sends(c)
<1>1. s # <<>> /\ o \in Seq(Symbols)
  BY AtSomeHead
<1>2. PICK k \in 0..n : Where(c, f, q, b, At(c, k)) /\ AtHead(c, k, At(c, k), o, b)
  BY AtSomeHead
<1>3. /\ s \in Seq(Symbols) /\ Len(s) \in Nat
      /\ f \in Nat /\ f <= Len(all) /\ At(c, k) <= f /\ At(c, k) \in Nat
  BY <1>2, Pending, LenProperties
<1>4. k = n \/ TooLong(c.requests[k + 1])
  <2> SUFFICES ASSUME k # n PROVE TooLong(c.requests[k + 1])
    OBVIOUS
  <2> DEFINE head == HeadOf(c.requests[k + 1])
  <2>1. /\ k < n /\ LooksLikeHTTPRequest(s)
        /\ Len(s) >= Len(head) => HeaderEnds(s) # {}
    <3>1. k > 0 => ~ Untrackable(c.requests[k])
      BY <1>2 DEF AtHead
    <3>2. Where(c, f, q, b, At(c, k)) /\ b \o q # <<>>
      BY <1>1, <1>2
    <3> QED BY <3>1, <3>2, Scanned
  <2>2. ~ (Len(s) <= MaxHeader) /\ ~ (Len(s) >= Len(head))
    BY <2>1
  <2>3. Len(head) \in Nat /\ MaxHeader \in Nat
    <3>1. k \in 0..(n - 1)
      BY <2>1, Requests
    <3> QED BY <3>1, RequestAt, ScrubberAssumption
  <2> HIDE DEF head, s
  <2>4. Len(head) > MaxHeader
    BY <1>3, <2>2, <2>3
  <2> QED BY <2>4 DEF TooLong, head
<1>5. /\ o \o s = CleanTo(c, k) \o Between(all, At(c, k), f)
      /\ o \o s \in Seq(Symbols)
  <2> DEFINE x == CleanTo(c, k) \o Between(all, At(c, k), At(c, k))
  <2>1. o = x
    <3>1. Between(all, At(c, k), At(c, k)) = <<>> /\ o = CleanTo(c, k)
      BY <1>2, <1>3, Positions, PartsExtreme DEF AtHead
    <3> QED BY <1>1, <3>1, ConcatEmptySeq
  <2>2. /\ x \o (b \o q) = CleanTo(c, k) \o Between(all, At(c, k), f)
        /\ x \o (b \o q) \in Seq(Symbols)
    <3>1. Where(c, f, q, b, At(c, k)) /\ At(c, k) <= At(c, k)
      BY <1>2, <1>3
    <3> QED BY <3>1, Extended
  <2> HIDE DEF x
  <2> QED BY <2>1, <2>2
<1>6. Where(c, f, <<>>, <<>>, f)
  BY <1>3, WhereNothing
<1>7. Through(c, k, f, o \o s)
  BY <1>3, <1>4, <1>5 DEF Through
<1>8. Doing(c, k, f, o \o s, <<>>, TRUE, 0)
  BY <1>7 DEF Doing
<1> QED BY <1>3, <1>5, <1>6, <1>8 DEF InPlace

\* The beginning of a head is held back.
LEMMA HeldBack ==
    ASSUME NEW c, WellFormed(c), NEW f, NEW q, NEW b, NEW o,
           InPlace(c, f, q, b, o, FALSE, 0), q # <<>>,
           LooksLikeHTTPRequest(b \o q), HeaderEnds(b \o q) = {}, Len(b \o q) <= MaxHeader
    PROVE  InPlace(c, f, <<>>, b \o q, o, FALSE, 0)
<1> DEFINE s == b \o q
           all == Sends(c)
<1>1. o \in Seq(Symbols)
  BY AtSomeHead
<1>2. PICK k \in 0..Len(c.requests) :
          Where(c, f, q, b, At(c, k)) /\ AtHead(c, k, At(c, k), o, b)
  BY AtSomeHead
<1>3. /\ s \in Seq(Symbols) /\ Len(s) \in Nat /\ s = Between(all, At(c, k), f)
      /\ f \in Nat /\ f <= Len(all) /\ At(c, k) \in Nat /\ At(c, k) + Len(s) = f
      /\ all \in Seq(Symbols) /\ Len(all) \in Nat
  BY <1>2, Pending, LenProperties
<1>4. AtHead(c, k, At(c, k), o, s)
  BY <1>2 DEF AtHead
<1> HIDE DEF s
<1>5. Where(c, f, <<>>, s, At(c, k))
  <2>1. <<>> \in Seq(Symbols) /\ Len(<<>>) = 0 /\ Between(all, f, f) = <<>>
    BY <1>3, EmptySeq, PartsExtreme
  <2>2. At(c, k) + Len(s) + 0 = f /\ f \in 0..Len(all)
    BY <1>3
  <2> QED BY <1>3, <2>1, <2>2 DEF Where
<1>6. Doing(c, k, At(c, k), o, s, FALSE, 0)
  BY <1>4 DEF Doing
<1> QED BY <1>1, <1>3, <1>5, <1>6 DEF InPlace, s

\* A complete head is cleaned and written, and what follows it is looked at next.
LEMMA HeadWritten ==
    ASSUME NEW c, WellFormed(c), NEW f, NEW q, NEW b, NEW o,
           InPlace(c, f, q, b, o, FALSE, 0), q # <<>>,
           LooksLikeHTTPRequest(b \o q), HeaderEnds(b \o q) # {}
    PROVE  LET s == b \o q
               end == Min(HeaderEnds(s))
               head == SubSeq(s, 1, end)
               unknown == UntrackableBody(head)
           IN  /\ ScrubProxyHeaders(head) \in Seq(Symbols)
               /\ InPlace(c, f, SubSeq(s, end + 1, Len(s)), <<>>, o \o ScrubProxyHeaders(head),
                          unknown, IF unknown THEN 0 ELSE BodyLength(head))
<1> DEFINE s == b \o q
           n == Len(c.requests)
           all == Sends(c)
<1>1. s # <<>> /\ o \in Seq(Symbols)
  BY AtSomeHead
<1>2. PICK k \in 0..n : Where(c, f, q, b, At(c, k)) /\ AtHead(c, k, At(c, k), o, b)
  BY AtSomeHead
<1> DEFINE r == c.requests[k + 1]
           head == HeadOf(r)
           at == At(c, k)
           next == At(c, k + 1)
           rest == Between(s, Len(head), Len(s))
           new == o \o CleanHead(r)
<1>3. /\ s \in Seq(Symbols) /\ Len(s) \in Nat /\ s = Between(all, at, f)
      /\ f \in Nat /\ f <= Len(all) /\ at \in Nat /\ at + Len(s) = f
      /\ all \in Seq(Symbols) /\ Len(all) \in Nat
  BY <1>2, Pending, LenProperties
<1>4. /\ k < n
      /\ Len(s) < Len(head) => HeaderEnds(s) = {}
      /\ Len(s) >= Len(head) => Min(HeaderEnds(s)) = Len(head) /\ Between(s, 0, Len(head)) = head
  <2>1. k > 0 => ~ Untrackable(c.requests[k])
    BY <1>2 DEF AtHead
  <2>2. Where(c, f, q, b, At(c, k)) /\ b \o q # <<>>
    BY <1>1, <1>2
  <2> QED BY <2>1, <2>2, Scanned
<1>5. n \in Nat /\ k \in 0..(n - 1) /\ k + 1 \in 1..n /\ k + 1 \in 0..n /\ k + 1 > 0
  BY <1>4, Requests
<1>6. /\ next = (at + Len(head)) + Len(r.body)
      /\ Len(head) \in Nat /\ Len(r.body) \in Nat
      /\ Between(all, at + Len(head), next) = r.body
      /\ CleanTo(c, k + 1) = CleanTo(c, k) \o Clean(r)
  BY <1>5, RequestAt
<1>7. /\ r \in Request /\ HasHead(r) /\ head \in Seq(Symbols)
      /\ CleanHead(r) \in Seq(Symbols) /\ r.body \in Seq(Symbols)
  BY <1>5, Requests
<1>8. ScrubProxyHeaders(head) = CleanHead(r)
  BY <1>7, HeadScanned
<1>9. /\ next \in Nat /\ next <= Len(all) /\ CleanTo(c, k) \in Seq(Symbols)
      /\ CleanTo(c, k + 1) \in Seq(Symbols)
  BY <1>5, Positions
<1>10. IF Untrackable(r) THEN k + 1 = n /\ r.body = <<>> ELSE Len(r.body) = BodyLength(head)
  <2>1. k + 1 \in DOMAIN c.requests
    BY <1>5, LenProperties DEF WellFormed
  <2>2. IF Untrackable(r) THEN k + 1 = n /\ r.body = <<>> ELSE HasLength(r)
    BY <2>1 DEF WellFormed
  <2> QED BY <1>7, <2>2, BodyPlanned
<1>11. o = CleanTo(c, k)
  BY <1>2 DEF AtHead
<1>12. Untrackable(r) <=> UntrackableBody(head)
  BY <1>7, BodyPlanned
<1> HIDE DEF s, all, r, at, next, head
<1>13. Len(s) >= Len(head)
  BY <1>3, <1>4, <1>6 DEF s
<1>14. Min(HeaderEnds(s)) = Len(head) /\ SubSeq(s, 1, Len(head)) = head
       /\ SubSeq(s, Len(head) + 1, Len(s)) = rest
  BY <1>4, <1>13 DEF Between
<1>15. at + Len(head) \in Nat /\ at + Len(head) <= f /\ at + Len(head) <= next
       /\ at + Len(head) <= Len(all)
  <2> DEFINE body == Len(r.body)
             long == Len(all)
  <2>1. /\ at \in Nat /\ Len(head) \in Nat /\ Len(s) \in Nat /\ Len(head) <= Len(s)
        /\ at + Len(s) = f /\ f \in Nat /\ f <= long /\ long \in Nat
        /\ body \in Nat /\ next = (at + Len(head)) + body
    BY <1>3, <1>6, <1>13
  <2> HIDE DEF body, long
  <2>2. /\ at + Len(head) \in Nat /\ at + Len(head) <= f /\ at + Len(head) <= next
        /\ at + Len(head) <= long
    BY <2>1
  <2> QED BY <2>2 DEF long
<1>16. rest = Between(all, at + Len(head), f)
  <2>1. /\ at <= f /\ Len(head) <= Len(s) /\ at + Len(s) <= f
    BY <1>3, <1>13
  <2>2. Between(Between(all, at, f), Len(head), Len(s)) = Between(all, at + Len(head), at + Len(s))
    BY <1>3, <1>6, <2>1, PartOfPart
  <2> QED BY <1>3, <2>2
<1> HIDE DEF rest
<1>17. rest \in Seq(Symbols) /\ Len(rest) = f - (at + Len(head))
  <2>1. /\ Between(all, at + Len(head), f) \in Seq(Symbols)
        /\ Len(Between(all, at + Len(head), f)) = f - (at + Len(head))
    BY <1>3, <1>15, Part
  <2> QED BY <1>16, <2>1
<1>18. Where(c, f, rest, <<>>, at + Len(head))
  <2>1. <<>> \in Seq(Symbols) /\ Len(<<>>) = 0
    BY EmptySeq
  <2>2. Between(all, at + Len(head), at + Len(head)) = <<>>
    BY <1>3, <1>15, PartsExtreme
  <2>3. /\ (at + Len(head)) + 0 = at + Len(head) /\ f \in 0..Len(all)
        /\ (at + Len(head)) + 0 + Len(rest) = f
    BY <1>3, <1>15, <1>17
  <2> QED BY <1>15, <1>16, <1>17, <2>1, <2>2, <2>3 DEF Where, all
<1>19. new \in Seq(Symbols) /\ new \o r.body = CleanTo(c, k + 1)
  <2> DEFINE x == CleanHead(r)
             y == r.body
  <2>1. x \in Seq(Symbols) /\ y \in Seq(Symbols)
    BY <1>7
  <2> HIDE DEF x, y
  <2>2. (o \o x) \o y = o \o (x \o y) /\ o \o x \in Seq(Symbols)
    BY <1>1, <2>1, Associative, Concat
  <2> QED BY <1>6, <1>11, <2>2 DEF Clean, x, y
<1> DEFINE here == at + Len(head)
<1> HIDE DEF new
<1>20. CASE Untrackable(r)
  <2>1. r.body = <<>> /\ k + 1 = n
    BY <1>10, <1>20
  <2>2. Len(r.body) = 0 /\ next = here
    BY <1>3, <1>6, <2>1, EmptySeq
  <2>3. new = CleanTo(c, k + 1)
    BY <1>19, <2>1, ConcatEmptySeq
  <2>4. Between(all, next, next) = <<>>
    BY <1>3, <1>9, PartsExtreme
  <2>5. new = CleanTo(c, k + 1) \o Between(all, next, here)
    BY <1>9, <2>2, <2>3, <2>4, ConcatEmptySeq
  <2>6. Through(c, k + 1, here, new)
    <3>1. next <= here
      BY <1>9, <2>2
    <3> QED BY <2>1, <2>5, <3>1 DEF Through, next, all
  <2>7. Doing(c, k + 1, here, new, <<>>, TRUE, 0)
    BY <2>6 DEF Doing
  <2>8. InPlace(c, f, rest, <<>>, new, TRUE, 0)
    BY <1>5, <1>15, <1>18, <1>19, <2>7 DEF InPlace
  <2>9. UntrackableBody(head)
    BY <1>12, <1>20
  <2> QED BY <1>7, <1>8, <1>14, <2>8, <2>9 DEF new, s, head
<1>21. CASE ~ Untrackable(r)
  <2>1. BodyLength(head) = Len(r.body) /\ Len(r.body) \in Nat
    BY <1>6, <1>10, <1>21
  <2>4. Doing(c, k + 1, here, new, <<>>, FALSE, Len(r.body))
    <3>1. CASE Len(r.body) = 0
      <4>1. r.body = <<>> /\ next = here
        BY <1>3, <1>6, <1>7, <3>1, EmptySeq
      <4>2. new = CleanTo(c, k + 1)
        BY <1>19, <4>1, ConcatEmptySeq
      <4>3. AtHead(c, k + 1, here, new, <<>>)
        BY <1>21, <4>1, <4>2 DEF AtHead, next, r
      <4> QED BY <3>1, <4>3 DEF Doing
    <3>2. CASE Len(r.body) > 0
      <4>1. here + Len(r.body) = next
        BY <1>6
      <4>2. new \o Between(all, here, next) = CleanTo(c, k + 1)
        BY <1>6, <1>19
      <4>3. InBody(c, k + 1, here, new, Len(r.body))
        BY <1>5, <1>21, <3>2, <4>1, <4>2 DEF InBody, next, all, r
      <4> QED BY <4>3 DEF Doing
    <3>3. Len(r.body) = 0 \/ Len(r.body) > 0
      BY <2>1
    <3> QED BY <3>1, <3>2, <3>3
  <2>5. InPlace(c, f, rest, <<>>, new, FALSE, BodyLength(head))
    BY <1>5, <1>15, <1>18, <1>19, <2>1, <2>4 DEF InPlace
  <2>6. UntrackableBody(head) = FALSE
    BY <1>12, <1>21 DEF UntrackableBody
  <2> QED BY <1>7, <1>8, <1>14, <2>5, <2>6 DEF new, s, head
<1> QED BY <1>20, <1>21

-----------------------------------------------------------------------------
(* The steps. *)

\* The fields fit together.
LEMMA InPlaceTypes ==
    ASSUME NEW c, WellFormed(c), NEW f, NEW q, NEW b, NEW o, NEW pass, NEW skip,
           InPlace(c, f, q, b, o, pass, skip)
    PROVE  /\ f \in 0..Len(Sends(c)) /\ pass \in BOOLEAN /\ skip \in Nat
           /\ pass => skip = 0 /\ b = <<>>
           /\ skip > 0 => b = <<>>
           /\ Len(b) <= MaxHeader
<1>1. PICK at \in Nat, k \in 0..Len(c.requests) :
          Where(c, f, q, b, at) /\ Doing(c, k, at, o, b, pass, skip)
  BY DEF InPlace
<1>2. pass \in BOOLEAN /\ skip \in Nat
  BY DEF InPlace
<1>3. f \in 0..Len(Sends(c))
  BY <1>1 DEF Where
<1>4. b = <<>> => Len(b) <= MaxHeader
  BY ScrubberAssumption
<1>5. b # <<>> => ~ pass /\ skip = 0 /\ Len(b) <= MaxHeader
  BY <1>1 DEF Doing, AtHead
<1>6. pass => skip = 0
  BY <1>1, <1>2 DEF Doing
<1> QED BY <1>2, <1>3, <1>4, <1>5, <1>6

\* A write to the target, which takes all of it or fails on the way.
LEMMA Wrote ==
    ASSUME ScrubInv, WellFormed(connection), connection' = connection, fed' = fed, ~ failed,
           NEW s \in Seq(Symbols), Target(s),
           InPlace(connection, fed, p', buf', out \o s, passThrough', skipBody')
    PROVE  ScrubInv'
<1>1. /\ fed \in 0..Len(Sends(connection))
      /\ passThrough' \in BOOLEAN /\ skipBody' \in Nat
      /\ passThrough' => skipBody' = 0 /\ buf' = <<>>
      /\ skipBody' > 0 => buf' = <<>>
      /\ Len(buf') <= MaxHeader
  BY InPlaceTypes
<1>2. out \in Seq(Symbols) /\ connection \in Connections /\ failed = FALSE
  BY DEF ScrubInv, TypeOK
<1>3. out \o s \in Seq(Symbols)
      /\ \E r \in Renderings : r \in Seq(Symbols) /\ IsPrefix(out \o s, r)
  BY InPlaceSafe
<1>4. CASE out' = out \o s /\ failed' = failed
  <2>1. TypeOK'
    BY <1>1, <1>2, <1>4 DEF TypeOK
  <2> QED BY <1>2, <1>3, <1>4, <2>1 DEF ScrubInv
<1>5. CASE \E n \in 0..(Len(s) - 1) : out' = out \o SubSeq(s, 1, n) /\ failed' = TRUE
  <2>1. PICK n \in 0..(Len(s) - 1) : out' = out \o SubSeq(s, 1, n) /\ failed' = TRUE
    BY <1>5
  <2> DEFINE x == Between(s, 0, n)
             y == Between(s, n, Len(s))
  <2>2. /\ Len(s) \in Nat /\ n \in Nat /\ 0 <= n /\ n <= Len(s) /\ 0 \in Nat
        /\ Len(s) <= Len(s)
    BY LenProperties
  <2>3. x \in Seq(Symbols)
    BY <2>2, Part
  <2>4. y \in Seq(Symbols)
    BY <2>2, Part
  <2>5. x \o y = s
    <3>1. Between(s, 0, n) \o Between(s, n, Len(s)) = Between(s, 0, Len(s))
      BY <2>2, Parts
    <3>2. Between(s, 0, Len(s)) = s
      BY <2>2, PartsExtreme
    <3> QED BY <3>1, <3>2
  <2>6. out' = out \o x
    BY <2>1 DEF Between
  <2> HIDE DEF x, y
  <2>7. out \o x \in Seq(Symbols)
    BY <1>2, <2>3, Concat
  <2>8. (out \o x) \o y = out \o s
    <3>1. (out \o x) \o y = out \o (x \o y)
      <4>1. out \in Seq(Symbols) /\ x \in Seq(Symbols) /\ y \in Seq(Symbols)
        BY <1>2, <2>3, <2>4
      <4> QED BY <4>1, Associative
    <3> QED BY <2>5, <3>1
  <2>9. IsPrefix(out \o x, (out \o x) \o y)
    BY <2>4, <2>7, PrefixOfConcat
  <2>10. PICK r \in Renderings : r \in Seq(Symbols) /\ IsPrefix(out \o s, r)
    BY <1>3
  <2>11. IsPrefix(out', r)
    BY <1>3, <2>6, <2>7, <2>8, <2>9, <2>10, PrefixTransitive
  <2>12. Renderings' = Renderings
    BY DEF Renderings
  <2>13. NothingCorrupted'
    BY <2>10, <2>11, <2>12 DEF NothingCorrupted
  <2>14. TypeOK'
    BY <1>1, <1>2, <2>1 DEF TypeOK
  <2> QED BY <2>1, <2>6, <2>7, <2>13, <2>14 DEF ScrubInv
<1> QED BY <1>4, <1>5 DEF Target

\* The invariant holds at first ...
LEMMA ScrubInit == Init => ScrubInv
<1> SUFFICES ASSUME Init PROVE ScrubInv
  OBVIOUS
<1> DEFINE c == connection
<1>1. c \in Connections /\ WellFormed(c)
  BY ScrubberAssumption DEF Init
<1>2. /\ fed = 0 /\ p = <<>> /\ passThrough = FALSE /\ skipBody = 0 /\ buf = <<>>
      /\ out = <<>> /\ failed = FALSE
  BY DEF Init
<1> HIDE DEF c
<1>3. Where(c, 0, <<>>, <<>>, 0)
  <2>1. Len(Sends(c)) \in Nat /\ 0 \in Nat /\ 0 <= Len(Sends(c))
    BY <1>1, Positions
  <2> QED BY <1>1, <2>1, WhereNothing
<1>4. AtHead(c, 0, 0, <<>>, <<>>)
  BY <1>1, Positions DEF AtHead
<1>5. Doing(c, 0, 0, <<>>, <<>>, FALSE, 0)
  BY <1>4 DEF Doing
<1>6. InPlace(c, 0, <<>>, <<>>, <<>>, FALSE, 0)
  <2>1. 0 \in 0..Len(c.requests) /\ 0 \in Nat /\ <<>> \in Seq(Symbols)
    BY <1>1, Requests, EmptySeq
  <2> QED BY <1>3, <1>5, <2>1 DEF InPlace
<1>7. /\ 0 \in 0..Len(Sends(c)) /\ Len(<<>>) <= MaxHeader
  BY <1>1, <1>6, InPlaceTypes
<1>8. TypeOK
  BY <1>1, <1>2, <1>7 DEF TypeOK, c
<1>9. out \in Seq(Symbols)
  BY <1>2, EmptySeq
<1>10. InPlace(connection, fed, p, buf, out, passThrough, skipBody)
  BY <1>2, <1>6 DEF c
<1> QED BY <1>2, <1>8, <1>9, <1>10 DEF ScrubInv

\* ... and every step preserves it.
LEMMA ScrubNext == ScrubInv /\ [Next]_vars => ScrubInv'
<1> SUFFICES ASSUME ScrubInv, [Next]_vars PROVE ScrubInv'
  OBVIOUS
<1> DEFINE c == connection
           s == buf \o p
<1>1. c \in Connections /\ WellFormed(c)
  BY ScrubberAssumption DEF ScrubInv, TypeOK
<1>2. ~ failed => InPlace(c, fed, p, buf, out, passThrough, skipBody)
  BY DEF ScrubInv
<1>3. /\ out \in Seq(Symbols) /\ skipBody \in Nat /\ passThrough \in BOOLEAN
      /\ failed \in BOOLEAN
      /\ passThrough => skipBody = 0 /\ buf = <<>>
  BY DEF ScrubInv, TypeOK
<1>4. ASSUME NEW n \in 1..(Len(Sends(c)) - fed), Copy(n) PROVE ScrubInv'
  <2>1. /\ p = <<>> /\ ~ failed /\ fed + n <= Len(Sends(c)) /\ n \in Nat
        /\ p' = SubSeq(Sends(c), fed + 1, fed + n) /\ fed' = fed + n
        /\ connection' = connection /\ passThrough' = passThrough /\ skipBody' = skipBody
        /\ buf' = buf /\ out' = out /\ failed' = failed
    BY <1>4 DEF Copy
  <2>2. InPlace(c, fed, <<>>, buf, out, passThrough, skipBody)
    BY <1>2, <2>1
  <2> HIDE DEF c
  <2>3. InPlace(c, fed + n, SubSeq(Sends(c), fed + 1, fed + n), buf, out, passThrough, skipBody)
    BY <1>1, <2>1, <2>2, Copied
  <2>4. InPlace(connection', fed', p', buf', out', passThrough', skipBody')
    BY <2>1, <2>3 DEF c
  <2>5. fed' \in 0..Len(Sends(c))
    BY <1>1, <2>1, <2>3, InPlaceTypes
  <2>6. TypeOK'
    BY <2>1, <2>5 DEF ScrubInv, TypeOK, c
  <2> QED BY <1>3, <2>1, <2>4, <2>6 DEF ScrubInv
<1>5. CASE WritePassThrough
  <2>1. /\ ~ failed /\ passThrough = TRUE /\ Target(p) /\ p' = <<>>
        /\ connection' = connection /\ fed' = fed
        /\ passThrough' = passThrough /\ skipBody' = skipBody /\ buf' = buf
    BY <1>3, <1>5 DEF WritePassThrough, Busy
  <2>2. InPlace(c, fed, p, buf, out, TRUE, skipBody)
    BY <1>2, <2>1
  <2>3. p \in Seq(Symbols)
    BY <2>2 DEF InPlace, Where
  <2>4. InPlace(c, fed, <<>>, buf, out \o p, TRUE, skipBody)
    BY <1>1, <2>2, PassedThrough
  <2>5. InPlace(connection, fed, p', buf', out \o p, passThrough', skipBody')
    BY <2>1, <2>4
  <2> QED BY <1>1, <2>1, <2>3, <2>5, Wrote
<1>6. CASE WriteBody
  <2> DEFINE n == Min({Len(p), skipBody})
             x == SubSeq(p, 1, n)
             y == SubSeq(p, n + 1, Len(p))
  <2>1. /\ ~ failed /\ passThrough = FALSE /\ skipBody > 0
        /\ connection' = connection /\ fed' = fed
        /\ passThrough' = passThrough /\ buf' = buf
        /\ Target(x) /\ p' = y /\ skipBody' = skipBody - n
    BY <1>3, <1>6 DEF WriteBody, Busy
  <2>2. InPlace(c, fed, p, buf, out, FALSE, skipBody)
    BY <1>2, <2>1
  <2>3. Len(p) \in Nat
    BY <2>2, LenProperties DEF InPlace, Where
  <2>4. n \in Nat /\ n <= Len(p) /\ n <= skipBody
    BY <1>3, <2>3, MinOfTwo
  <2> HIDE DEF n
  <2>5. /\ x \in Seq(Symbols)
        /\ InPlace(c, fed, y, buf, out \o x, FALSE, skipBody - n)
    BY <1>1, <2>1, <2>2, <2>4, BodyWritten
  <2> HIDE DEF x, y
  <2>6. InPlace(connection, fed, p', buf', out \o x, passThrough', skipBody')
    BY <2>1, <2>5
  <2> QED BY <1>1, <2>1, <2>5, <2>6, Wrote
<1>7. ASSUME ~ failed, p # <<>>, passThrough = FALSE, skipBody = 0
      PROVE  InPlace(c, fed, p, buf, out, FALSE, 0)
  BY <1>2, <1>7
<1>8. ASSUME NEW x \in Seq(Symbols), Scanning, x = s,
             ~ LooksLikeHTTPRequest(s) \/ (HeaderEnds(s) = {} /\ ~ (Len(s) <= MaxHeader)),
             Target(x), passThrough' = TRUE, p' = <<>>, buf' = <<>>, skipBody' = skipBody
      PROVE  ScrubInv'
  <2>1. /\ ~ failed /\ p # <<>> /\ passThrough = FALSE /\ skipBody = 0
        /\ connection' = connection /\ fed' = fed
    BY <1>3, <1>8 DEF Scanning, Busy
  <2>2. InPlace(c, fed, p, buf, out, FALSE, 0)
    BY <1>7, <2>1
  <2>3. InPlace(c, fed, <<>>, <<>>, out \o s, TRUE, 0)
    BY <1>1, <1>8, <2>1, <2>2, GivenUp
  <2> HIDE DEF s
  <2>4. InPlace(connection, fed, p', buf', out \o x, passThrough', skipBody')
    BY <1>8, <2>1, <2>3
  <2> QED BY <1>1, <1>8, <2>1, <2>4, Wrote
<1>9. Scanning => s \in Seq(Symbols) /\ (buf = <<>> => s = p)
  <2> SUFFICES ASSUME Scanning PROVE s \in Seq(Symbols) /\ (buf = <<>> => s = p)
    OBVIOUS
  <2>1. InPlace(c, fed, p, buf, out, passThrough, skipBody)
    BY <1>2 DEF Scanning, Busy
  <2>2. p \in Seq(Symbols) /\ buf \in Seq(Symbols)
    BY <2>1 DEF InPlace, Where
  <2> QED BY <2>2, Concat, ConcatEmptySeq
<1>10. CASE WriteNotHTTP
  <2>1. /\ Scanning /\ buf = <<>> /\ ~ LooksLikeHTTPRequest(p) /\ Target(p)
        /\ passThrough' = TRUE /\ p' = <<>> /\ buf' = <<>> /\ skipBody' = skipBody
    BY <1>10 DEF WriteNotHTTP
  <2>2. s = p /\ p \in Seq(Symbols)
    BY <1>9, <2>1
  <2> HIDE DEF s
  <2> QED BY <1>8, <2>1, <2>2
<1>11. CASE AbsorbMismatch
  BY <1>8, <1>9, <1>11 DEF AbsorbMismatch, Absorbing, Mismatch, Flush
<1>12. CASE AbsorbTooLong
  BY <1>8, <1>9, <1>12 DEF AbsorbTooLong, Incomplete, Absorbing, FitsBuffer, Flush
<1>13. CASE AbsorbHead
  <2>1. /\ Scanning /\ LooksLikeHTTPRequest(s) /\ HeaderEnds(s) = {} /\ Len(s) <= MaxHeader
        /\ buf' = s /\ p' = <<>>
        /\ passThrough' = passThrough /\ skipBody' = skipBody /\ out' = out /\ failed' = failed
    BY <1>13 DEF AbsorbHead, Incomplete, Absorbing, Mismatch, FitsBuffer
  <2>2. /\ ~ failed /\ p # <<>> /\ passThrough = FALSE /\ skipBody = 0
        /\ connection' = connection /\ fed' = fed
    BY <1>3, <2>1 DEF Scanning, Busy
  <2>3. InPlace(c, fed, p, buf, out, FALSE, 0)
    BY <1>7, <2>2
  <2>4. InPlace(c, fed, <<>>, s, out, FALSE, 0)
    BY <1>1, <2>1, <2>2, <2>3, HeldBack
  <2> HIDE DEF s
  <2>5. InPlace(connection', fed', p', buf', out', passThrough', skipBody')
    BY <2>1, <2>2, <2>4
  <2>6. Len(buf') <= MaxHeader /\ passThrough' = FALSE /\ skipBody' = 0
    BY <2>1, <2>2
  <2>7. TypeOK'
    BY <2>1, <2>2, <2>6 DEF ScrubInv, TypeOK
  <2> QED BY <1>3, <2>1, <2>2, <2>5, <2>7 DEF ScrubInv
<1>14. CASE AbsorbHeadEnd
  <2> DEFINE end == Min(HeaderEnds(s))
             head == SubSeq(s, 1, end)
             x == ScrubProxyHeaders(head)
             y == SubSeq(s, end + 1, Len(s))
             unknown == UntrackableBody(head)
             body == BodyLength(head)
  <2>1. /\ Scanning /\ LooksLikeHTTPRequest(s) /\ HeaderEnds(s) # {}
        /\ Target(x) /\ p' = y /\ buf' = <<>>
        /\ IF unknown THEN passThrough' = TRUE /\ skipBody' = skipBody
           ELSE skipBody' = body /\ passThrough' = passThrough
    BY <1>14 DEF AbsorbHeadEnd, Absorbing, Mismatch, Remainder
  <2>2. /\ ~ failed /\ p # <<>> /\ passThrough = FALSE /\ skipBody = 0
        /\ connection' = connection /\ fed' = fed
    BY <1>3, <2>1 DEF Scanning, Busy
  <2>3. InPlace(c, fed, p, buf, out, FALSE, 0)
    BY <1>7, <2>2
  <2>4. /\ x \in Seq(Symbols)
        /\ InPlace(c, fed, y, <<>>, out \o x, unknown, IF unknown THEN 0 ELSE body)
    BY <1>1, <2>1, <2>2, <2>3, HeadWritten
  <2>5. unknown \in BOOLEAN
    BY DEF UntrackableBody
  <2> HIDE DEF x, y, unknown, body, s
  <2>6. passThrough' = unknown /\ skipBody' = IF unknown THEN 0 ELSE body
    BY <2>1, <2>2, <2>5
  <2>7. InPlace(connection, fed, p', buf', out \o x, passThrough', skipBody')
    BY <2>1, <2>4, <2>6
  <2> QED BY <1>1, <2>1, <2>2, <2>4, <2>7, Wrote
<1>15. CASE UNCHANGED vars
  <2>1. /\ connection' = connection /\ fed' = fed /\ p' = p /\ passThrough' = passThrough
        /\ skipBody' = skipBody /\ buf' = buf /\ out' = out /\ failed' = failed
    BY <1>15 DEF vars
  <2>2. TypeOK' /\ (NothingCorrupted => NothingCorrupted')
    BY <2>1 DEF ScrubInv, TypeOK, NothingCorrupted, Renderings
  <2> QED BY <2>1, <2>2 DEF ScrubInv
<1> QED
  BY <1>4, <1>5, <1>6, <1>10, <1>11, <1>12, <1>13, <1>14, <1>15 DEF Next, Write

-----------------------------------------------------------------------------
(* The theorems. *)

\* At every point of every copy ScrubConn is where InPlace says.
THEOREM ScrubInvariant == Spec => []ScrubInv
<1>1. Init => ScrubInv
  BY ScrubInit
<1>2. ScrubInv /\ [Next]_vars => ScrubInv'
  BY ScrubNext
<1> QED BY <1>1, <1>2, PTL DEF Spec

\* ScrubConn passes through, skips a body or holds a head, never two of them,
\* and the buffer is bounded.
THEOREM ScrubTypes == Spec => []TypeOK
<1>1. ScrubInv => TypeOK
  BY DEF ScrubInv
<1> QED BY <1>1, ScrubInvariant, PTL

\* Whatever the writes, and wherever the target fails, what has reached it is the
\* beginning of the cleaned connection.
THEOREM ScrubUncorrupted == Spec => []NothingCorrupted
<1>1. ScrubInv => NothingCorrupted
  <2> SUFFICES ASSUME ScrubInv, ~ failed PROVE NothingCorrupted
    BY DEF ScrubInv
  <2>1. WellFormed(connection)
    BY ScrubberAssumption DEF ScrubInv, TypeOK
  <2>2. InPlace(connection, fed, p, buf, out, passThrough, skipBody)
    BY DEF ScrubInv
  <2> QED BY <2>1, <2>2, InPlaceSafe DEF NothingCorrupted
<1> QED BY <1>1, ScrubInvariant, PTL

\* Where something is held back: an unfinished head, or what may become one.
LEMMA HeldWhere ==
    ASSUME NEW c, WellFormed(c), NEW f, NEW b, NEW o, NEW pass, NEW skip,
           InPlace(c, f, <<>>, b, o, pass, skip), b # <<>>
    PROVE  \E k \in 0..Len(c.requests) :
              /\ At(c, k) + Len(b) = f /\ b = Between(Sends(c), At(c, k), f)
              /\ LooksLikeHTTPRequest(b)
              /\ k > 0 => ~ Untrackable(c.requests[k])
              /\ k < Len(c.requests) => Len(b) < Len(HeadOf(c.requests[k + 1]))
              /\ k = Len(c.requests) => \E m \in Methods : IsPrefix(b, m)
<1>1. PICK at \in Nat, k \in 0..Len(c.requests) :
          Where(c, f, <<>>, b, at) /\ Doing(c, k, at, o, b, pass, skip)
  BY DEF InPlace
<1>2. AtHead(c, k, at, o, b)
  BY <1>1 DEF Doing
<1>3. /\ at = At(c, k) /\ LooksLikeHTTPRequest(b) /\ HeaderEnds(b) = {}
      /\ k > 0 => ~ Untrackable(c.requests[k])
  BY <1>2 DEF AtHead
<1>4. Where(c, f, <<>>, b, At(c, k))
  BY <1>1, <1>3
<1>5. b \o <<>> = b /\ b \in Seq(Symbols)
  BY <1>4, ConcatEmptySeq DEF Where
<1>6. b = Between(Sends(c), At(c, k), f) /\ At(c, k) + Len(b) = f /\ Len(b) \in Nat
  <2> DEFINE z == At(c, k)
             e == <<>>
  <2>a. Where(c, f, e, b, z)
    BY <1>4
  <2> HIDE DEF z, e
  <2>b. b \o e = Between(Sends(c), z, f) /\ z + Len(b \o e) = f
    BY <2>a, Pending
  <2>1. b \o <<>> = Between(Sends(c), At(c, k), f) /\ At(c, k) + Len(b \o <<>>) = f
    BY <2>b DEF z, e
  <2> QED BY <1>5, <2>1, LenProperties
<1> DEFINE s == b \o <<>>
           head == HeadOf(c.requests[k + 1])
<1>7. \/ /\ k < Len(c.requests)
         /\ Len(s) >= Len(head) => HeaderEnds(s) # {}
      \/ /\ k = Len(c.requests)
         /\ LooksLikeHTTPRequest(s) => \E m \in Methods : IsPrefix(s, m)
  <2>1. b \o <<>> # <<>>
    BY <1>5
  <2> QED BY <1>3, <1>4, <2>1, Scanned
<1>8. s = b
  BY <1>5
<1>9. k < Len(c.requests) => Len(head) \in Nat
  <2> SUFFICES ASSUME k < Len(c.requests) PROVE Len(head) \in Nat
    OBVIOUS
  <2>1. k \in 0..(Len(c.requests) - 1)
    BY Requests
  <2> QED BY <2>1, RequestAt
<1>10. k < Len(c.requests) => k # Len(c.requests)
  BY Requests
<1> HIDE DEF s, head
<1>11. k < Len(c.requests) => Len(b) < Len(head)
  BY <1>3, <1>6, <1>7, <1>8, <1>9, <1>10
<1>12. k = Len(c.requests) => \E m \in Methods : IsPrefix(b, m)
  BY <1>3, <1>7, <1>8, <1>10
<1> QED BY <1>3, <1>6, <1>11, <1>12 DEF head

\* Nothing but an unfinished head is ever held back.
THEOREM ScrubHolds == Spec => []OnlyHeadsHeld
<1>1. ScrubInv => OnlyHeadsHeld
  <2> SUFFICES ASSUME ScrubInv, p = <<>>, ~ failed, buf # <<>>
               PROVE  \E k \in DOMAIN Boundaries :
                         /\ Boundaries[k] = fed - Len(buf)
                         /\ IF k \in DOMAIN connection.requests
                            THEN Len(buf) < Len(HeadOf(connection.requests[k]))
                            ELSE \E m \in Methods : IsPrefix(buf, m)
    BY DEF OnlyHeadsHeld
  <2>1. WellFormed(connection)
    BY ScrubberAssumption DEF ScrubInv, TypeOK
  <2>2. InPlace(connection, fed, <<>>, buf, out, passThrough, skipBody)
    BY DEF ScrubInv
  <2>3. PICK k \in 0..Len(connection.requests) :
            /\ At(connection, k) + Len(buf) = fed
            /\ k < Len(connection.requests) =>
                  Len(buf) < Len(HeadOf(connection.requests[k + 1]))
            /\ k = Len(connection.requests) => \E m \in Methods : IsPrefix(buf, m)
    BY <2>1, <2>2, HeldWhere
  <2>4. k + 1 \in DOMAIN Boundaries /\ Boundaries[k + 1] = At(connection, k)
    BY <2>1, BoundaryAt
  <2>5. At(connection, k) \in Nat /\ Len(buf) \in Nat
    <3>1. buf \in Seq(Symbols)
      BY <2>2 DEF InPlace, Where
    <3> QED BY <2>1, <3>1, Positions, LenProperties
  <2>6. Boundaries[k + 1] = fed - Len(buf)
    BY <2>3, <2>4, <2>5
  <2>7. /\ Len(connection.requests) \in Nat
        /\ DOMAIN connection.requests = 1..Len(connection.requests)
    BY <2>1, Requests, LenProperties DEF WellFormed
  <2>8. IF k + 1 \in DOMAIN connection.requests
        THEN Len(buf) < Len(HeadOf(connection.requests[k + 1]))
        ELSE \E m \in Methods : IsPrefix(buf, m)
    <3>1. CASE k < Len(connection.requests)
      BY <2>3, <2>7, <3>1
    <3>2. CASE k = Len(connection.requests)
      BY <2>3, <2>7, <3>2
    <3> QED BY <2>7, <3>1, <3>2
  <2> QED BY <2>4, <2>6, <2>8
<1> QED BY <1>1, ScrubInvariant, PTL

\* At the end of the connection everything is done.
LEMMA AllThere ==
    ASSUME WellFormed(connection), NEW b, NEW o, NEW pass, NEW skip,
           InPlace(connection, Len(Sends(connection)), <<>>, b, o, pass, skip)
    PROVE  o \in Renderings
<1> DEFINE c == connection
           all == Sends(c)
           n == Len(c.requests)
           long == Len(all)
<1>0. n \in Nat
  BY Requests
<1>1. PICK at \in Nat, k \in 0..n : Where(c, long, <<>>, b, at) /\ Doing(c, k, at, o, b, pass, skip)
  BY DEF InPlace
<1>2. /\ all \in Seq(Symbols) /\ long \in Nat
      /\ \A j \in 0..n : At(c, j) \in Nat /\ At(c, j) <= long /\ CleanTo(c, j) \in Seq(Symbols)
      /\ Between(all, At(c, n), long) = c.rest
  BY Positions
<1>3. /\ Len(b) \in Nat /\ at + Len(b) = long
      /\ o \in Seq(Symbols) /\ skip \in Nat
  BY <1>1, LenProperties, EmptySeq DEF Where, InPlace
<1>4. ASSUME NEW j \in 0..n, j < n
      PROVE  /\ Len(HeadOf(c.requests[j + 1])) \in Nat
             /\ Len(HeadOf(c.requests[j + 1])) > 0
             /\ At(c, j) + Len(HeadOf(c.requests[j + 1])) <= long
  <2> DEFINE r == c.requests[j + 1]
             head == HeadOf(r)
             next == At(c, j + 1)
             body == Len(r.body)
             here == At(c, j)
  <2>1. j \in 0..(n - 1) /\ j + 1 \in 0..n /\ j + 1 \in 1..n
    BY <1>0, <1>4
  <2>2. next = (here + Len(head)) + body /\ Len(head) \in Nat /\ body \in Nat
    BY <2>1, RequestAt
  <2>3. next \in Nat /\ next <= long /\ here \in Nat /\ long \in Nat
    BY <1>2, <2>1
  <2>4. r \in Request /\ HasHead(r)
    BY <2>1, Requests
  <2>5. Len(head) > 0
    <3> HIDE DEF r
    <3>1. HeaderEnds(head) = {Len(head)}
      BY <2>4, HeadScanned
    <3>2. Len(head) \in 2..Len(head)
      BY <3>1 DEF HeaderEnds
    <3> HIDE DEF head
    <3> QED BY <3>2
  <2> HIDE DEF next, body, here, head, long
  <2>6. here + Len(head) <= long
    BY <2>2, <2>3
  <2> QED BY <2>2, <2>5, <2>6 DEF here, long, head, r
<1>5. b = <<>>
  <2> SUFFICES ASSUME b # <<>> PROVE FALSE
    OBVIOUS
  <2>1. InPlace(c, long, <<>>, b, o, pass, skip)
    OBVIOUS
  <2>2. PICK j \in 0..n :
              /\ At(c, j) + Len(b) = long /\ b = Between(all, At(c, j), long)
              /\ LooksLikeHTTPRequest(b)
              /\ j > 0 => ~ Untrackable(c.requests[j])
              /\ j < n => Len(b) < Len(HeadOf(c.requests[j + 1]))
    BY <2>1, HeldWhere
  <2>3. CASE j < n
    <3> DEFINE here == At(c, j)
               head == Len(HeadOf(c.requests[j + 1]))
    <3>1. /\ head \in Nat /\ here + head <= long /\ here + Len(b) = long /\ Len(b) < head
          /\ here \in Nat /\ long \in Nat /\ Len(b) \in Nat
      BY <1>2, <1>3, <1>4, <2>2, <2>3
    <3> HIDE DEF here, head, long
    <3> QED BY <3>1
  <2>4. CASE j = n
    <3>1. b = c.rest
      BY <1>2, <2>2, <2>4
    <3>2. c.requests # <<>> => n > 0
      BY <1>0, EmptySeq DEF WellFormed
    <3>3. c.requests # <<>> => ~ Untrackable(Last(c.requests))
      BY <2>2, <2>4, <3>2 DEF Last
    <3> QED BY <2>2, <3>1, <3>3 DEF WellFormed
  <2> QED BY <1>0, <2>3, <2>4
<1>6. at = long
  BY <1>3, <1>5, EmptySeq
<1>7. CASE AtHead(c, k, at, o, b)
  <2>1. at = At(c, k) /\ o = CleanTo(c, k)
    BY <1>7 DEF AtHead
  <2>2. k = n
    <3> SUFFICES ASSUME k < n PROVE FALSE
      BY <1>0
    <3> DEFINE head == Len(HeadOf(c.requests[k + 1]))
    <3>1. head \in Nat /\ head > 0 /\ long + head <= long /\ long \in Nat
      BY <1>2, <1>4, <1>6, <2>1
    <3> HIDE DEF head, long
    <3> QED BY <3>1
  <2>3. CleanTo(c, k) \o Between(all, At(c, k), long) \in Renderings
    BY <2>2, Rendered
  <2>4. Between(all, At(c, k), long) = <<>>
    BY <1>2, <1>6, <2>1, PartsExtreme
  <2>5. o \o <<>> = o
    BY <1>3, ConcatEmptySeq
  <2> QED BY <2>1, <2>3, <2>4, <2>5
<1>8. CASE InBody(c, k, at, o, skip)
  <2> DEFINE here == At(c, k)
  <2>1. skip > 0 /\ at + skip = here /\ here \in Nat /\ here <= long
    BY <1>2, <1>8 DEF InBody
  <2> HIDE DEF here, long
  <2> QED BY <1>3, <1>6, <2>1
<1>9. CASE Through(c, k, at, o)
  <2>1. /\ k = n \/ TooLong(c.requests[k + 1])
        /\ o = CleanTo(c, k) \o Between(all, At(c, k), long)
    BY <1>6, <1>9 DEF Through
  <2> QED BY <2>1, Rendered
<1> QED BY <1>1, <1>7, <1>8, <1>9 DEF Doing

\* Once all of it has been written, all of it is there.
THEOREM ScrubComplete == Spec => []AllWritten
<1>1. ScrubInv => AllWritten
  <2> SUFFICES ASSUME ScrubInv, p = <<>>, ~ failed, fed = Len(Sends(connection))
               PROVE  out \in Renderings
    BY DEF AllWritten
  <2>1. WellFormed(connection)
    BY ScrubberAssumption DEF ScrubInv, TypeOK
  <2>2. InPlace(connection, Len(Sends(connection)), <<>>, buf, out, passThrough, skipBody)
    BY DEF ScrubInv
  <2> QED BY <2>1, <2>2, AllThere
<1> QED BY <1>1, ScrubInvariant, PTL

=============================================================================
