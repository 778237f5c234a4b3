--------------------------- MODULE SequenceLemmas ---------------------------
(***************************************************************************)
(* Facts about sequences that the proofs about the TCP brokers need: what  *)
(* is left of a log from some place on, and what a reader takes of it.     *)
(***************************************************************************)
EXTENDS SequencesExt, SequenceTheorems, WellFoundedInduction, TLAPS

\* The elements of the rest of a sequence.
LEMMA SuffixElements ==
    ASSUME NEW S, NEW all \in Seq(S), NEW n \in Nat, n <= Len(all)
    PROVE  /\ Len(SubSeq(all, n + 1, Len(all))) = Len(all) - n
           /\ \A i \in 1..(Len(all) - n) : SubSeq(all, n + 1, Len(all))[i] = all[n + i]
<1> DEFINE m == Len(all)
           a == SubSeq(all, n + 1, m)
<1>1. m \in Nat /\ n \in Nat /\ n <= m
  BY LenProperties
<1>2. \A i \in (n + 1)..m : all[i] \in S
  BY <1>1, ElementOfSeq
<1> HIDE DEF m
<1>3. /\ Len(a) = IF n + 1 <= m THEN m - (n + 1) + 1 ELSE 0
      /\ \A i \in 1..(m - (n + 1) + 1) : a[i] = all[(n + 1) + i - 1]
  BY <1>1, <1>2, SubSeqProperties
<1> HIDE DEF a
<1>4. Len(a) = m - n
  BY <1>1, <1>3
<1>5. ASSUME NEW i \in 1..(m - n)
      PROVE  a[i] = all[n + i]
  <2>1. i \in 1..(m - (n + 1) + 1) /\ (n + 1) + i - 1 = n + i
    BY <1>1
  <2> QED
    BY <1>3, <2>1
<1> QED
  BY <1>4, <1>5 DEF a, m

\* The rest of a sequence from some place on grows with it.
LEMMA SuffixGrows ==
    ASSUME NEW S, NEW all \in Seq(S), NEW c \in Seq(S), NEW n \in Nat, n <= Len(all)
    PROVE  SubSeq(all, n + 1, Len(all)) \o c = SubSeq(all \o c, n + 1, Len(all \o c))
<1> DEFINE a == SubSeq(all, n + 1, Len(all))
           m == Len(all)
           k == Len(c)
           whole == all \o c
           part == SubSeq(whole, n + 1, m + k)
<1>1. m \in Nat /\ k \in Nat /\ n \in Nat /\ n <= m
  BY LenProperties
<1>2. /\ whole \in Seq(S) /\ Len(whole) = m + k
      /\ \A i \in 1..(m + k) : whole[i] = IF i <= m THEN all[i] ELSE c[i - m]
  BY ConcatProperties
<1>3. /\ a \in Seq(S) /\ Len(a) = m - n
      /\ \A i \in 1..(m - n) : a[i] = all[n + i]
  <2>1. \A i \in (n + 1)..m : all[i] \in S
    BY <1>1, ElementOfSeq
  <2>2. a \in Seq(S)
    BY <1>1, <2>1, SubSeqProperties
  <2> QED
    BY <2>2, SuffixElements
<1> HIDE DEF a
<1>4. /\ a \o c \in Seq(S) /\ Len(a \o c) = (m - n) + k
      /\ \A i \in 1..((m - n) + k) : (a \o c)[i] = IF i <= m - n THEN a[i] ELSE c[i - (m - n)]
  <2>1. /\ a \o c \in Seq(S) /\ Len(a \o c) = Len(a) + k
        /\ \A i \in 1..(Len(a) + k) : (a \o c)[i] = IF i <= Len(a) THEN a[i] ELSE c[i - Len(a)]
    BY <1>3, ConcatProperties
  <2> QED
    BY <1>3, <2>1
<1>5. /\ part \in Seq(S) /\ Len(part) = (m + k) - n
      /\ \A i \in 1..((m + k) - n) : part[i] = whole[n + i]
  <2>1. \A i \in (n + 1)..(m + k) : whole[i] \in S
    BY <1>1, <1>2, ElementOfSeq
  <2> HIDE DEF whole, m, k
  <2>2. /\ part \in Seq(S)
        /\ Len(part) = IF n + 1 <= m + k THEN (m + k) - (n + 1) + 1 ELSE 0
        /\ \A i \in 1..((m + k) - (n + 1) + 1) : part[i] = whole[(n + 1) + i - 1]
    BY <1>1, <2>1, SubSeqProperties
  <2> HIDE DEF part
  <2>3. Len(part) = (m + k) - n
    BY <1>1, <2>2
  <2>4. ASSUME NEW i \in 1..((m + k) - n)
        PROVE  part[i] = whole[n + i]
    <3>1. i \in 1..((m + k) - (n + 1) + 1) /\ (n + 1) + i - 1 = n + i
      BY <1>1
    <3> QED
      BY <2>2, <3>1
  <2> QED
    BY <2>2, <2>3, <2>4
<1> HIDE DEF whole, m, k, part
<1>6. ASSUME NEW i \in 1..((m + k) - n)
      PROVE  (a \o c)[i] = part[i]
  <2>1. i \in 1..((m - n) + k) /\ n + i \in 1..(m + k)
    BY <1>1
  <2>2. CASE i <= m - n
    <3>1. i \in 1..(m - n) /\ n + i <= m
      BY <1>1, <2>2
    <3>2. (a \o c)[i] = all[n + i]
      BY <1>3, <1>4, <2>1, <3>1, <2>2
    <3>3. part[i] = all[n + i]
      BY <1>2, <1>5, <2>1, <3>1
    <3> QED
      BY <3>2, <3>3
  <2>3. CASE ~(i <= m - n)
    <3>1. ~(n + i <= m) /\ i - (m - n) = (n + i) - m
      BY <1>1, <2>3
    <3>2. (a \o c)[i] = c[(n + i) - m]
      BY <1>4, <2>1, <2>3, <3>1
    <3>3. part[i] = c[(n + i) - m]
      BY <1>2, <1>5, <2>1, <3>1
    <3> QED
      BY <3>2, <3>3
  <2> QED
    BY <2>2, <2>3
<1>7. Len(a \o c) = (m + k) - n
  BY <1>1, <1>4
<1>8. a \o c = part
  BY <1>4, <1>5, <1>6, <1>7, SeqEqual
<1> QED
  BY <1>2, <1>8 DEF a, part, whole, m, k

\* The first unit on the way is the one that comes next.
LEMMA NextUnit ==
    ASSUME NEW S, NEW g \in Seq(S), NEW w \in Seq(S), NEW c \in Seq(S),
           NEW all \in Seq(S), NEW n \in Nat, n <= Len(all), w # <<>>,
           g \o w \o c = SubSeq(all, n + 1, Len(all))
    PROVE  n + Len(g) < Len(all) /\ Head(w) = all[n + Len(g) + 1]
<1> DEFINE m == Len(all)
           l == Len(g)
           v == Len(w)
           u == Len(c)
           gw == g \o w
           a == SubSeq(all, n + 1, Len(all))
<1>1. m \in Nat /\ l \in Nat /\ u \in Nat /\ v \in Nat /\ v >= 1
  BY LenProperties, EmptySeq
<1>2. /\ gw \in Seq(S) /\ Len(gw) = l + v
      /\ \A i \in 1..(l + v) : gw[i] = IF i <= l THEN g[i] ELSE w[i - l]
  BY ConcatProperties
<1>3. a = gw \o c /\ Head(w) = w[1]
  OBVIOUS
<1>4. /\ Len(a) = m - n
      /\ \A i \in 1..(m - n) : a[i] = all[n + i]
  BY SuffixElements
<1> HIDE DEF gw, a
<1>5. /\ Len(a) = Len(gw) + u
      /\ \A i \in 1..(Len(gw) + u) : a[i] = IF i <= Len(gw) THEN gw[i] ELSE c[i - Len(gw)]
  <2>1. gw \in Seq(S)
    BY <1>2
  <2>2. /\ Len(gw \o c) = Len(gw) + Len(c)
        /\ \A i \in 1..(Len(gw) + Len(c)) :
               (gw \o c)[i] = IF i <= Len(gw) THEN gw[i] ELSE c[i - Len(gw)]
    BY <2>1, ConcatProperties
  <2> QED
    BY <1>3, <2>2
<1> HIDE DEF m, l, v, u
<1>6. l + v + u = m - n
  BY <1>2, <1>4, <1>5
<1>7. /\ n + l < m /\ l + 1 \in 1..(m - n) /\ l + 1 \in 1..(l + v)
      /\ l + 1 \in 1..((l + v) + u) /\ l + 1 <= l + v /\ ~(l + 1 <= l) /\ (l + 1) - l = 1
      /\ n + (l + 1) = n + l + 1
  BY <1>1, <1>6
<1>8. a[l + 1] = gw[l + 1]
  BY <1>2, <1>5, <1>7
<1>9. gw[l + 1] = w[1]
  BY <1>2, <1>7
<1>10. a[l + 1] = all[n + l + 1]
  BY <1>4, <1>7
<1> QED
  BY <1>3, <1>7, <1>8, <1>9, <1>10 DEF m, l

\* Reading moves the first unit on the way to the end of what is read.
LEMMA ReadMoves ==
    ASSUME NEW S, NEW g \in Seq(S), NEW w \in Seq(S), w # <<>>
    PROVE  Append(g, Head(w)) \o Tail(w) = g \o w
<1>1. /\ Head(w) \in S /\ Tail(w) \in Seq(S)
  BY HeadTailProperties
<1>2. w = <<Head(w)>> \o Tail(w)
  <2>1. /\ Len(w) \in Nat \ {0} /\ SubSeq(w, 1, Len(w)) = w
    BY EmptySeq, SubSeqFull
  <2>2. 1 \in 1..Len(w) /\ Len(w) \in 1..Len(w)
    BY <2>1
  <2>3. SubSeq(w, 1, Len(w)) = <<w[1]>> \o SubSeq(w, 1 + 1, Len(w))
    BY <2>2, SubSeqRecursiveFirst
  <2>4. Head(w) = w[1] /\ Tail(w) = SubSeq(w, 2, Len(w))
    BY TailIsSubSeq, <2>1
  <2> QED
    BY <2>1, <2>3, <2>4
<1>3. Append(g, Head(w)) = g \o <<Head(w)>>
  BY <1>1, AppendIsConcat
<1>4. <<Head(w)>> \in Seq(S)
  BY <1>1
<1>5. (g \o <<Head(w)>>) \o Tail(w) = g \o (<<Head(w)>> \o Tail(w))
  BY <1>1, <1>4, ConcatAssociative
<1> QED
  BY <1>2, <1>3, <1>5

\* A chunk that is pending may as well be on its way.
LEMMA ChunkMoves ==
    ASSUME NEW S, NEW g \in Seq(S), NEW w \in Seq(S), NEW c \in Seq(S)
    PROVE  g \o (w \o c) \o <<>> = g \o w \o c
<1>1. w \o c \in Seq(S)
  BY ConcatProperties
<1>2. g \o (w \o c) \in Seq(S)
  BY <1>1, ConcatProperties
<1>3. g \o (w \o c) \o <<>> = g \o (w \o c)
  BY <1>2, ConcatEmptySeq
<1>4. (g \o w) \o c = g \o (w \o c)
  BY ConcatAssociative
<1> QED
  BY <1>3, <1>4

------------------------------------------------------------------------------
(* Induction.  The theorems of the library take the formula to prove as an *)
(* operator; these take the set of the numbers that satisfy it.            *)

LEMMA LeastNumber ==
    ASSUME NEW T, T \subseteq Nat, T # {}
    PROVE  \E x \in T : \A y \in T : x <= y
<1>1. IsWellFoundedOn(OpToRel(<, Nat), Nat)
  BY NatLessThanWellFounded
<1>2. PICK x \in T : \A y \in T : ~ (<<y, x>> \in OpToRel(<, Nat))
  BY <1>1, WFMin
<1>3. \A y \in T : ~ (y < x)
  BY <1>2 DEF OpToRel
<1> QED
  BY <1>3

LEMMA SetInduction ==
    ASSUME NEW T, 0 \in T, \A n \in Nat : n \in T => n + 1 \in T
    PROVE  \A n \in Nat : n \in T
<1> DEFINE Others == {n \in Nat : n \notin T}
<1>1. SUFFICES ASSUME Others # {}
               PROVE  FALSE
  OBVIOUS
<1>2. PICK x \in Others : \A y \in Others : x <= y
  <2>1. Others \subseteq Nat
    OBVIOUS
  <2> HIDE DEF Others
  <2> QED
    BY <1>1, <2>1, LeastNumber
<1>3. x \in Nat /\ x # 0 /\ x \notin T
  BY <1>2
<1>4. x - 1 \in Nat /\ (x - 1) + 1 = x /\ ~(x <= x - 1)
  BY <1>3
<1>5. x - 1 \in T
  BY <1>2, <1>4
<1> QED
  BY <1>3, <1>4, <1>5

------------------------------------------------------------------------------
(* The streams of the publishers, one after the other                      *)

\* f[i] is what the first i sequences of q make together.
Joins(f, q, n) == f = [i \in 1..n |-> IF i = 1 THEN q[i] ELSE f[i - 1] \o q[i]]

LEMMA JoinsExists ==
    ASSUME NEW q, NEW n \in Nat
    PROVE  \E f : Joins(f, q, n)
<1> DEFINE T == {k \in Nat : \E f : Joins(f, q, k)}
<1>1. 0 \in T
  <2> DEFINE f == [i \in 1..0 |-> q[i]]
  <2>1. f = [i \in 1..0 |-> IF i = 1 THEN q[i] ELSE f[i - 1] \o q[i]]
    OBVIOUS
  <2> QED
    BY <2>1 DEF Joins
<1>2. ASSUME NEW k \in Nat, k \in T
      PROVE  k + 1 \in T
  <2>1. PICK f : Joins(f, q, k)
    BY <1>2
  <2> DEFINE g == [i \in 1..(k + 1) |->
                       IF i \in 1..k THEN f[i]
                       ELSE IF i = 1 THEN q[i] ELSE f[i - 1] \o q[i]]
             h == [i \in 1..(k + 1) |-> IF i = 1 THEN q[i] ELSE g[i - 1] \o q[i]]
  <2>2. \A i \in 1..k : f[i] = IF i = 1 THEN q[i] ELSE f[i - 1] \o q[i]
    BY <2>1 DEF Joins
  <2>3. ASSUME NEW i \in 1..(k + 1)
        PROVE  g[i] = h[i]
    <3>1. CASE i = 1
      BY <2>2, <3>1
    <3>2. CASE i # 1
      <4>1. i - 1 \in 1..k /\ i - 1 \in 1..(k + 1)
        BY <3>2
      <4>2. g[i - 1] = f[i - 1]
        BY <4>1
      <4>3. g[i] = f[i - 1] \o q[i]
        BY <2>2, <3>2
      <4>4. h[i] = g[i - 1] \o q[i]
        BY <3>2
      <4> QED
        BY <4>2, <4>3, <4>4
    <3> QED
      BY <3>1, <3>2
  <2>4. g = h
    <3>1. g = [i \in 1..(k + 1) |-> g[i]] /\ h = [i \in 1..(k + 1) |-> h[i]]
      OBVIOUS
    <3> HIDE DEF g, h
    <3> QED
      BY <2>3, <3>1
  <2>5. Joins(g, q, k + 1)
    BY <2>4 DEF Joins
  <2> QED
    BY <2>5
<1> HIDE DEF T
<1>3. n \in T
  BY <1>1, <1>2, SetInduction
<1> QED
  BY <1>3 DEF T

\* What FlattenSeq makes of sequences: nothing of none, and else what the last
\* of the joins is.
LEMMA FlattenIsJoin ==
    ASSUME NEW q, Len(q) \in Nat, Len(q) # 0
    PROVE  \E f : Joins(f, q, Len(q)) /\ FlattenSeq(q) = f[Len(q)]
<1> DEFINE n == Len(q)
           flat == CHOOSE f : f = [i \in 1..n |-> IF i = 1 THEN q[i] ELSE f[i - 1] \o q[i]]
<1>1. \E f : f = [i \in 1..n |-> IF i = 1 THEN q[i] ELSE f[i - 1] \o q[i]]
  BY JoinsExists DEF Joins
<1>2. flat = [i \in 1..n |-> IF i = 1 THEN q[i] ELSE flat[i - 1] \o q[i]]
  BY <1>1
<1>3. FlattenSeq(q) = flat[n]
  BY DEF FlattenSeq
<1> QED
  BY <1>2, <1>3 DEF Joins

LEMMA JoinsValue ==
    ASSUME NEW f, NEW q, NEW n, Joins(f, q, n), NEW i \in 1..n
    PROVE  f[i] = IF i = 1 THEN q[i] ELSE f[i - 1] \o q[i]
  BY DEF Joins

\* f and g agree up to m.
Agree(f, g, m) == \A i \in 1..m : f[i] = g[i]

\* Joins of sequences that begin alike begin alike.
LEMMA JoinsAgree ==
    ASSUME NEW q, NEW r, NEW m \in Nat, NEW n \in Nat, NEW f, NEW g,
           Joins(f, q, m), Joins(g, r, n), m <= n, Agree(q, r, m)
    PROVE  Agree(f, g, m)
<1> USE DEF Agree
<1> DEFINE T == {i \in Nat : i \in 1..m => f[i] = g[i]}
<1>1. 0 \in T
  OBVIOUS
<1>2. ASSUME NEW i \in Nat, i \in T
      PROVE  i + 1 \in T
  <2>1. SUFFICES ASSUME i + 1 \in 1..m
                 PROVE  f[i + 1] = g[i + 1]
    OBVIOUS
  <2>2. /\ f[i + 1] = IF i + 1 = 1 THEN q[i + 1] ELSE f[(i + 1) - 1] \o q[i + 1]
        /\ g[i + 1] = IF i + 1 = 1 THEN r[i + 1] ELSE g[(i + 1) - 1] \o r[i + 1]
        /\ q[i + 1] = r[i + 1]
    <3> DEFINE j == i + 1
    <3>1. j \in 1..m /\ j \in 1..n
      BY <2>1
    <3> HIDE DEF j
    <3>2. /\ f[j] = IF j = 1 THEN q[j] ELSE f[j - 1] \o q[j]
          /\ g[j] = IF j = 1 THEN r[j] ELSE g[j - 1] \o r[j]
          /\ q[j] = r[j]
      BY <3>1, JoinsValue
    <3> QED
      BY <3>2 DEF j
  <2>3. CASE i = 0
    BY <2>2, <2>3
  <2>4. CASE i # 0
    <3>1. i \in 1..m /\ (i + 1) - 1 = i /\ i + 1 # 1
      BY <2>1, <2>4
    <3>2. f[i] = g[i]
      BY <1>2, <3>1
    <3> QED
      BY <2>2, <3>1, <3>2
  <2> QED
    BY <2>3, <2>4
<1> HIDE DEF T
<1>3. \A i \in Nat : i \in T
  BY <1>1, <1>2, SetInduction
<1> QED
  BY <1>3 DEF T

LEMMA FlattenEmpty ==
    FlattenSeq(<<>>) = <<>>
  BY DEF FlattenSeq

LEMMA FlattenType ==
    ASSUME NEW S, NEW q \in Seq(Seq(S))
    PROVE  FlattenSeq(q) \in Seq(S)
<1>1. CASE q = <<>>
  BY <1>1, FlattenEmpty, EmptySeq
<1>2. CASE q # <<>>
  <2> DEFINE n == Len(q)
  <2>1. n \in Nat \ {0} /\ \A i \in 1..n : q[i] \in Seq(S)
    BY <1>2, EmptySeq, ElementOfSeq
  <2>2. PICK f : Joins(f, q, n) /\ FlattenSeq(q) = f[n]
    BY <2>1, FlattenIsJoin
  <2> HIDE DEF n
  <2> DEFINE T == {i \in Nat : i \in 1..n => f[i] \in Seq(S)}
  <2>3. 0 \in T
    OBVIOUS
  <2>4. ASSUME NEW i \in Nat, i \in T
        PROVE  i + 1 \in T
    <3>1. SUFFICES ASSUME i + 1 \in 1..n
                   PROVE  f[i + 1] \in Seq(S)
      OBVIOUS
    <3>2. /\ f[i + 1] = IF i + 1 = 1 THEN q[i + 1] ELSE f[(i + 1) - 1] \o q[i + 1]
          /\ q[i + 1] \in Seq(S)
      BY <2>1, <2>2, <3>1 DEF Joins
    <3>3. CASE i = 0
      BY <3>2, <3>3
    <3>4. CASE i # 0
      <4>1. i \in 1..n /\ (i + 1) - 1 = i /\ i + 1 # 1
        BY <2>1, <3>1, <3>4
      <4>2. f[i] \in Seq(S)
        BY <2>4, <4>1
      <4>3. f[i + 1] = f[i] \o q[i + 1]
        BY <3>2, <4>1
      <4> QED
        BY <3>2, <4>2, <4>3, ConcatProperties
    <3> QED
      BY <3>3, <3>4
  <2> HIDE DEF T
  <2>5. n \in T
    BY <2>1, <2>3, <2>4, SetInduction
  <2> QED
    BY <2>1, <2>2, <2>5 DEF T
<1> QED
  BY <1>1, <1>2

LEMMA FlattenAppend ==
    ASSUME NEW S, NEW q \in Seq(Seq(S)), NEW x \in Seq(S)
    PROVE  FlattenSeq(Append(q, x)) = FlattenSeq(q) \o x
<1> DEFINE n == Len(q)
           r == Append(q, x)
<1>1. /\ n \in Nat /\ r \in Seq(Seq(S)) /\ Len(r) = n + 1
      /\ r[n + 1] = x /\ \A i \in 1..n : r[i] = q[i]
  BY AppendProperties, LenProperties
<1> HIDE DEF r
<1>2. PICK g : Joins(g, r, n + 1) /\ FlattenSeq(r) = g[n + 1]
  BY SMTT(30), <1>1, FlattenIsJoin
<1>3. g[n + 1] = IF n + 1 = 1 THEN r[n + 1] ELSE g[(n + 1) - 1] \o r[n + 1]
  <2>1. n + 1 \in 1..(n + 1)
    BY <1>1
  <2> HIDE DEF n
  <2> QED
    BY <1>2, <2>1 DEF Joins
<1>4. CASE q = <<>>
  <2>1. n + 1 = 1
    BY <1>4
  <2>2. FlattenSeq(r) = x
    BY <1>1, <1>2, <1>3, <2>1
  <2>3. <<>> \o x = x
    BY ConcatEmptySeq
  <2> QED
    BY <1>4, <2>2, <2>3, FlattenEmpty DEF r
<1>5. CASE q # <<>>
  <2>1. n # 0
    BY <1>5, EmptySeq
  <2>2. PICK f : Joins(f, q, n) /\ FlattenSeq(q) = f[n]
    BY <1>1, <2>1, FlattenIsJoin
  <2> HIDE DEF n
  <2>3. n \in 1..n /\ n <= n + 1 /\ n + 1 \in Nat /\ n + 1 # 1 /\ (n + 1) - 1 = n
    BY <1>1, <2>1
  <2>4. \A i \in 1..n : f[i] = g[i]
    <3> DEFINE k == n + 1
    <3>1. /\ n \in Nat /\ k \in Nat /\ n <= k /\ Joins(f, q, n) /\ Joins(g, r, k)
          /\ Agree(q, r, n)
      BY <1>1, <1>2, <2>2, <2>3 DEF Agree
    <3> HIDE DEF k
    <3>2. Agree(f, g, n)
      BY <3>1, JoinsAgree
    <3> QED
      BY <3>2 DEF Agree
  <2> QED
    BY <1>1, <1>2, <1>3, <2>2, <2>3, <2>4 DEF r
<1> QED
  BY <1>4, <1>5
==============================================================================
