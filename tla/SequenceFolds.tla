---------------------------- MODULE SequenceFolds ----------------------------
(***************************************************************************)
(* FoldLeft of an operator, for any operator.  An INSTANCE of this module  *)
(* gives its facts for an operator of the model: the library defines a     *)
(* fold by recursion on sets of indices, and these are what follows by     *)
(* induction.                                                              *)
(***************************************************************************)
EXTENDS Naturals, Sequences, SequencesExt, WellFoundedInduction, TLAPS

CONSTANT Op(_, _)

Fold(base, s) == FoldLeft(Op, base, s)

-----------------------------------------------------------------------------
(* Induction.                                                               *)

\* A set of numbers that has zero and, with a number, the next, has them all.
THEOREM SetInduction ==
  ASSUME NEW T, 0 \in T, \A n \in Nat : n \in T => n + 1 \in T
  PROVE  Nat \subseteq T
<1> SUFFICES ASSUME NEW n \in Nat, n \notin T PROVE FALSE
  OBVIOUS
<1> DEFINE U == Nat \ T
<1>1. U # {} /\ U \subseteq Nat
  OBVIOUS
<1>2. PICK m \in U : \A y \in U : ~(<<y, m>> \in OpToRel(<, Nat))
  <2> HIDE DEF U
  <2> QED BY <1>1, NatLessThanWellFounded, WFMin
<1>3. m \in Nat /\ m \notin T
  OBVIOUS
<1>4. m - 1 \in Nat /\ m - 1 < m /\ m - 1 + 1 = m
  BY <1>3
<1>5. <<m - 1, m>> \in OpToRel(<, Nat)
  BY <1>3, <1>4 DEF OpToRel
<1>6. m - 1 \in T
  BY <1>2, <1>4, <1>5
<1> QED BY <1>3, <1>4, <1>6

-----------------------------------------------------------------------------
(* The library's recursion.                                                 *)

IsIter(g, base, s, n) ==
  g = [S \in SUBSET (1..n) |-> IF S = {} THEN base ELSE Op(g[S \ {Max(S)}], s[Max(S)])]

LEMMA MaxOfInterval ==
  ASSUME NEW n \in Nat, NEW S \in SUBSET (1..n), n \in S
  PROVE  Max(S) = n
<1>1. \A y \in S : n >= y
  OBVIOUS
<1>2. \A x \in S : (\A y \in S : x >= y) => x = n
  OBVIOUS
<1> QED BY <1>1, <1>2 DEF Max

\* The recursion has a solution on the subsets of every interval.
LEMMA IterExists ==
  ASSUME NEW base, NEW s, NEW n \in Nat
  PROVE  \E g : IsIter(g, base, s, n)
<1> DEFINE T == {m \in Nat : \E g : IsIter(g, base, s, m)}
<1>1. 0 \in T
  <2>1. SUBSET (1..0) = {{}}
    OBVIOUS
  <2>2. IsIter([S \in SUBSET (1..0) |-> base], base, s, 0)
    BY <2>1 DEF IsIter
  <2> QED BY <2>2
<1>2. ASSUME NEW m \in Nat, m \in T PROVE m + 1 \in T
  <2>1. PICK g : IsIter(g, base, s, m)
    BY <1>2
  <2>2. \A S \in SUBSET (1..m) :
          g[S] = IF S = {} THEN base ELSE Op(g[S \ {Max(S)}], s[Max(S)])
    BY <2>1 DEF IsIter
  <2> DEFINE h == [S \in SUBSET (1..m + 1) |->
                     IF m + 1 \in S THEN Op(g[S \ {m + 1}], s[m + 1]) ELSE g[S]]
  <2>3. \A S \in SUBSET (1..m) : h[S] = g[S]
    OBVIOUS
  <2>4. ASSUME NEW S \in SUBSET (1..m + 1)
        PROVE  h[S] = IF S = {} THEN base ELSE Op(h[S \ {Max(S)}], s[Max(S)])
    <3>1. CASE m + 1 \in S
      <4>1. Max(S) = m + 1
        BY <3>1, MaxOfInterval
      <4>2. S \ {m + 1} \in SUBSET (1..m)
        OBVIOUS
      <4>3. h[S \ {m + 1}] = g[S \ {m + 1}]
        <5> HIDE DEF h
        <5> QED BY <2>3, <4>2
      <4>4. h[S] = Op(g[S \ {m + 1}], s[m + 1])
        BY <3>1
      <4> HIDE DEF h
      <4> QED BY <3>1, <4>1, <4>3, <4>4
    <3>2. CASE m + 1 \notin S
      <4>1. S \in SUBSET (1..m) /\ S \ {Max(S)} \in SUBSET (1..m)
        <5>1. \A x \in S : x \in 1..m
          BY <3>2
        <5> QED BY <5>1
      <4> HIDE DEF h
      <4> QED BY <2>2, <2>3, <4>1
    <3> QED BY <3>1, <3>2
  <2>5. IsIter(h, base, s, m + 1)
    BY <2>4 DEF IsIter
  <2> QED BY <2>5
<1>3. n \in T
  <2> HIDE DEF T
  <2> QED BY <1>1, <1>2, SetInduction
<1> QED BY <1>3

\* A run of the fold: its results after each element.
IsRun(f, base, s) ==
  /\ f[0] = base
  /\ \A i \in 1..Len(s) : f[i] = Op(f[i - 1], s[i])

LEMMA RunExists ==
  ASSUME NEW base, NEW S, NEW s \in Seq(S)
  PROVE  \E f : IsRun(f, base, s) /\ Fold(base, s) = f[Len(s)]
<1> DEFINE n == Len(s)
<1>1. n \in Nat /\ DOMAIN s = 1..n
  OBVIOUS
<1> DEFINE g == CHOOSE g : IsIter(g, base, s, n)
<1>2. Fold(base, s) = g[1..n]
  BY <1>1 DEF Fold, FoldLeft, MapThenFoldSet, IsIter
<1> HIDE DEF n
<1>3. IsIter(g, base, s, n)
  BY <1>1, IterExists
<1> HIDE DEF g
<1>4. \A R \in SUBSET (1..n) : g[R] = IF R = {} THEN base ELSE Op(g[R \ {Max(R)}], s[Max(R)])
  BY <1>3 DEF IsIter
<1> DEFINE f == [i \in 0..n |-> g[1..i]]
<1>5. f[0] = base
  <2>1. 1..0 = {} /\ {} \in SUBSET (1..n)
    OBVIOUS
  <2>2. g[{}] = base
    BY <1>4, <2>1
  <2>3. f[0] = g[1..0]
    BY <1>1
  <2> QED BY <2>1, <2>2, <2>3
<1>6. ASSUME NEW i \in 1..n PROVE f[i] = Op(f[i - 1], s[i])
  <2>1. i \in Nat /\ i \in 1..i /\ 1..i \in SUBSET (1..i) /\ i - 1 \in Nat /\ i - 1 \in 0..n /\ i \in 0..n /\ i - 1 + 1 = i
    BY <1>1
  <2>2. Max(1..i) = i
    BY <2>1, MaxOfInterval
  <2>3. 1..i \in SUBSET (1..n) /\ 1..i # {} /\ (1..i) \ {i} = 1..i - 1
    BY <1>1
  <2> QED BY <1>4, <2>1, <2>2, <2>3
<1>7. f[n] = g[1..n]
  BY <1>1
<1> HIDE DEF f
<1> QED BY <1>2, <1>5, <1>6, <1>7 DEF IsRun, n

\* Runs of sequences that begin alike agree so far.
LEMMA RunsAgree ==
  ASSUME NEW base, NEW s, NEW t, NEW f, NEW h, IsRun(f, base, s), IsRun(h, base, t),
         NEW k \in Nat, k <= Len(s), k <= Len(t), Len(s) \in Nat, Len(t) \in Nat,
         \A i \in 1..k : s[i] = t[i]
  PROVE  f[k] = h[k]
<1> DEFINE T == {i \in Nat : i <= k => f[i] = h[i]}
<1>1. 0 \in T
  BY DEF IsRun
<1>2. ASSUME NEW i \in Nat, i \in T PROVE i + 1 \in T
  <2> SUFFICES ASSUME i + 1 <= k PROVE f[i + 1] = h[i + 1]
    OBVIOUS
  <2>1. f[i] = h[i] /\ i + 1 \in 1..k /\ i + 1 - 1 = i /\ i + 1 \in 1..Len(s) /\ i + 1 \in 1..Len(t)
    BY <1>2
  <2> QED BY <2>1 DEF IsRun
<1>3. k \in T
  <2> HIDE DEF T
  <2> QED BY <1>1, <1>2, SetInduction
<1> QED BY <1>3

-----------------------------------------------------------------------------
(* What users of a fold need.                                               *)

THEOREM FoldEmpty == ASSUME NEW base PROVE Fold(base, <<>>) = base
<1>1. <<>> \in Seq({}) /\ Len(<<>>) = 0
  OBVIOUS
<1>2. PICK f : IsRun(f, base, <<>>) /\ Fold(base, <<>>) = f[0]
  BY <1>1, RunExists
<1> QED BY <1>2 DEF IsRun

THEOREM FoldAppend ==
  ASSUME NEW base, NEW S, NEW s \in Seq(S), NEW x \in S
  PROVE  Fold(base, Append(s, x)) = Op(Fold(base, s), x)
<1> DEFINE t == Append(s, x)
           n == Len(s)
<1>1. /\ t \in Seq(S) /\ Len(t) = n + 1 /\ n \in Nat /\ t[n + 1] = x
      /\ \A i \in 1..n : t[i] = s[i]
  OBVIOUS
<1> HIDE DEF t
<1>2. PICK f : IsRun(f, base, s) /\ Fold(base, s) = f[n]
  BY RunExists
<1>3. PICK h : IsRun(h, base, t) /\ Fold(base, t) = h[n + 1]
  BY <1>1, RunExists
<1> HIDE DEF n
<1>4. h[n] = f[n]
  BY <1>1, <1>2, <1>3, RunsAgree DEF n
<1>5. h[n + 1] = Op(h[n + 1 - 1], t[n + 1])
  BY <1>1, <1>3 DEF IsRun
<1>6. n + 1 - 1 = n
  BY <1>1
<1> QED BY <1>1, <1>2, <1>3, <1>4, <1>5, <1>6 DEF t

\* A part of a sequence grows by its next element.
LEMMA NextPart ==
  ASSUME NEW S, NEW s \in Seq(S), NEW i \in Nat \ {0}, NEW j \in Nat,
         i <= j + 1, j + 1 <= Len(s)
  PROVE  /\ SubSeq(s, i, j) \in Seq(S) /\ s[j + 1] \in S
         /\ SubSeq(s, i, j + 1) = Append(SubSeq(s, i, j), s[j + 1])
<1> DEFINE u == SubSeq(s, i, j)
           v == SubSeq(s, i, j + 1)
           w == Append(u, s[j + 1])
           n == j + 1 - i
<1>1. /\ u \in Seq(S) /\ Len(u) = n /\ \A m \in 1..n : u[m] = s[i + m - 1]
      /\ v \in Seq(S) /\ Len(v) = n + 1 /\ \A m \in 1..n + 1 : v[m] = s[i + m - 1]
      /\ s[j + 1] \in S /\ i + (n + 1) - 1 = j + 1 /\ n \in Nat
  OBVIOUS
<1> HIDE DEF u, v, n
<1>2. w \in Seq(S) /\ Len(w) = n + 1 /\ w[n + 1] = s[j + 1] /\ \A m \in 1..n : w[m] = u[m]
  BY <1>1
<1> HIDE DEF w
<1>3. ASSUME NEW m \in 1..n + 1 PROVE v[m] = w[m]
  <2>1. v[m] = s[i + m - 1]
    BY <1>1
  <2>2. CASE m = n + 1
    BY <1>1, <1>2, <2>1, <2>2
  <2>3. CASE m \in 1..n
    BY <1>1, <1>2, <2>1, <2>3
  <2> QED BY <1>1, <2>2, <2>3
<1>4. v = w
  BY <1>1, <1>2, <1>3
<1> QED BY <1>1, <1>4 DEF u, v, w

\* The fold of a part, one element at a time.
THEOREM FoldPart ==
  ASSUME NEW base, NEW S, NEW s \in Seq(S), NEW i \in Nat \ {0}
  PROVE  /\ Fold(base, SubSeq(s, i, i - 1)) = base
         /\ \A j \in Nat : i <= j + 1 /\ j + 1 <= Len(s) =>
              Fold(base, SubSeq(s, i, j + 1)) = Op(Fold(base, SubSeq(s, i, j)), s[j + 1])
<1>1. SubSeq(s, i, i - 1) = <<>>
  OBVIOUS
<1>2. ASSUME NEW j \in Nat, i <= j + 1, j + 1 <= Len(s)
      PROVE  Fold(base, SubSeq(s, i, j + 1)) = Op(Fold(base, SubSeq(s, i, j)), s[j + 1])
  <2> DEFINE u == SubSeq(s, i, j)
             x == s[j + 1]
  <2>1. u \in Seq(S) /\ x \in S /\ SubSeq(s, i, j + 1) = Append(u, x)
    BY <1>2, NextPart
  <2> HIDE DEF u, x
  <2>2. Fold(base, Append(u, x)) = Op(Fold(base, u), x)
    BY <2>1, FoldAppend
  <2> QED BY <2>1, <2>2, Zenon DEF u, x
<1> QED BY <1>1, <1>2, FoldEmpty

\* The fold of a concatenation goes on where that of its first part ended.
THEOREM FoldConcat ==
  ASSUME NEW base, NEW S, NEW s \in Seq(S), NEW t \in Seq(S)
  PROVE  Fold(base, s \o t) = Fold(Fold(base, s), t)
<1> DEFINE T == {k \in Nat : k <= Len(t) =>
                   Fold(base, s \o SubSeq(t, 1, k)) = Fold(Fold(base, s), SubSeq(t, 1, k))}
<1>1. 0 \in T
  <2>1. SubSeq(t, 1, 0) = <<>> /\ s \o <<>> = s
    OBVIOUS
  <2> QED BY <2>1, FoldEmpty
<1>2. ASSUME NEW k \in Nat, k \in T PROVE k + 1 \in T
  <2> SUFFICES ASSUME k + 1 <= Len(t)
               PROVE  Fold(base, s \o SubSeq(t, 1, k + 1))
                        = Fold(Fold(base, s), SubSeq(t, 1, k + 1))
    OBVIOUS
  <2> DEFINE u == SubSeq(t, 1, k)
             x == t[k + 1]
  <2>1. Fold(base, s \o u) = Fold(Fold(base, s), u) /\ k < Len(t)
    BY <1>2
  <2>2. u \in Seq(S) /\ x \in S /\ SubSeq(t, 1, k + 1) = Append(u, x)
    BY <2>1, NextPart
  <2> HIDE DEF u, x
  <2>3. s \o u \in Seq(S) /\ s \o Append(u, x) = Append(s \o u, x)
    BY <2>2
  <2>4. Fold(base, Append(s \o u, x)) = Op(Fold(base, s \o u), x)
    <3> DEFINE v == s \o u
    <3>1. v \in Seq(S)
      BY <2>3
    <3> HIDE DEF v
    <3>2. Fold(base, Append(v, x)) = Op(Fold(base, v), x)
      BY <2>2, <3>1, FoldAppend
    <3> QED BY <3>2 DEF v
  <2>5. Fold(Fold(base, s), Append(u, x)) = Op(Fold(Fold(base, s), u), x)
    BY <2>2, FoldAppend
  <2>6. Fold(base, s \o u) = Fold(Fold(base, s), u)
    BY <2>1 DEF u
  <2> QED BY <2>2, <2>3, <2>4, <2>5, <2>6, Zenon
<1>3. Len(t) \in Nat /\ SubSeq(t, 1, Len(t)) = t
  OBVIOUS
<1>4. Len(t) \in T
  <2> HIDE DEF T
  <2> QED BY <1>1, <1>2, <1>3, SetInduction
<1>5. Fold(base, s \o SubSeq(t, 1, Len(t))) = Fold(Fold(base, s), SubSeq(t, 1, Len(t)))
  BY <1>3, <1>4
<1> QED BY <1>3, <1>5, Zenon

\* ... and that of a sequence with a new head begins one step later.
THEOREM FoldCons ==
  ASSUME NEW base, NEW S, NEW x \in S, NEW s \in Seq(S)
  PROVE  Fold(base, <<x>> \o s) = Fold(Op(base, x), s)
<1> DEFINE none == <<>>
           one == <<x>>
<1>2. none \in Seq(S) /\ one \in Seq(S) /\ one = Append(none, x)
  OBVIOUS
<1>3. Fold(base, none) = base
  BY FoldEmpty
<1> HIDE DEF none, one
<1>4. Fold(base, Append(none, x)) = Op(Fold(base, none), x)
  BY <1>2, FoldAppend
<1>5. Fold(base, one \o s) = Fold(Fold(base, one), s)
  <2>1. ASSUME NEW u \in Seq(S) PROVE Fold(base, u \o s) = Fold(Fold(base, u), s)
    BY FoldConcat
  <2> QED BY <1>2, <2>1
<1>6. Fold(base, one \o s) = Fold(Op(base, x), s)
  BY <1>2, <1>3, <1>4, <1>5, Zenon
<1> QED BY <1>6 DEF one

===============================================================================
