--------------------------- MODULE SequenceFacts ---------------------------
(***************************************************************************)
(* Facts about natural numbers and sequences that the proofs of several    *)
(* modules need.                                                           *)
(*                                                                         *)
(* An induction is over a set of numbers, and a definition by recursion    *)
(* along a sequence is a fold: its step is a function, so that the facts   *)
(* can be cited for any step.                                              *)
(***************************************************************************)
EXTENDS Integers, Sequences, SequencesExt, WellFoundedInduction, TLAPS

-----------------------------------------------------------------------------
(***************************************************************************)
(* Induction.                                                              *)
(***************************************************************************)
\* Every non-empty set of naturals has a least element.
LEMMA LeastNat ==
  ASSUME NEW B \in SUBSET Nat, B # {}
  PROVE  \E m \in B : \A k \in B : m <= k
<1> DEFINE R == {p \in Nat \X Nat : p[1] < p[2]}
<1>1. IsWellFoundedOn(R, Nat)
  BY NatLessThanWellFounded DEF OpToRel
<1>2. PICK m \in B : \A k \in B : <<k, m>> \notin R
  BY <1>1, WFMin
<1>3. ASSUME NEW k \in B PROVE m <= k
  <2>1. <<k, m>> \in Nat \X Nat /\ <<k, m>> \notin R
    BY <1>2
  <2>2. ~(k < m)
    BY <2>1
  <2> QED BY <2>2
<1> QED BY <1>3

LEMMA GreatestUpTo ==
  ASSUME NEW N \in Nat, NEW B \in SUBSET (0 .. N), B # {}
  PROVE  \E m \in B : \A k \in B : k <= m
<1> DEFINE A == {n \in 0 .. N : N - n \in B}
<1>1. A \in SUBSET Nat /\ A # {}
  <2>1. PICK b \in B : TRUE
    OBVIOUS
  <2>2. N - b \in 0 .. N /\ N - (N - b) = b
    OBVIOUS
  <2> QED BY <2>2
<1>2. PICK a \in A : \A k \in A : a <= k
  <2> HIDE DEF A
  <2> QED BY <1>1, LeastNat
<1>3. ASSUME NEW k \in B PROVE k <= N - a
  <2>1. N - k \in 0 .. N /\ N - (N - k) = k
    OBVIOUS
  <2>2. a <= N - k
    BY <1>2, <2>1
  <2> QED BY <2>2
<1> QED BY <1>3

\* A set that has the numbers up to N one after the other has them all.
LEMMA UpTo ==
  ASSUME NEW N \in Nat, NEW S, 0 \in S, \A n \in 1 .. N : n - 1 \in S => n \in S
  PROVE  \A n \in 0 .. N : n \in S
<1> DEFINE B == {n \in 0 .. N : n \notin S}
<1>1. SUFFICES ASSUME B # {} PROVE FALSE
  OBVIOUS
<1>2. PICK m \in B : \A k \in B : m <= k
  <2>1. B \in SUBSET Nat
    OBVIOUS
  <2> HIDE DEF B
  <2> QED BY <1>1, <2>1, LeastNat
<1>3. m \in 1 .. N /\ m - 1 \in 0 .. N /\ m - 1 \notin B
  BY <1>2
<1> QED BY <1>2, <1>3

-----------------------------------------------------------------------------
(***************************************************************************)
(* Folds.                                                                  *)
(***************************************************************************)
IsFold(f, N, base, step) == f[0] = base /\ \A n \in 1 .. N : f[n] = step[<<f[n - 1], n>>]

\* There is a fold for each step.
LEMMA FoldExists ==
  ASSUME NEW V, NEW N \in Nat, NEW base \in V, NEW step \in [V \X (1 .. N) -> V]
  PROVE  \E f \in [0 .. N -> V] : IsFold(f, N, base, step)
<1> DEFINE S == {n \in 0 .. N : \E f \in [0 .. n -> V] : IsFold(f, n, base, step)}
<1>1. 0 \in S
  <2> DEFINE g == [i \in 0 .. 0 |-> base]
  <2>1. g \in [0 .. 0 -> V] /\ IsFold(g, 0, base, step)
    BY DEF IsFold
  <2> QED BY <2>1
<1>2. ASSUME NEW n \in 1 .. N, n - 1 \in S PROVE n \in S
  <2>1. PICK f \in [0 .. n - 1 -> V] : IsFold(f, n - 1, base, step)
    BY <1>2
  <2> DEFINE g == [i \in 0 .. n |-> IF i = n THEN step[<<f[n - 1], n>>] ELSE f[i]]
  <2>2. g \in [0 .. n -> V]
    OBVIOUS
  <2>3. g[0] = base
    BY <2>1 DEF IsFold
  <2>4. ASSUME NEW i \in 1 .. n PROVE g[i] = step[<<g[i - 1], i>>]
    <3>1. g[i - 1] = f[i - 1]
      OBVIOUS
    <3>2. CASE i = n
      BY <3>1, <3>2
    <3>3. CASE i # n
      <4>1. i \in 1 .. n - 1 /\ g[i] = f[i]
        BY <3>3
      <4> QED BY <2>1, <3>1, <4>1 DEF IsFold
    <3> QED BY <3>2, <3>3
  <2>5. IsFold(g, n, base, step)
    <3> HIDE DEF g
    <3> QED BY <2>3, <2>4 DEF IsFold
  <2> QED BY <2>2, <2>5
<1>3. \A n \in 0 .. N : n \in S
  <2> HIDE DEF S
  <2> QED BY <1>1, <1>2, UpTo
<1> QED BY <1>3

\* Two functions that begin alike and go on alike are alike.
Alike(f, g, N) == f[0] = g[0] /\ \A n \in 1 .. N : f[n - 1] = g[n - 1] => f[n] = g[n]

LEMMA SameFold ==
  ASSUME NEW N \in Nat, NEW f, NEW g, Alike(f, g, N)
  PROVE  \A n \in 0 .. N : f[n] = g[n]
<1> DEFINE S == {n \in 0 .. N : f[n] = g[n]}
<1>1. 0 \in S /\ \A n \in 1 .. N : n - 1 \in S => n \in S
  BY DEF Alike
<1>2. \A n \in 0 .. N : n \in S
  <2> HIDE DEF S
  <2> QED BY <1>1, UpTo
<1> QED BY <1>2

-----------------------------------------------------------------------------
(***************************************************************************)
(* Concatenation.                                                          *)
(***************************************************************************)
LEMMA ConcatEmpty ==
  ASSUME NEW T, NEW s \in Seq(T)
  PROVE  <<>> \o s = s /\ s \o <<>> = s
OBVIOUS

LEMMA ConcatAssociative ==
  ASSUME NEW T, NEW r \in Seq(T), NEW s \in Seq(T), NEW t \in Seq(T)
  PROVE  (r \o s) \o t = r \o (s \o t)
OBVIOUS

LEMMA ConcatAppend ==
  ASSUME NEW T, NEW r \in Seq(T), NEW s \in Seq(T), NEW x \in T
  PROVE  r \o Append(s, x) = Append(r \o s, x)
OBVIOUS

LEMMA ConcatFirst ==
  ASSUME NEW T, NEW s \in Seq(T), s # <<>>
  PROVE  s = <<Head(s)>> \o Tail(s) /\ Head(s) \in T /\ Tail(s) \in Seq(T)
OBVIOUS

LEMMA ConcatLast ==
  ASSUME NEW T, NEW s \in Seq(T), NEW x \in T
  PROVE  s \o <<x>> = Append(s, x)
OBVIOUS

LEMMA PrefixStep ==
  ASSUME NEW T, NEW s \in Seq(T), NEW n \in 1 .. Len(s)
  PROVE  /\ SubSeq(s, 1, n - 1) \in Seq(T) /\ s[n] \in T
         /\ SubSeq(s, 1, n) = Append(SubSeq(s, 1, n - 1), s[n])
OBVIOUS

LEMMA PrefixEnds ==
  ASSUME NEW T, NEW s \in Seq(T)
  PROVE  SubSeq(s, 1, 0) = <<>> /\ SubSeq(s, 1, Len(s)) = s
OBVIOUS

\* What is so of the empty sequence, and of each longer one if of the one before it.
LEMMA SequencesBuilt ==
  ASSUME NEW T, NEW S, <<>> \in S,
         \A r \in Seq(T) : \A x \in T : r \in S => Append(r, x) \in S
  PROVE  \A s \in Seq(T) : s \in S
<1> SUFFICES ASSUME NEW s \in Seq(T) PROVE s \in S
  OBVIOUS
<1> DEFINE N == Len(s)
           M == {n \in 0 .. N : SubSeq(s, 1, n) \in S}
<1>1. N \in Nat /\ SubSeq(s, 1, 0) = <<>> /\ SubSeq(s, 1, N) = s
  BY PrefixEnds
<1>2. 0 \in M
  <2>1. SubSeq(s, 1, 0) \in S
    BY <1>1, Zenon
  <2> QED BY <1>1, <2>1
<1>3. ASSUME NEW n \in 1 .. N, n - 1 \in M PROVE n \in M
  <2>1. /\ SubSeq(s, 1, n - 1) \in Seq(T) /\ s[n] \in T
        /\ SubSeq(s, 1, n) = Append(SubSeq(s, 1, n - 1), s[n])
    BY PrefixStep
  <2>2. SubSeq(s, 1, n - 1) \in S
    BY <1>3
  <2>3. SubSeq(s, 1, n) \in S
    BY <2>1, <2>2, Zenon
  <2> QED BY <2>3
<1>4. \A n \in 0 .. N : n \in M
  <2> HIDE DEF M, N
  <2> QED BY <1>1, <1>2, <1>3, UpTo
<1>5. N \in M
  <2> HIDE DEF M
  <2> QED BY <1>1, <1>4
<1> QED BY <1>1, <1>5, Zenon

-----------------------------------------------------------------------------
(***************************************************************************)
(* FlattenSeq.                                                             *)
(***************************************************************************)
\* f has the texts of the first parts of ss.
Flattens(f, ss) ==
  f[0] = <<>> /\ \A n \in 1 .. Len(ss) : f[n] = f[n - 1] \o ss[n]

LEMMA FlattenIsFold ==
  ASSUME NEW T, NEW ss \in Seq(Seq(T))
  PROVE  \E f \in [0 .. Len(ss) -> Seq(T)] : Flattens(f, ss) /\ FlattenSeq(ss) = f[Len(ss)]
<1> DEFINE N == Len(ss)
           step == [p \in Seq(T) \X (1 .. N) |-> p[1] \o ss[p[2]]]
<1>1. N \in Nat /\ \A n \in 1 .. N : ss[n] \in Seq(T) /\ n - 1 \in 0 .. N
  OBVIOUS
<1> HIDE DEF N
<1>2. step \in [Seq(T) \X (1 .. N) -> Seq(T)]
  <2>1. ASSUME NEW v \in Seq(T), NEW n \in 1 .. N PROVE v \o ss[n] \in Seq(T)
    BY <1>1
  <2> QED BY <2>1
<1>3. PICK f : f \in [0 .. N -> Seq(T)] /\ IsFold(f, N, <<>>, step)
  <2>1. <<>> \in Seq(T)
    OBVIOUS
  <2> HIDE DEF step
  <2> QED BY <1>1, <1>2, <2>1, FoldExists
<1>4. f[0] = <<>> /\ \A n \in 1 .. N : f[n] = f[n - 1] \o ss[n]
  <2>1. ASSUME NEW n \in 1 .. N PROVE f[n] = f[n - 1] \o ss[n]
    <3>1. f[n - 1] \in Seq(T)
      BY <1>1, <1>3
    <3>2. step[<<f[n - 1], n>>] = f[n - 1] \o ss[n]
      BY <3>1
    <3> QED BY <1>3, <3>2 DEF IsFold
  <2> QED BY <1>3, <2>1 DEF IsFold
<1>5. FlattenSeq(ss) = f[N]
  <2>1. CASE N = 0
    <3>1. ss = <<>>
      BY <2>1 DEF N
    <3> QED BY <1>4, <2>1, <3>1 DEF FlattenSeq
  <2>2. CASE N # 0
    <3> DEFINE Is(h) == h = [i \in 1 .. N |-> IF i = 1 THEN ss[i] ELSE h[i - 1] \o ss[i]]
               h0 == [i \in 1 .. N |-> f[i]]
               h1 == CHOOSE h : Is(h)
    <3>0. f[1] = ss[1]
      <4>1. 1 \in 1 .. N /\ 1 - 1 = 0
        BY <1>1, <2>2
      <4>2. f[1] = f[1 - 1] \o ss[1] /\ ss[1] \in Seq(T)
        BY <1>1, <1>4, <4>1
      <4>3. f[1] = <<>> \o ss[1]
        BY <1>4, <4>1, <4>2
      <4> QED BY <4>2, <4>3, ConcatEmpty
    <3>1. Is(h0)
      <4>1. ASSUME NEW i \in 1 .. N PROVE f[i] = IF i = 1 THEN ss[i] ELSE h0[i - 1] \o ss[i]
        <5>1. CASE i = 1
          BY <3>0, <5>1
        <5>2. CASE i # 1
          <6>1. i - 1 \in 1 .. N
            BY <1>1, <5>2
          <6> QED BY <1>4, <5>2, <6>1
        <5> QED BY <5>1, <5>2
      <4> QED BY <4>1
    <3>2. Is(h1)
      <4> HIDE DEF Is, h0
      <4> QED BY <3>1
    <3>3. FlattenSeq(ss) = h1[N]
      BY <2>2 DEF FlattenSeq, N
    <3> HIDE DEF h1
    <3> DEFINE h2 == [i \in 0 .. N |-> IF i = 0 THEN <<>> ELSE h1[i]]
    <3>4. \A n \in 0 .. N : h2[n] = f[n]
      <4>1. h2[0] = f[0]
        BY <1>1, <1>4
      <4>2. ASSUME NEW n \in 1 .. N, h2[n - 1] = f[n - 1] PROVE h2[n] = f[n]
        <5>0. h2[n] = h1[n]
          BY <1>1
        <5>1. h2[n] = IF n = 1 THEN ss[n] ELSE h1[n - 1] \o ss[n]
          <6> HIDE DEF h2
          <6> QED BY <3>2, <5>0
        <5>2. CASE n = 1
          BY <3>0, <5>1, <5>2
        <5>3. CASE n # 1
          <6>1. n - 1 # 0 /\ h2[n - 1] = h1[n - 1]
            BY <1>1, <5>3
          <6> QED BY <1>4, <4>2, <5>1, <5>3, <6>1
        <5> QED BY <5>2, <5>3
      <4>3. N \in Nat
        BY <1>1
      <4> HIDE DEF h2
      <4>4. Alike(h2, f, N)
        BY <4>1, <4>2 DEF Alike
      <4> QED BY <4>3, <4>4, SameFold
    <3>5. h2[N] = h1[N]
      BY <1>1, <2>2
    <3> HIDE DEF h2
    <3> QED BY <1>1, <3>3, <3>4, <3>5
  <2> QED BY <2>1, <2>2
<1> QED BY <1>3, <1>4, <1>5 DEF Flattens, N

\* Flattening a sequence flattens its parts, one after the other.
LEMMA FlattenAppend ==
  ASSUME NEW T, NEW ss \in Seq(Seq(T)), NEW x \in Seq(T)
  PROVE  FlattenSeq(Append(ss, x)) = FlattenSeq(ss) \o x
<1> DEFINE N == Len(ss)
           tt == Append(ss, x)
<1>1. N \in Nat /\ tt \in Seq(Seq(T)) /\ Len(tt) = N + 1 /\ tt[N + 1] = x
  OBVIOUS
<1>2. \A n \in 1 .. N : tt[n] = ss[n] /\ n \in 1 .. N + 1
  OBVIOUS
<1>3. PICK f : f \in [0 .. N -> Seq(T)] /\ Flattens(f, ss) /\ FlattenSeq(ss) = f[N]
  BY FlattenIsFold
<1> HIDE DEF tt
<1>4. PICK g : g \in [0 .. N + 1 -> Seq(T)] /\ Flattens(g, tt) /\ FlattenSeq(tt) = g[N + 1]
  BY <1>1, FlattenIsFold
<1>5. f[0] = <<>> /\ \A n \in 1 .. N : f[n] = f[n - 1] \o ss[n]
  BY <1>3 DEF Flattens
<1>6. g[0] = <<>> /\ \A n \in 1 .. N + 1 : g[n] = g[n - 1] \o tt[n]
  BY <1>1, <1>4 DEF Flattens
<1> HIDE DEF N
<1>7. \A n \in 0 .. N : f[n] = g[n]
  <2>1. ASSUME NEW n \in 1 .. N, f[n - 1] = g[n - 1] PROVE f[n] = g[n]
    BY <1>2, <1>5, <1>6, <2>1
  <2>2. f[0] = g[0] /\ N \in Nat
    BY <1>1, <1>5, <1>6
  <2>3. Alike(f, g, N)
    BY <2>1, <2>2 DEF Alike
  <2> QED BY <2>2, <2>3, SameFold
<1>8. g[N + 1] = g[N] \o x
  <2>1. N + 1 \in 1 .. N + 1 /\ (N + 1) - 1 = N
    BY <1>1
  <2> QED BY <1>1, <1>6, <2>1
<1>9. g[N] = f[N]
  BY <1>1, <1>7
<1> QED BY <1>3, <1>4, <1>8, <1>9 DEF tt

LEMMA FlattenType ==
  ASSUME NEW T, NEW ss \in Seq(Seq(T))
  PROVE  FlattenSeq(ss) \in Seq(T)
BY FlattenIsFold

LEMMA FlattenEmpty == FlattenSeq(<<>>) = <<>>
BY DEF FlattenSeq
=============================================================================
