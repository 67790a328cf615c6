-------------------------- MODULE LinkedListProofs --------------------------
(***************************************************************************)
(* LinkedList keeps its lists well linked, for any number of elements,     *)
(* lists and values.                                                       *)
(*                                                                         *)
(* The argument is about one heap at a time: Good says that every list of  *)
(* a heap has a sequence that it is a chain of, and each pointer           *)
(* manipulation of LinkedList has a lemma that turns the sequences of a    *)
(* good heap into those of the heap it returns.                            *)
(***************************************************************************)
EXTENDS LinkedList, Sequences, FiniteSetTheorems, WellFoundedInduction, TLAPS

-----------------------------------------------------------------------------
(***************************************************************************)
(* Pointer walks.                                                          *)
(***************************************************************************)
\* Every non-empty set of naturals has a least element.
LEMMA LeastNat ==
  ASSUME NEW B \in SUBSET Nat, B # {}
  PROVE  \E m \in B : \A k \in B : m <= k
<1> DEFINE R == {p \in Nat \X Nat : p[1] < p[2]}
<1>1. IsWellFoundedOn(R, Nat)
  BY NatLessThanWellFounded DEF OpToRel
<1>2. PICK m \in B : \A k \in B : <<k, m>> \notin R
  BY <1>1, WFMin
<1>3. ASSUME NEW k \in B PROVE m <= k
  <2>1. <<k, m>> \in Nat \X Nat /\ <<k, m>> \notin R
    BY <1>2
  <2>2. ~(k < m)
    BY <2>1
  <2> QED BY <2>2
<1> QED BY <1>3

\* A walk along next from s[i] passes s[i], ..., s[j] and then meets stop or nil.
Walks(next, s, i, j, stop) ==
  /\ i \in Nat /\ j \in Nat /\ i <= j
  /\ \A k \in i .. j : s[k] \in Elem /\ s[k] # stop
  /\ \A k \in i .. j : k < j => next[s[k]] = s[k + 1]
  /\ next[s[j]] \notin Elem \ {stop}

Run(s, i, j) == {s[k] : k \in i .. j}

\* Such a walk visits those elements and no other.
LEMMA VisitedRun ==
  ASSUME NEW next, NEW s, NEW i, NEW j, NEW stop, Walks(next, s, i, j, stop)
  PROVE  Visited(next, s[i], stop) = Run(s, i, j)
<1> DEFINE R == {s[k] : k \in i .. j}
<1>0. /\ i \in Nat /\ j \in Nat /\ i <= j
      /\ \A k \in i .. j : s[k] \in Elem /\ s[k] # stop
      /\ \A k \in i .. j : k < j => next[s[k]] = s[k + 1]
      /\ next[s[j]] \notin Elem \ {stop}
  BY DEF Walks
<1>1. R \in SUBSET Elem /\ s[i] \in R /\ s[i] # stop
  BY <1>0
<1>2. Closed(R, next, stop)
  <2> SUFFICES ASSUME NEW k \in i .. j, next[s[k]] \in Elem \ {stop}
               PROVE  next[s[k]] \in R
    BY DEF Closed
  <2>1. k < j
    BY <1>0
  <2>2. next[s[k]] = s[k + 1] /\ k + 1 \in i .. j
    BY <1>0, <2>1
  <2> QED BY <2>2
<1>3. ASSUME NEW S \in SUBSET Elem, s[i] \in S, Closed(S, next, stop)
      PROVE  R \subseteq S
  <2> DEFINE B == {k \in i .. j : s[k] \notin S}
  <2>1. SUFFICES ASSUME B # {} PROVE FALSE
    OBVIOUS
  <2>2. PICK m \in B : \A k \in B : m <= k
    <3>1. B \in SUBSET Nat
      BY <1>0
    <3> HIDE DEF B
    <3> QED BY <2>1, <3>1, LeastNat
  <2>3. m - 1 \in i .. j /\ m - 1 < j /\ s[m - 1] \in S
    BY <1>0, <1>3, <2>2
  <2>4. next[s[m - 1]] = s[m]
    BY <1>0, <2>3
  <2>5. s[m] \in Elem \ {stop}
    BY <1>0
  <2> QED BY <1>3, <2>3, <2>4, <2>5 DEF Closed
<1>4. Visited(next, s[i], stop) \subseteq R
  BY <1>1, <1>2 DEF Visited
<1>5. R \subseteq Visited(next, s[i], stop)
  BY <1>1, <1>3 DEF Visited
<1> QED BY <1>4, <1>5 DEF Run

Distinct(s, i, j) == \A k, m \in i .. j : s[k] = s[m] => k = m

\* A run of distinct elements has as many of them as places.
LEMMA RunCount ==
  ASSUME NEW s, NEW i \in Nat, NEW j \in Nat, i <= j, Distinct(s, i, j)
  PROVE  Cardinality(Run(s, i, j)) = j - i + 1
<1> DEFINE R == {s[k] : k \in i .. j}
           f == [x \in 1 .. (j - i + 1) |-> s[i + x - 1]]
<1>1. f \in [1 .. (j - i + 1) -> R]
  OBVIOUS
<1>2. \A x, y \in 1 .. (j - i + 1) : f[x] = f[y] => x = y
  BY DEF Distinct
<1>3. ASSUME NEW r \in R PROVE \E x \in 1 .. (j - i + 1) : f[x] = r
  <2>1. PICK k \in i .. j : r = s[k]
    OBVIOUS
  <2>2. k - i + 1 \in 1 .. (j - i + 1) /\ f[k - i + 1] = r
    BY <2>1
  <2> QED BY <2>2
<1>4. f \in Bijection(1 .. (j - i + 1), R)
  BY <1>1, <1>2, <1>3 DEF Bijection, Injection, Surjection, IsInjective
<1>5. ExistsBijection(1 .. (j - i + 1), R)
  BY <1>4 DEF ExistsBijection
<1> QED BY <1>5, FS_CountingElements DEF Run

-----------------------------------------------------------------------------
(***************************************************************************)
(* Good heaps.                                                             *)
(***************************************************************************)
ChainOf(hp, l, s) == s \in [1 .. hp.len[l] -> Elem] /\ Chain(hp, l, s)

Good(hp) ==
  /\ hp \in Heap
  /\ \A e \in Elem : hp.owner[e] = Nil => hp.prev[e] = Nil /\ hp.next[e] = Nil
  /\ \A l \in List : \E s : ChainOf(hp, l, s)

\* Every list but those of L is the chain in hq that it is in hp.
Keeps(hq, hp, L) == \A q \in List \ L : \A r : ChainOf(hp, q, r) => ChainOf(hq, q, r)

\* p and n are the neighbours of the gap behind place k of list l.
Gap(hp, l, s, k, p, n) ==
  /\ ChainOf(hp, l, s) /\ k \in 0 .. hp.len[l]
  /\ p = IF k = 0 THEN Nil ELSE s[k]
  /\ n = IF k = hp.len[l] THEN Nil ELSE s[k + 1]

\* A list is the same chain in a heap that keeps its ends, its length, its
\* elements and their pointers.
LEMMA SameChain ==
  ASSUME NEW hp, NEW hq, NEW l, NEW s, ChainOf(hp, l, s),
         hq.head[l] = hp.head[l], hq.tail[l] = hp.tail[l], hq.len[l] = hp.len[l],
         \A e \in Elem : hq.owner[e] = l <=> hp.owner[e] = l,
         \A e \in Elem : hp.owner[e] = l => hq.prev[e] = hp.prev[e] /\ hq.next[e] = hp.next[e]
  PROVE  ChainOf(hq, l, s)
<1>1. \A i \in 1 .. hp.len[l] : s[i] \in Elem /\ hp.owner[s[i]] = l
  BY DEF ChainOf, Chain
<1>2. {e \in Elem : hq.owner[e] = l} = {e \in Elem : hp.owner[e] = l}
  OBVIOUS
<1> QED BY <1>1, <1>2 DEF ChainOf, Chain

\* The sequence that Elems reads off the pointers of a chain is the chain.
LEMMA ElemsChain ==
  ASSUME NEW hp, NEW l, hp.len[l] \in Nat, NEW s, ChainOf(hp, l, s)
  PROVE  Elems(hp, l) = s
<1> DEFINE N == hp.len[l]
           F(f) == [i \in 1 .. N |-> IF i = 1 THEN hp.head[l]
                                     ELSE IF f[i - 1] \in Elem THEN hp.next[f[i - 1]] ELSE Nil]
           at == Elems(hp, l)
<1>1. /\ s \in [1 .. N -> Elem]
      /\ hp.head[l] = IF N = 0 THEN Nil ELSE s[1]
      /\ \A i \in 1 .. N : hp.next[s[i]] = IF i = N THEN Nil ELSE s[i + 1]
  BY DEF ChainOf, Chain
<1>2. s = F(s)
  <2>1. ASSUME NEW i \in 1 .. N
        PROVE  s[i] = IF i = 1 THEN hp.head[l]
                      ELSE IF s[i - 1] \in Elem THEN hp.next[s[i - 1]] ELSE Nil
    <3>1. CASE i = 1
      BY <1>1, <3>1
    <3>2. CASE i # 1
      <4>1. i - 1 \in 1 .. N /\ i - 1 # N
        BY <3>2
      <4>2. s[i - 1] \in Elem
        BY <1>1, <4>1
      <4>3. hp.next[s[i - 1]] = s[(i - 1) + 1]
        BY <1>1, <4>1
      <4> QED BY <3>2, <4>2, <4>3
    <3> QED BY <3>1, <3>2
  <2> QED BY <1>1, <2>1
<1>3. at = CHOOSE f : f = F(f)
  BY DEF Elems
<1> HIDE DEF at
<1>4. at = F(at)
  <2> HIDE DEF F
  <2> QED BY <1>2, <1>3
<1>5. ASSUME NEW i \in 1 .. N, at[i] # s[i] PROVE FALSE
  <2> DEFINE B == {k \in 1 .. N : at[k] # s[k]}
  <2>1. B \in SUBSET Nat /\ B # {}
    BY <1>5
  <2>2. PICK m \in B : \A k \in B : m <= k
    <3> HIDE DEF B
    <3> QED BY <2>1, LeastNat
  <2>3. m \in 1 .. N /\ at[m] # s[m]
    BY <2>2
  <2>4. CASE m = 1
    BY <1>1, <1>4, <2>3, <2>4
  <2>5. CASE m # 1
    <3>1. m - 1 \in 1 .. N /\ m - 1 < m
      BY <2>3, <2>5
    <3>2. at[m - 1] = s[m - 1]
      BY <2>2, <3>1
    <3>3. at[m] = IF at[m - 1] \in Elem THEN hp.next[at[m - 1]] ELSE Nil
      BY <1>4, <2>3, <2>5
    <3>4. s[m] = IF s[m - 1] \in Elem THEN hp.next[s[m - 1]] ELSE Nil
      BY <1>2, <2>3, <2>5
    <3> QED BY <2>3, <3>2, <3>3, <3>4
  <2> QED BY <2>4, <2>5
<1>6. at = [i \in 1 .. N |-> at[i]]
  BY <1>4
<1> HIDE DEF F
<1>7. at = s
  BY <1>1, <1>5, <1>6
<1> QED BY <1>7 DEF at

\* The fields of hq are those of hp after Join.
IsJoin(hq, hp, l, p, n, a, b) ==
  /\ hq \in Heap
  /\ \A x \in Elem : /\ hq.next[x] = IF x = p THEN a ELSE hp.next[x]
                     /\ hq.prev[x] = IF x = n THEN b ELSE hp.prev[x]
  /\ \A m \in List : /\ hq.head[m] = IF m = l /\ p = Nil THEN a ELSE hp.head[m]
                     /\ hq.tail[m] = IF m = l /\ n = Nil THEN b ELSE hp.tail[m]
  /\ hq.owner = hp.owner /\ hq.value = hp.value /\ hq.len = hp.len

\* Join changes the two pointers it is about and no other field.
LEMMA JoinFields ==
  ASSUME NEW hp \in Heap, NEW l \in List, NEW p, NEW n, NEW a \in Ptr, NEW b \in Ptr
  PROVE  IsJoin(Join(hp, l, p, n, a, b), hp, l, p, n, a, b)
BY DEF Join, IsJoin, Heap, Ptr

\* The elements of a chain, and no other, name its list as their owner.
LEMMA ChainOwner ==
  ASSUME NEW hp \in Heap, NEW l \in List, NEW s, ChainOf(hp, l, s)
  PROVE  /\ hp.len[l] \in Nat
         /\ \A i \in 1 .. hp.len[l] : s[i] \in Elem /\ hp.owner[s[i]] = l
         /\ \A x \in Elem : hp.owner[x] = l => \E i \in 1 .. hp.len[l] : x = s[i]
         /\ \A i, j \in 1 .. hp.len[l] : s[i] = s[j] => i = j
BY DEF ChainOf, Chain, Heap

\* The fields of hq are those of hp after Insert.
IsInsert(hq, hp, l, p, n, e) ==
  /\ hq \in Heap
  /\ hq.owner = Owned(hp, {e}, l)
  /\ \A x \in Elem :
       /\ hq.next[x] = IF x = p THEN e ELSE IF x = e THEN n ELSE hp.next[x]
       /\ hq.prev[x] = IF x = n THEN e ELSE IF x = e THEN p ELSE hp.prev[x]
  /\ \A m \in List :
       /\ hq.head[m] = IF m = l /\ p = Nil THEN e ELSE hp.head[m]
       /\ hq.tail[m] = IF m = l /\ n = Nil THEN e ELSE hp.tail[m]
       /\ hq.len[m] = IF m = l THEN hp.len[l] + 1 ELSE hp.len[m]

\* Insert links the new element to its neighbours, and them to it.
LEMMA InsertFields ==
  ASSUME NEW hp \in Heap, NEW l \in List, NEW p \in Ptr, NEW n \in Ptr,
         NEW e \in Elem, e # p, e # n, NEW v \in Value
  PROVE  /\ IsInsert(Insert(hp, l, p, n, e, v), hp, l, p, n, e)
         /\ Insert(hp, l, p, n, e, v).value = [hp.value EXCEPT ![e] = v]
<1> DEFINE new == [hp EXCEPT !.prev[e] = p, !.next[e] = n, !.owner[e] = l, !.value[e] = v]
           hj == Join(new, l, p, n, e, e)
           hq == Insert(hp, l, p, n, e, v)
<1>1. new \in Heap
  BY DEF Heap, Ptr
<1>2. /\ new.next = [hp.next EXCEPT ![e] = n] /\ new.prev = [hp.prev EXCEPT ![e] = p]
      /\ new.owner = [hp.owner EXCEPT ![e] = l] /\ new.value = [hp.value EXCEPT ![e] = v]
      /\ new.head = hp.head /\ new.tail = hp.tail /\ new.len = hp.len
  BY DEF Heap, Ptr
<1>3. hq = [hj EXCEPT !.len[l] = @ + 1]
  BY DEF Insert
<1> HIDE DEF new
<1>4. IsJoin(hj, new, l, p, n, e, e)
  <2>1. e \in Ptr
    BY DEF Ptr
  <2> QED BY <1>1, <2>1, JoinFields
<1> HIDE DEF hj, hq
<1>5. /\ hq \in Heap /\ hq.next = hj.next /\ hq.prev = hj.prev /\ hq.owner = hj.owner
      /\ hq.head = hj.head /\ hq.tail = hj.tail /\ hq.value = hj.value
      /\ hq.len = [hj.len EXCEPT ![l] = @ + 1]
  <2>1. hj \in Heap
    BY <1>4 DEF IsJoin
  <2> QED BY <1>3, <2>1 DEF Heap
<1>6. hq.owner = Owned(hp, {e}, l)
  BY <1>2, <1>4, <1>5 DEF Owned, Heap, IsJoin
<1>7. \A m \in List : hq.len[m] = IF m = l THEN hp.len[l] + 1 ELSE hp.len[m]
  BY <1>2, <1>4, <1>5 DEF Heap, IsJoin
<1>8. \A x \in Elem :
        /\ hq.next[x] = IF x = p THEN e ELSE IF x = e THEN n ELSE hp.next[x]
        /\ hq.prev[x] = IF x = n THEN e ELSE IF x = e THEN p ELSE hp.prev[x]
  BY <1>2, <1>4, <1>5 DEF Heap, IsJoin
<1>9. \A m \in List :
        /\ hq.head[m] = IF m = l /\ p = Nil THEN e ELSE hp.head[m]
        /\ hq.tail[m] = IF m = l /\ n = Nil THEN e ELSE hp.tail[m]
  BY <1>2, <1>4, <1>5 DEF IsJoin
<1>10. hq \in Heap
  BY <1>5
<1>11. IsInsert(hq, hp, l, p, n, e)
  BY <1>6, <1>7, <1>8, <1>9, <1>10 DEF IsInsert
<1>12. hq.value = [hp.value EXCEPT ![e] = v]
  BY <1>2, <1>4, <1>5 DEF IsJoin
<1> QED BY <1>11, <1>12 DEF hq

\* The sequence s, of length N, with the M elements of m in the place of those
\* behind place i, up to place j.
Spliced(s, N, i, j, m, M) ==
  [x \in 1 .. N - (j - i) + M |->
     IF x <= i THEN s[x] ELSE IF x <= i + M THEN m[x - i] ELSE s[x - M + (j - i)]]

\* The pointers of hq make that sequence out of s, the list l of hp.
Rejoins(hq, hp, l, s, i, j, m, M) ==
  LET N == hp.len[l]
      p == IF i = 0 THEN Nil ELSE s[i]
      n == IF j = N THEN Nil ELSE s[j + 1]
      a == IF M = 0 THEN n ELSE m[1]
      b == IF M = 0 THEN p ELSE m[M]
  IN  /\ hq.len[l] = N - (j - i) + M
      /\ hq.head[l] = IF i = 0 THEN a ELSE hp.head[l]
      /\ hq.tail[l] = IF j = N THEN b ELSE hp.tail[l]
      /\ \A x \in 1 .. i : /\ hq.next[s[x]] = IF x = i THEN a ELSE hp.next[s[x]]
                           /\ hq.prev[s[x]] = hp.prev[s[x]]
      /\ \A x \in j + 1 .. N : /\ hq.prev[s[x]] = IF x = j + 1 THEN b ELSE hp.prev[s[x]]
                               /\ hq.next[s[x]] = hp.next[s[x]]
      /\ \A x \in 1 .. M : /\ hq.next[m[x]] = IF x = M THEN n ELSE m[x + 1]
                           /\ hq.prev[m[x]] = IF x = 1 THEN p ELSE m[x - 1]
      /\ \A e \in Elem : hq.owner[e] = l <=> \/ \E x \in 1 .. i : e = s[x]
                                             \/ \E x \in 1 .. M : e = m[x]
                                             \/ \E x \in j + 1 .. N : e = s[x]

\* The same with names for the elements at the seams.
Seamed(hq, hp, l, s, i, j, m, M, p, n, a, b) ==
  /\ p = IF i = 0 THEN Nil ELSE s[i]
  /\ n = IF j = hp.len[l] THEN Nil ELSE s[j + 1]
  /\ a = IF M = 0 THEN n ELSE m[1]
  /\ b = IF M = 0 THEN p ELSE m[M]
  /\ hq.len[l] = hp.len[l] - (j - i) + M
  /\ hq.head[l] = IF i = 0 THEN a ELSE hp.head[l]
  /\ hq.tail[l] = IF j = hp.len[l] THEN b ELSE hp.tail[l]
  /\ \A x \in 1 .. i : /\ hq.next[s[x]] = IF x = i THEN a ELSE hp.next[s[x]]
                       /\ hq.prev[s[x]] = hp.prev[s[x]]
  /\ \A x \in j + 1 .. hp.len[l] :
       /\ hq.prev[s[x]] = IF x = j + 1 THEN b ELSE hp.prev[s[x]]
       /\ hq.next[s[x]] = hp.next[s[x]]
  /\ \A x \in 1 .. M : /\ hq.next[m[x]] = IF x = M THEN n ELSE m[x + 1]
                       /\ hq.prev[m[x]] = IF x = 1 THEN p ELSE m[x - 1]
  /\ \A e \in Elem : hq.owner[e] = l <=> \/ \E x \in 1 .. i : e = s[x]
                                         \/ \E x \in 1 .. M : e = m[x]
                                         \/ \E x \in j + 1 .. hp.len[l] : e = s[x]

LEMMA SeamedRejoins ==
  ASSUME NEW hq, NEW hp, NEW l, NEW s, NEW i, NEW j, NEW m, NEW M, NEW p, NEW n, NEW a, NEW b,
         Seamed(hq, hp, l, s, i, j, m, M, p, n, a, b)
  PROVE  Rejoins(hq, hp, l, s, i, j, m, M)
BY DEF Seamed, Rejoins

\* Pointers that rejoin a list this way do make it a chain again.
LEMMA RejoinChain ==
  ASSUME NEW hp \in Heap, NEW l \in List, NEW s, ChainOf(hp, l, s),
         NEW i \in Nat, NEW j \in Nat, i <= j, j <= hp.len[l],
         NEW M \in Nat, NEW m \in [1 .. M -> Elem],
         \A x, y \in 1 .. M : m[x] = m[y] => x = y,
         \A x \in 1 .. M, y \in 1 .. hp.len[l] : m[x] # s[y],
         NEW hq, Rejoins(hq, hp, l, s, i, j, m, M)
  PROVE  ChainOf(hq, l, Spliced(s, hp.len[l], i, j, m, M))
<1> DEFINE N == hp.len[l]
           K == N - (j - i) + M
           d == j - i
           t == Spliced(s, N, i, j, m, M)
           p == IF i = 0 THEN Nil ELSE s[i]
           n == IF j = N THEN Nil ELSE s[j + 1]
           a == IF M = 0 THEN n ELSE m[1]
           b == IF M = 0 THEN p ELSE m[M]
<1>1. /\ N \in Nat
      /\ \A x \in 1 .. N : s[x] \in Elem
      /\ \A x, y \in 1 .. N : s[x] = s[y] => x = y
  BY ChainOwner
<1>2. /\ hp.head[l] = IF N = 0 THEN Nil ELSE s[1]
      /\ hp.tail[l] = IF N = 0 THEN Nil ELSE s[N]
      /\ \A x \in 1 .. N : /\ hp.prev[s[x]] = IF x = 1 THEN Nil ELSE s[x - 1]
                           /\ hp.next[s[x]] = IF x = N THEN Nil ELSE s[x + 1]
  BY DEF ChainOf, Chain
<1>3. hq.len[l] = K
  BY DEF Rejoins
<1>4. /\ hq.head[l] = IF i = 0 THEN a ELSE hp.head[l]
      /\ hq.tail[l] = IF j = N THEN b ELSE hp.tail[l]
  BY DEF Rejoins
<1>5. \A x \in 1 .. i : /\ hq.next[s[x]] = IF x = i THEN a ELSE hp.next[s[x]]
                        /\ hq.prev[s[x]] = hp.prev[s[x]]
  BY DEF Rejoins
<1>6. \A x \in j + 1 .. N : /\ hq.prev[s[x]] = IF x = j + 1 THEN b ELSE hp.prev[s[x]]
                            /\ hq.next[s[x]] = hp.next[s[x]]
  BY DEF Rejoins
<1>7. \A x \in 1 .. M : /\ hq.next[m[x]] = IF x = M THEN n ELSE m[x + 1]
                        /\ hq.prev[m[x]] = IF x = 1 THEN p ELSE m[x - 1]
  BY DEF Rejoins
<1>8. \A e \in Elem : hq.owner[e] = l <=> \/ \E x \in 1 .. i : e = s[x]
                                          \/ \E x \in 1 .. M : e = m[x]
                                          \/ \E x \in j + 1 .. N : e = s[x]
  BY DEF Rejoins
<1>9. K \in Nat /\ d \in Nat /\ i + M <= K /\ N = K - M + d /\ j = i + d
  <2>1. N \in Nat /\ i <= j /\ j <= N
    BY <1>1
  <2> HIDE DEF N
  <2>2. d \in Nat /\ j = i + d
    BY <2>1
  <2>3. K \in Nat /\ i + M <= K
    BY <2>1
  <2>4. N = K - M + d
    BY <2>1
  <2> QED BY <2>2, <2>3, <2>4
<1>10. t = [x \in 1 .. K |-> IF x <= i THEN s[x] ELSE IF x <= i + M THEN m[x - i]
                             ELSE s[x - M + d]]
  BY DEF Spliced
<1> HIDE DEF t, p, n, a, b, d, K, N
<1>11. \A x \in 1 .. i : x \in 1 .. K /\ t[x] = s[x]
  BY <1>9, <1>10
<1>12. \A x \in 1 .. M : i + x \in 1 .. K /\ t[i + x] = m[x]
  <2> TAKE x \in 1 .. M
  <2>1. i + x \in 1 .. K /\ ~(i + x <= i) /\ i + x <= i + M /\ (i + x) - i = x
    BY <1>9
  <2> QED BY <1>10, <2>1
<1>13. \A x \in j + 1 .. N : x + M - d \in 1 .. K /\ t[x + M - d] = s[x]
  <2> TAKE x \in j + 1 .. N
  <2>1. /\ x + M - d \in 1 .. K /\ ~(x + M - d <= i) /\ ~(x + M - d <= i + M)
        /\ (x + M - d) - M + d = x
    BY <1>1, <1>9
  <2> QED BY <1>10, <2>1
<1>14. ASSUME NEW x \in 1 .. K
       PROVE  \/ x \in 1 .. i /\ x \in 1 .. N /\ t[x] = s[x]
              \/ \E y \in 1 .. M : x = i + y /\ t[x] = m[y]
              \/ \E y \in j + 1 .. N : y \in 1 .. N /\ x = y + M - d /\ t[x] = s[y]
  <2>1. CASE x <= i
    BY <1>1, <1>9, <1>11, <2>1
  <2>2. CASE x > i /\ x <= i + M
    <3>1. x - i \in 1 .. M /\ x = i + (x - i)
      BY <1>9, <2>2
    <3> QED BY <1>12, <3>1
  <2>3. CASE x > i + M
    <3>1. x - M + d \in j + 1 .. N /\ x - M + d \in 1 .. N /\ x = (x - M + d) + M - d
      BY <1>1, <1>9, <2>3
    <3> QED BY <1>13, <3>1
  <2> QED BY <1>9, <2>1, <2>2, <2>3
<1>15. t \in [1 .. K -> Elem]
  <2>1. \A x \in 1 .. K : t[x] \in Elem
    BY <1>1, <1>14
  <2> QED BY <1>10, <2>1
<1>16. ASSUME NEW x \in 1 .. K, NEW y \in 1 .. K, t[x] = t[y] PROVE x = y
  <2>1. CASE x \in 1 .. i /\ x \in 1 .. N /\ t[x] = s[x]
    <3>1. CASE y \in 1 .. i /\ y \in 1 .. N /\ t[y] = s[y]
      BY <1>1, <1>16, <2>1, <3>1
    <3>2. CASE \E w \in 1 .. M : y = i + w /\ t[y] = m[w]
      BY <1>16, <2>1, <3>2 DEF N
    <3>3. CASE \E w \in j + 1 .. N : w \in 1 .. N /\ y = w + M - d /\ t[y] = s[w]
      <4>1. PICK w \in j + 1 .. N : w \in 1 .. N /\ y = w + M - d /\ t[y] = s[w]
        BY <3>3
      <4>2. x = w
        BY <1>1, <1>16, <2>1, <4>1
      <4> QED BY <1>9, <2>1, <4>1, <4>2
    <3> QED BY <1>14, <3>1, <3>2, <3>3
  <2>2. CASE \E u \in 1 .. M : x = i + u /\ t[x] = m[u]
    <3>1. PICK u \in 1 .. M : x = i + u /\ t[x] = m[u]
      BY <2>2
    <3>2. CASE y \in 1 .. i /\ y \in 1 .. N /\ t[y] = s[y]
      BY <1>16, <3>1, <3>2 DEF N
    <3>3. CASE \E w \in 1 .. M : y = i + w /\ t[y] = m[w]
      BY <1>16, <3>1, <3>3
    <3>4. CASE \E w \in j + 1 .. N : w \in 1 .. N /\ y = w + M - d /\ t[y] = s[w]
      BY <1>16, <3>1, <3>4 DEF N
    <3> QED BY <1>14, <3>2, <3>3, <3>4
  <2>3. CASE \E u \in j + 1 .. N : u \in 1 .. N /\ x = u + M - d /\ t[x] = s[u]
    <3>1. PICK u \in j + 1 .. N : u \in 1 .. N /\ x = u + M - d /\ t[x] = s[u]
      BY <2>3
    <3>2. CASE y \in 1 .. i /\ y \in 1 .. N /\ t[y] = s[y]
      <4>1. u = y
        BY <1>1, <1>16, <3>1, <3>2
      <4> QED BY <1>9, <3>1, <3>2, <4>1
    <3>3. CASE \E w \in 1 .. M : y = i + w /\ t[y] = m[w]
      BY <1>16, <3>1, <3>3 DEF N
    <3>4. CASE \E w \in j + 1 .. N : w \in 1 .. N /\ y = w + M - d /\ t[y] = s[w]
      BY <1>1, <1>16, <3>1, <3>4
    <3> QED BY <1>14, <3>2, <3>3, <3>4
  <2> QED BY <1>14, <2>1, <2>2, <2>3
<1>17. {e \in Elem : hq.owner[e] = l} = {t[x] : x \in 1 .. K}
  <2>1. ASSUME NEW e \in Elem, hq.owner[e] = l PROVE \E x \in 1 .. K : e = t[x]
    BY <1>8, <1>11, <1>12, <1>13, <2>1
  <2>2. ASSUME NEW x \in 1 .. K PROVE t[x] \in Elem /\ hq.owner[t[x]] = l
    BY <1>8, <1>14, <1>15
  <2> QED BY <2>1, <2>2
<1>18. hq.head[l] = IF K = 0 THEN Nil ELSE t[1]
  <2>1. CASE i > 0
    BY <1>1, <1>2, <1>4, <1>9, <1>11, <2>1
  <2>2. CASE i = 0 /\ M > 0
    BY <1>4, <1>9, <1>12, <2>2 DEF a
  <2>3. CASE i = 0 /\ M = 0 /\ j < N
    <3>1. j + 1 \in j + 1 .. N /\ (j + 1) + M - d = 1
      BY <1>1, <1>9, <2>3
    <3> QED BY <1>4, <1>9, <1>13, <2>3, <3>1 DEF a, n
  <2>4. CASE i = 0 /\ M = 0 /\ j = N
    BY <1>4, <1>9, <2>4 DEF a, n
  <2> QED BY <1>1, <2>1, <2>2, <2>3, <2>4 DEF N
<1>19. hq.tail[l] = IF K = 0 THEN Nil ELSE t[K]
  <2>1. CASE j < N
    <3>1. N \in j + 1 .. N /\ N + M - d = K /\ N # 0 /\ K # 0
      BY <1>1, <1>9, <2>1
    <3>2. hq.tail[l] = s[N]
      BY <1>2, <1>4, <2>1, <3>1
    <3>3. t[K] = s[N]
      BY <1>13, <3>1
    <3> QED BY <3>1, <3>2, <3>3
  <2>2. CASE j = N /\ M > 0
    <3>1. hq.tail[l] = m[M]
      BY <1>4, <2>2 DEF b
    <3>2. M \in 1 .. M /\ i + M = K /\ K # 0
      BY <1>9, <2>2
    <3>3. t[i + M] = m[M]
      BY <1>12, <3>2
    <3> QED BY <3>1, <3>2, <3>3
  <2>3. CASE j = N /\ M = 0
    BY <1>4, <1>9, <1>11, <2>3 DEF b, p
  <2> QED BY <1>1, <2>1, <2>2, <2>3 DEF N
<1>20. ASSUME NEW x \in 1 .. K
       PROVE  hq.prev[t[x]] = IF x = 1 THEN Nil ELSE t[x - 1]
  <2>1. CASE x \in 1 .. i /\ x \in 1 .. N /\ t[x] = s[x]
    <3>1. x # 1 => x - 1 \in 1 .. i
      BY <2>1
    <3> QED BY <1>2, <1>5, <1>11, <2>1, <3>1
  <2>2. CASE \E y \in 1 .. M : x = i + y /\ t[x] = m[y]
    <3>1. PICK y \in 1 .. M : x = i + y /\ t[x] = m[y]
      BY <2>2
    <3>2. y # 1 => y - 1 \in 1 .. M /\ i + (y - 1) = x - 1 /\ x # 1
      BY <3>1
    <3>3. CASE y # 1
      BY <1>7, <1>12, <3>1, <3>2, <3>3
    <3>4. CASE y = 1
      <4>1. hq.prev[t[x]] = p /\ x - 1 = i
        BY <1>7, <3>1, <3>4
      <4> QED BY <1>11, <3>1, <4>1 DEF p
    <3> QED BY <3>3, <3>4
  <2>3. CASE \E y \in j + 1 .. N : y \in 1 .. N /\ x = y + M - d /\ t[x] = s[y]
    <3>1. PICK y \in j + 1 .. N : y \in 1 .. N /\ x = y + M - d /\ t[x] = s[y]
      BY <2>3
    <3>2. CASE y # j + 1
      <4>1. y - 1 \in j + 1 .. N /\ (y - 1) + M - d = x - 1 /\ x # 1 /\ y # 1
        BY <1>1, <1>9, <3>1, <3>2
      <4> QED BY <1>2, <1>6, <1>13, <3>1, <3>2, <4>1
    <3>3. CASE y = j + 1
      <4>1. x - 1 = i + M
        BY <1>9, <3>1, <3>3
      <4>2. hq.prev[t[x]] = b
        BY <1>6, <3>1, <3>3
      <4>3. CASE M > 0
        <5>1. M \in 1 .. M /\ x # 1
          BY <4>1, <4>3
        <5> QED BY <1>12, <4>1, <4>2, <4>3, <5>1 DEF b
      <4>4. CASE M = 0
        BY <1>11, <4>1, <4>2, <4>4 DEF b, p
      <4> QED BY <4>3, <4>4
    <3> QED BY <3>2, <3>3
  <2> QED BY <1>14, <2>1, <2>2, <2>3
<1>21. ASSUME NEW x \in 1 .. K
       PROVE  hq.next[t[x]] = IF x = K THEN Nil ELSE t[x + 1]
  <2>1. n = IF j = N THEN Nil ELSE t[i + M + 1]
    <3>1. CASE j < N
      <4>1. j + 1 \in j + 1 .. N /\ (j + 1) + M - d = i + M + 1
        BY <1>1, <1>9, <3>1
      <4> QED BY <1>13, <3>1, <4>1 DEF n
    <3> QED BY <1>1, <3>1 DEF n, N
  <2>2. j = N <=> K = i + M
    BY <1>1, <1>9
  <2>3. CASE x \in 1 .. i /\ x \in 1 .. N /\ t[x] = s[x]
    <3>1. CASE x < i
      <4>1. x + 1 \in 1 .. i /\ x # N /\ x # K
        BY <1>1, <1>9, <2>3, <3>1
      <4> QED BY <1>2, <1>5, <1>11, <2>3, <3>1, <4>1
    <3>2. CASE x = i
      <4>1. hq.next[t[x]] = a
        BY <1>5, <2>3, <3>2
      <4>2. CASE M > 0
        <5>1. 1 \in 1 .. M /\ x # K
          BY <1>9, <3>2, <4>2
        <5> QED BY <1>12, <3>2, <4>1, <4>2, <5>1 DEF a
      <4>3. CASE M = 0
        BY <2>1, <2>2, <3>2, <4>1, <4>3 DEF a
      <4> QED BY <4>2, <4>3
    <3> QED BY <2>3, <3>1, <3>2
  <2>4. CASE \E y \in 1 .. M : x = i + y /\ t[x] = m[y]
    <3>1. PICK y \in 1 .. M : x = i + y /\ t[x] = m[y]
      BY <2>4
    <3>2. CASE y = M
      BY <1>7, <2>1, <2>2, <3>1, <3>2
    <3>3. CASE y # M
      <4>1. y + 1 \in 1 .. M /\ i + (y + 1) = x + 1 /\ x # K
        BY <1>9, <3>1, <3>3
      <4> QED BY <1>7, <1>12, <3>1, <3>3, <4>1
    <3> QED BY <3>2, <3>3
  <2>5. CASE \E y \in j + 1 .. N : y \in 1 .. N /\ x = y + M - d /\ t[x] = s[y]
    <3>1. PICK y \in j + 1 .. N : y \in 1 .. N /\ x = y + M - d /\ t[x] = s[y]
      BY <2>5
    <3>2. y = N <=> x = K
      BY <1>1, <1>9, <3>1
    <3>3. y # N => y + 1 \in j + 1 .. N /\ (y + 1) + M - d = x + 1
      BY <1>1, <1>9, <3>1
    <3> QED BY <1>2, <1>6, <1>13, <3>1, <3>2, <3>3
  <2> QED BY <1>14, <2>3, <2>4, <2>5
<1>22. ChainOf(hq, l, t)
  BY <1>3, <1>15, <1>16, <1>17, <1>18, <1>19, <1>20, <1>21 DEF ChainOf, Chain
<1> QED BY <1>22 DEF t, N

-----------------------------------------------------------------------------
(***************************************************************************)
(* Every pointer manipulation turns good heaps into good heaps.            *)
(***************************************************************************)
\* e, which holds v, is in list l behind place k; the other lists are as before.
Inserted(hq, hp, l, s, k, e, v) ==
  /\ hq.value = [hp.value EXCEPT ![e] = v]
  /\ ChainOf(hq, l, Spliced(s, hp.len[l], k, k, [x \in 1 .. 1 |-> e], 1))
  /\ Keeps(hq, hp, {l})

\* A new element in a gap of a list makes a good heap; only its owner changes.
LEMMA InsertGood ==
  ASSUME NEW hp, Good(hp), NEW l \in List, NEW s, NEW k, NEW p, NEW n,
         Gap(hp, l, s, k, p, n),
         NEW e \in Elem, hp.owner[e] = Nil, NEW v \in Value
  PROVE  /\ Good(Insert(hp, l, p, n, e, v))
         /\ Insert(hp, l, p, n, e, v).owner = Owned(hp, {e}, l)
         /\ Inserted(Insert(hp, l, p, n, e, v), hp, l, s, k, e, v)
<1> DEFINE hq == Insert(hp, l, p, n, e, v)
           N == hp.len[l]
           m == [x \in 1 .. 1 |-> e]
<1>1. hp \in Heap /\ ChainOf(hp, l, s) /\ k \in 0 .. N
  BY DEF Good, Gap
<1>2. /\ N \in Nat
      /\ \A i \in 1 .. N : s[i] \in Elem /\ hp.owner[s[i]] = l
      /\ \A x \in Elem : hp.owner[x] = l => \E i \in 1 .. N : x = s[i]
      /\ \A x, y \in 1 .. N : s[x] = s[y] => x = y
  BY <1>1, ChainOwner
<1>3. \A i \in 1 .. N : s[i] # e /\ s[i] # Nil
  BY <1>2, NilAssumption
<1>4. /\ p = IF k = 0 THEN Nil ELSE s[k]
      /\ n = IF k = N THEN Nil ELSE s[k + 1]
  BY DEF Gap
<1>5. p \in Ptr /\ n \in Ptr /\ e # p /\ e # n /\ e # Nil /\ l # Nil
  BY <1>1, <1>2, <1>3, <1>4, NilAssumption DEF Ptr
<1>6. IsInsert(hq, hp, l, p, n, e) /\ hq.value = [hp.value EXCEPT ![e] = v]
  BY <1>1, <1>5, InsertFields
<1> HIDE DEF hq
<1>7. \A x \in Elem : hq.owner[x] = IF x = e THEN l ELSE hp.owner[x]
  BY <1>6 DEF IsInsert, Owned
<1>8. Rejoins(hq, hp, l, s, k, k, m, 1)
  <2>1. \A x \in 1 .. k : x # k => s[x] # p
    BY <1>1, <1>2, <1>3, <1>4
  <2>2. \A x \in 1 .. k : s[x] # n
    BY <1>1, <1>2, <1>3, <1>4
  <2>3. \A x \in k + 1 .. N : s[x] # p
    BY <1>1, <1>2, <1>3, <1>4
  <2>4. \A x \in k + 1 .. N : x # k + 1 => s[x] # n
    BY <1>1, <1>2, <1>3, <1>4
  <2>5. /\ hq.len[l] = N + 1
        /\ hq.head[l] = IF k = 0 THEN e ELSE hp.head[l]
        /\ hq.tail[l] = IF k = N THEN e ELSE hp.tail[l]
    <3>1. /\ p = Nil <=> k = 0
          /\ n = Nil <=> k = N
      BY <1>1, <1>2, <1>3, <1>4
    <3> QED BY <1>6, <3>1 DEF IsInsert
  <2>6. \A x \in 1 .. k : /\ hq.next[s[x]] = IF x = k THEN e ELSE hp.next[s[x]]
                          /\ hq.prev[s[x]] = hp.prev[s[x]]
    BY <1>1, <1>2, <1>3, <1>4, <1>6, <2>1, <2>2 DEF IsInsert
  <2>7. \A x \in k + 1 .. N : /\ hq.prev[s[x]] = IF x = k + 1 THEN e ELSE hp.prev[s[x]]
                              /\ hq.next[s[x]] = hp.next[s[x]]
    BY <1>1, <1>2, <1>3, <1>4, <1>6, <2>3, <2>4 DEF IsInsert
  <2>8. hq.next[e] = n /\ hq.prev[e] = p
    BY <1>5, <1>6 DEF IsInsert
  <2>9. \A x \in Elem : hq.owner[x] = l <=> \/ \E i \in 1 .. k : x = s[i]
                                            \/ x = e
                                            \/ \E i \in k + 1 .. N : x = s[i]
    BY <1>1, <1>2, <1>7
  <2> QED BY <1>1, <1>2, <1>4, <2>5, <2>6, <2>7, <2>8, <2>9 DEF Rejoins
<1>9. ChainOf(hq, l, Spliced(s, N, k, k, m, 1))
  <2>1. /\ m \in [1 .. 1 -> Elem] /\ \A x, y \in 1 .. 1 : m[x] = m[y] => x = y
        /\ \A x \in 1 .. 1, y \in 1 .. N : m[x] # s[y]
        /\ k \in Nat /\ k <= k /\ k <= N /\ 1 \in Nat
    BY <1>1, <1>2, <1>3
  <2> HIDE DEF m
  <2> QED BY <1>1, <1>8, <2>1, RejoinChain
<1>10. ASSUME NEW q \in List, q # l, NEW r, ChainOf(hp, q, r) PROVE ChainOf(hq, q, r)
  <2>2. \A x \in Elem : hp.owner[x] = q => x # p /\ x # n /\ x # e
    BY <1>1, <1>2, <1>4, <1>10, NilAssumption
  <2>3. /\ hq.head[q] = hp.head[q] /\ hq.tail[q] = hp.tail[q] /\ hq.len[q] = hp.len[q]
    BY <1>6, <1>10 DEF IsInsert
  <2>4. \A x \in Elem : hq.owner[x] = q <=> hp.owner[x] = q
    BY <1>7, <1>10, NilAssumption
  <2>5. \A x \in Elem : hp.owner[x] = q => hq.prev[x] = hp.prev[x] /\ hq.next[x] = hp.next[x]
    BY <1>6, <2>2 DEF IsInsert
  <2> QED BY <1>10, <2>3, <2>4, <2>5, SameChain
<1>11. ASSUME NEW x \in Elem, hq.owner[x] = Nil PROVE hq.prev[x] = Nil /\ hq.next[x] = Nil
  <2>1. x # e /\ hp.owner[x] = Nil
    BY <1>5, <1>7, <1>11
  <2>2. x # p /\ x # n
    BY <1>1, <1>2, <1>4, <1>5, <2>1, NilAssumption
  <2> QED BY <1>6, <2>1, <2>2 DEF IsInsert, Good
<1>12. Keeps(hq, hp, {l})
  BY <1>10 DEF Keeps
<1>13. Good(hq) /\ hq.owner = Owned(hp, {e}, l)
  BY <1>6, <1>9, <1>11, <1>12 DEF Good, IsInsert, Keeps
<1>14. Inserted(hq, hp, l, s, k, e, v)
  BY <1>6, <1>9, <1>12 DEF Inserted
<1> QED BY <1>13, <1>14 DEF hq

\* What the operations that take the run G out of list l, from between p and
\* n, do to everything outside the run.
Cuts(hq, hp, l, p, n, G) ==
  /\ \A x \in Elem \ G : /\ hq.next[x] = IF x = p THEN n ELSE hp.next[x]
                         /\ hq.prev[x] = IF x = n THEN p ELSE hp.prev[x]
                         /\ hq.owner[x] = hp.owner[x]
  /\ \A x \in G : hq.owner[x] # l
  /\ hq.head[l] = IF p = Nil THEN n ELSE hp.head[l]
  /\ hq.tail[l] = IF n = Nil THEN p ELSE hp.tail[l]
  /\ hq.len[l] = hp.len[l] - Cardinality(G)

\* s[i], ..., s[j] is a run of list l, and G its elements.
RunOf(hp, l, s, i, j, G) ==
  /\ Good(hp) /\ l \in List /\ ChainOf(hp, l, s)
  /\ i \in 1 .. hp.len[l] /\ j \in i .. hp.len[l]
  /\ G = {s[x] : x \in i .. j}

NoElems == [x \in 1 .. 0 |-> Nil]
Between(s, i, j) == [x \in 1 .. (j - i + 1) |-> s[i + x - 1]]

\* List l has lost that run; the other lists are as before.
Shortened(hq, hp, l, s, i, j) ==
  /\ hq.value = hp.value
  /\ ChainOf(hq, l, Spliced(s, hp.len[l], i - 1, j, NoElems, 0))
  /\ Keeps(hq, hp, {l})

\* The neighbours of a run, and the size of it.
LEMMA RunFacts ==
  ASSUME NEW hp, NEW l, NEW s, NEW i, NEW j, NEW G, RunOf(hp, l, s, i, j, G)
  PROVE  /\ hp.prev[s[i]] = IF i = 1 THEN Nil ELSE s[i - 1]
         /\ hp.next[s[j]] = IF j = hp.len[l] THEN Nil ELSE s[j + 1]
         /\ hp.prev[s[i]] \in Ptr \ G /\ hp.next[s[j]] \in Ptr \ G
         /\ \A x \in Elem : x = hp.prev[s[i]] \/ x = hp.next[s[j]] => hp.owner[x] = l
         /\ G \in SUBSET Elem /\ \A x \in G : hp.owner[x] = l
         /\ Cardinality(G) = j - i + 1
         /\ \A x \in 1 .. i - 1 : s[x] \in Elem \ G
         /\ \A x \in j + 1 .. hp.len[l] : s[x] \in Elem \ G
<1> DEFINE N == hp.len[l]
<1>1. hp \in Heap /\ l \in List /\ ChainOf(hp, l, s) /\ i \in 1 .. N /\ j \in i .. N
      /\ G = {s[x] : x \in i .. j}
  BY DEF RunOf, Good
<1>2. /\ N \in Nat
      /\ \A x \in 1 .. N : s[x] \in Elem /\ hp.owner[s[x]] = l
      /\ \A x, y \in 1 .. N : s[x] = s[y] => x = y
  BY <1>1, ChainOwner
<1>3. /\ hp.prev[s[i]] = IF i = 1 THEN Nil ELSE s[i - 1]
      /\ hp.next[s[j]] = IF j = N THEN Nil ELSE s[j + 1]
  BY <1>1, <1>2 DEF ChainOf, Chain
<1>4. G \in SUBSET Elem /\ \A x \in G : hp.owner[x] = l
  BY <1>1, <1>2
<1>5. \A x \in 1 .. i - 1 : s[x] \in Elem \ G
  BY <1>1, <1>2
<1>6. \A x \in j + 1 .. N : s[x] \in Elem \ G
  BY <1>1, <1>2
<1>7. Nil \notin G
  BY <1>4, NilAssumption
<1>8. hp.prev[s[i]] \in Ptr \ G
  BY <1>1, <1>2, <1>3, <1>5, <1>7 DEF Ptr
<1>9. hp.next[s[j]] \in Ptr \ G
  BY <1>1, <1>2, <1>3, <1>6, <1>7 DEF Ptr
<1>10. Cardinality(G) = j - i + 1
  <2>1. i \in Nat /\ j \in Nat /\ i <= j /\ Distinct(s, i, j)
    BY <1>1, <1>2 DEF Distinct
  <2> QED BY <1>1, <2>1, RunCount DEF Run
<1>11. \A x \in Elem : x = hp.prev[s[i]] \/ x = hp.next[s[j]] => hp.owner[x] = l
  BY <1>1, <1>2, <1>3, NilAssumption
<1> QED BY <1>3, <1>4, <1>5, <1>6, <1>8, <1>9, <1>10, <1>11

\* The list a run was cut from, every list it does not go to, and the loose
\* elements are as they should be.
LEMMA CutRest ==
  ASSUME NEW hp, NEW l, NEW s, NEW i, NEW j, NEW G, RunOf(hp, l, s, i, j, G),
         NEW hq, Cuts(hq, hp, l, hp.prev[s[i]], hp.next[s[j]], G)
  PROVE  /\ hq.len[l] \in Nat
         /\ ChainOf(hq, l, Spliced(s, hp.len[l], i - 1, j, NoElems, 0))
         /\ \A q \in List : \A r : /\ q # l /\ \A x \in G : hq.owner[x] # q
                                   /\ hq.head[q] = hp.head[q] /\ hq.tail[q] = hp.tail[q]
                                   /\ hq.len[q] = hp.len[q]
                                   /\ ChainOf(hp, q, r)
                                   => ChainOf(hq, q, r)
         /\ \A x \in Elem \ G : hq.owner[x] = Nil => hq.prev[x] = Nil /\ hq.next[x] = Nil
<1> DEFINE N == hp.len[l]
           p == hp.prev[s[i]]
           n == hp.next[s[j]]
<1>1. hp \in Heap /\ l \in List /\ ChainOf(hp, l, s) /\ i \in 1 .. N /\ j \in i .. N
      /\ G = {s[x] : x \in i .. j}
  BY DEF RunOf, Good
<1>2. /\ N \in Nat
      /\ \A x \in 1 .. N : s[x] \in Elem /\ hp.owner[s[x]] = l
      /\ \A x \in Elem : hp.owner[x] = l => \E y \in 1 .. N : x = s[y]
      /\ \A x, y \in 1 .. N : s[x] = s[y] => x = y
  BY <1>1, ChainOwner
<1>3. /\ p = IF i = 1 THEN Nil ELSE s[i - 1]
      /\ n = IF j = N THEN Nil ELSE s[j + 1]
      /\ \A x \in Elem : x = p \/ x = n => hp.owner[x] = l
      /\ Cardinality(G) = j - i + 1
      /\ \A x \in 1 .. i - 1 : s[x] \in Elem \ G
      /\ \A x \in j + 1 .. N : s[x] \in Elem \ G
  BY RunFacts
<1>4. hq.len[l] = N - (j - (i - 1)) + 0 /\ hq.len[l] \in Nat
  BY <1>1, <1>2, <1>3 DEF Cuts
<1> HIDE DEF p, n, N
<1>5. Rejoins(hq, hp, l, s, i - 1, j, NoElems, 0)
  <2>1. /\ p = Nil <=> i - 1 = 0
        /\ n = Nil <=> j = N
    BY <1>1, <1>2, <1>3, NilAssumption
  <2>2. /\ hq.head[l] = IF i - 1 = 0 THEN n ELSE hp.head[l]
        /\ hq.tail[l] = IF j = N THEN p ELSE hp.tail[l]
    BY <2>1 DEF Cuts, p, n
  <2>3. \A x \in 1 .. i - 1 : (s[x] = p <=> x = i - 1) /\ s[x] # n
    BY <1>1, <1>2, <1>3, <2>1, NilAssumption
  <2>4. \A x \in j + 1 .. N : (s[x] = n <=> x = j + 1) /\ s[x] # p
    BY <1>1, <1>2, <1>3, <2>1, NilAssumption
  <2>5. \A x \in 1 .. i - 1 : /\ hq.next[s[x]] = IF x = i - 1 THEN n ELSE hp.next[s[x]]
                              /\ hq.prev[s[x]] = hp.prev[s[x]]
    BY <1>3, <2>3 DEF Cuts, p, n
  <2>6. \A x \in j + 1 .. N : /\ hq.prev[s[x]] = IF x = j + 1 THEN p ELSE hp.prev[s[x]]
                              /\ hq.next[s[x]] = hp.next[s[x]]
    BY <1>3, <2>4 DEF Cuts, p, n
  <2>7. \A x \in Elem : hq.owner[x] = l <=> \/ \E y \in 1 .. i - 1 : x = s[y]
                                            \/ \E y \in j + 1 .. N : x = s[y]
    <3>1. ASSUME NEW x \in Elem, hq.owner[x] = l
          PROVE  (\E y \in 1 .. i - 1 : x = s[y]) \/ (\E y \in j + 1 .. N : x = s[y])
      <4>1. x \notin G /\ hp.owner[x] = l
        BY <3>1 DEF Cuts
      <4>2. PICK y \in 1 .. N : x = s[y]
        BY <1>2, <4>1
      <4>3. y \notin i .. j
        BY <1>1, <4>1, <4>2
      <4> QED BY <1>1, <1>2, <4>2, <4>3
    <3>2. ASSUME NEW y \in 1 .. i - 1 PROVE hq.owner[s[y]] = l
      BY <1>1, <1>2, <1>3 DEF Cuts
    <3>3. ASSUME NEW y \in j + 1 .. N PROVE hq.owner[s[y]] = l
      BY <1>1, <1>2, <1>3 DEF Cuts
    <3> QED BY <3>1, <3>2, <3>3
  <2>8. p = IF i - 1 = 0 THEN Nil ELSE s[i - 1]
    BY <1>1, <1>2, <1>3
  <2>9. 1 .. 0 = {} /\ N = hp.len[l]
    BY DEF N
  <2>10. \A x \in Elem : hq.owner[x] = l <=> \/ \E y \in 1 .. i - 1 : x = s[y]
                                             \/ \E y \in 1 .. 0 : x = NoElems[y]
                                             \/ \E y \in j + 1 .. N : x = s[y]
    BY <2>7, <2>9
  <2>11. Seamed(hq, hp, l, s, i - 1, j, NoElems, 0, p, n, n, p)
    BY <1>3, <1>4, <2>2, <2>5, <2>6, <2>8, <2>9, <2>10 DEF Seamed
  <2> QED BY <2>11, SeamedRejoins
<1>6. ChainOf(hq, l, Spliced(s, hp.len[l], i - 1, j, NoElems, 0))
  <2>1. /\ i - 1 \in Nat /\ j \in Nat /\ i - 1 <= j /\ j <= hp.len[l] /\ 0 \in Nat
        /\ NoElems \in [1 .. 0 -> Elem]
        /\ \A x, y \in 1 .. 0 : NoElems[x] = NoElems[y] => x = y
        /\ \A x \in 1 .. 0, y \in 1 .. hp.len[l] : NoElems[x] # s[y]
    BY <1>1, <1>2 DEF N, NoElems
  <2> QED BY <1>1, <1>5, <2>1, RejoinChain
<1>7. ASSUME NEW q \in List, NEW r, q # l, \A x \in G : hq.owner[x] # q,
             hq.head[q] = hp.head[q], hq.tail[q] = hp.tail[q], hq.len[q] = hp.len[q],
             ChainOf(hp, q, r)
      PROVE  ChainOf(hq, q, r)
  <2>1. \A x \in Elem : hp.owner[x] = q => x \notin G /\ x # p /\ x # n
    BY <1>1, <1>2, <1>3, <1>7 DEF N
  <2>2. \A x \in Elem : hq.owner[x] = q <=> hp.owner[x] = q
    BY <1>7, <2>1 DEF Cuts
  <2>3. \A x \in Elem : hp.owner[x] = q => hq.prev[x] = hp.prev[x] /\ hq.next[x] = hp.next[x]
    BY <2>1 DEF Cuts, p, n
  <2> QED BY <1>7, <2>2, <2>3, SameChain
<1>8. ASSUME NEW x \in Elem \ G, hq.owner[x] = Nil PROVE hq.prev[x] = Nil /\ hq.next[x] = Nil
  <2>1. hp.owner[x] = Nil /\ hp.prev[x] = Nil /\ hp.next[x] = Nil
    BY <1>8 DEF Cuts, RunOf, Good
  <2>2. x # p /\ x # n
    BY <1>1, <1>3, <2>1, NilAssumption
  <2> QED BY <2>1, <2>2 DEF Cuts, p, n
<1> QED BY <1>4, <1>6, <1>7, <1>8

\* An element that is cut out by Remove leaves a good heap and is loose.
LEMMA UnlinkGood ==
  ASSUME NEW hp, Good(hp), NEW l \in List, NEW e \in Elem, hp.owner[e] = l
  PROVE  /\ Good(Unlink(hp, l, e))
         /\ Unlink(hp, l, e).owner = Owned(hp, {e}, Nil)
         /\ \E s, k, G : RunOf(hp, l, s, k, k, G) /\ Shortened(Unlink(hp, l, e), hp, l, s, k, k)
<1> DEFINE p == hp.prev[e]
           n == hp.next[e]
           hj == Join(hp, l, p, n, n, p)
           hq == Unlink(hp, l, e)
<1>1. PICK s : ChainOf(hp, l, s)
  BY DEF Good
<1>2. hp \in Heap
  BY DEF Good
<1>3. PICK k \in 1 .. hp.len[l] : s[k] = e
  BY <1>1, <1>2, ChainOwner
<1>4. RunOf(hp, l, s, k, k, {e})
  <2>1. k \in k .. k /\ {s[x] : x \in k .. k} = {e}
    BY <1>3
  <2>2. hp.len[l] \in Nat
    BY <1>1, <1>2, ChainOwner
  <2> QED BY <1>1, <1>3, <2>1, <2>2 DEF RunOf
<1>5. p \in Ptr \ {e} /\ n \in Ptr \ {e} /\ Cardinality({e}) = 1
  BY <1>3, <1>4, RunFacts
<1>6. IsJoin(hj, hp, l, p, n, n, p)
  BY <1>2, <1>5, JoinFields
<1>7. hq = [hj EXCEPT !.prev[e] = Nil, !.next[e] = Nil, !.owner[e] = Nil, !.len[l] = @ - 1]
  BY DEF Unlink
<1> HIDE DEF hj, hq, p, n
<1>8. hj \in Heap
  BY <1>6 DEF IsJoin
<1>9. /\ hq.prev = [hj.prev EXCEPT ![e] = Nil] /\ hq.next = [hj.next EXCEPT ![e] = Nil]
      /\ hq.owner = [hj.owner EXCEPT ![e] = Nil] /\ hq.len = [hj.len EXCEPT ![l] = @ - 1]
      /\ hq.head = hj.head /\ hq.tail = hj.tail /\ hq.value = hj.value
      /\ hq = [prev |-> hq.prev, next |-> hq.next, owner |-> hq.owner, value |-> hq.value,
               head |-> hq.head, tail |-> hq.tail, len |-> hq.len]
  BY <1>7, <1>8 DEF Heap
<1>10. /\ hj.prev \in [Elem -> Ptr] /\ hj.next \in [Elem -> Ptr]
       /\ hj.owner \in [Elem -> List \union {Nil}] /\ hj.value \in [Elem -> Value]
       /\ hj.head \in [List -> Ptr] /\ hj.tail \in [List -> Ptr] /\ hj.len \in [List -> Nat]
  BY <1>8 DEF Heap
<1>11. \A q \in List : hq.len[q] = IF q = l THEN hp.len[l] - 1 ELSE hp.len[q]
  BY <1>6, <1>9, <1>10 DEF IsJoin
<1>12. hq.owner = Owned(hp, {e}, Nil)
  BY <1>6, <1>9, <1>10 DEF IsJoin, Owned
<1>13. \A x \in Elem : hq.owner[x] = IF x = e THEN Nil ELSE hp.owner[x]
  BY <1>12 DEF Owned
<1>14. Cuts(hq, hp, l, p, n, {e})
  <2>1. \A x \in Elem \ {e} : /\ hq.next[x] = IF x = p THEN n ELSE hp.next[x]
                              /\ hq.prev[x] = IF x = n THEN p ELSE hp.prev[x]
    BY <1>6, <1>9, <1>10 DEF IsJoin
  <2>2. /\ hq.head[l] = IF p = Nil THEN n ELSE hp.head[l]
        /\ hq.tail[l] = IF n = Nil THEN p ELSE hp.tail[l]
    BY <1>6, <1>9 DEF IsJoin
  <2> QED BY <1>5, <1>11, <1>13, <2>1, <2>2, NilAssumption DEF Cuts
<1>15. /\ hq.len[l] \in Nat
       /\ ChainOf(hq, l, Spliced(s, hp.len[l], k - 1, k, NoElems, 0))
       /\ \A q \in List : \A r : /\ q # l /\ \A x \in {e} : hq.owner[x] # q
                                 /\ hq.head[q] = hp.head[q] /\ hq.tail[q] = hp.tail[q]
                                 /\ hq.len[q] = hp.len[q]
                                 /\ ChainOf(hp, q, r)
                                 => ChainOf(hq, q, r)
       /\ \A x \in Elem \ {e} : hq.owner[x] = Nil => hq.prev[x] = Nil /\ hq.next[x] = Nil
  BY <1>3, <1>4, <1>14, CutRest DEF p, n
<1>16. hq \in Heap
  <2>1. hq.len \in [List -> Nat]
    BY <1>9, <1>10, <1>11, <1>15, <1>2 DEF Heap
  <2>2. /\ hq.prev \in [Elem -> Ptr] /\ hq.next \in [Elem -> Ptr]
        /\ hq.owner \in [Elem -> List \union {Nil}]
    BY <1>9, <1>10 DEF Ptr
  <2> QED BY <1>9, <1>10, <2>1, <2>2 DEF Heap
<1>17. Keeps(hq, hp, {l})
  <2> SUFFICES ASSUME NEW q \in List \ {l}, NEW r, ChainOf(hp, q, r) PROVE ChainOf(hq, q, r)
    BY DEF Keeps
  <2>1. hq.head[q] = hp.head[q] /\ hq.tail[q] = hp.tail[q] /\ hq.len[q] = hp.len[q]
    BY <1>6, <1>9, <1>11 DEF IsJoin
  <2>2. \A x \in {e} : hq.owner[x] # q
    BY <1>13, NilAssumption
  <2> QED BY <1>15, <2>1, <2>2
<1>18. \A x \in Elem : hq.owner[x] = Nil => hq.prev[x] = Nil /\ hq.next[x] = Nil
  BY <1>9, <1>10, <1>15
<1>19. Good(hq) /\ hq.owner = Owned(hp, {e}, Nil) /\ hq.value = hp.value
  BY <1>6, <1>9, <1>12, <1>15, <1>16, <1>17, <1>18 DEF Good, Keeps, IsJoin
<1>20. Shortened(hq, hp, l, s, k, k)
  BY <1>15, <1>17, <1>19 DEF Shortened
<1> QED BY <1>4, <1>19, <1>20 DEF hq

\* A loop from the first element of a run to the one behind it visits the run.
LEMMA RunVisited ==
  ASSUME NEW hp, NEW l, NEW s, NEW i, NEW j, NEW G, RunOf(hp, l, s, i, j, G)
  PROVE  Visited(hp.next, s[i], hp.next[s[j]]) = G
<1> DEFINE N == hp.len[l]
           n == hp.next[s[j]]
<1>1. hp \in Heap /\ l \in List /\ ChainOf(hp, l, s) /\ i \in 1 .. N /\ j \in i .. N
      /\ G = {s[x] : x \in i .. j}
  BY DEF RunOf, Good
<1>2. N \in Nat /\ \A x \in 1 .. N : s[x] \in Elem
  BY <1>1, ChainOwner
<1>3. n \in Ptr \ G
  BY RunFacts
<1>4. \A x \in 1 .. N : hp.next[s[x]] = IF x = N THEN Nil ELSE s[x + 1]
  BY <1>1 DEF ChainOf, Chain
<1>5. Walks(hp.next, s, i, j, n)
  BY <1>1, <1>2, <1>3, <1>4 DEF Walks
<1>6. Visited(hp.next, s[i], n) = Run(s, i, j)
  BY <1>5, VisitedRun
<1> QED BY <1>1, <1>6 DEF Run

\* Detaching a run leaves a good heap, its elements loose and the other lists
\* as they were.
LEMMA DetachGood ==
  ASSUME NEW hp, NEW l, NEW s, NEW i, NEW j, NEW G, RunOf(hp, l, s, i, j, G),
         NEW hq, hq = DetachRange(hp, l, s[i], hp.next[s[j]])
  PROVE  /\ Good(hq)
         /\ hq.owner = Owned(hp, G, Nil)
         /\ Shortened(hq, hp, l, s, i, j)
<1> DEFINE p == hp.prev[s[i]]
           n == hp.next[s[j]]
           loose == [hp EXCEPT !.prev = [x \in Elem |-> IF x \in G THEN Nil ELSE @[x]],
                               !.next = [x \in Elem |-> IF x \in G THEN Nil ELSE @[x]],
                               !.owner = Owned(hp, G, Nil)]
           hj == Join(loose, l, p, n, n, p)
<1>1. hp \in Heap /\ l \in List /\ Good(hp)
  BY DEF RunOf, Good
<1>2. p \in Ptr \ G /\ n \in Ptr \ G /\ G \in SUBSET Elem
  BY RunFacts
<1>3. hq = [hj EXCEPT !.len[l] = @ - Cardinality(G)]
  <2>1. Visited(hp.next, s[i], hp.next[s[j]]) = G
    BY RunVisited
  <2> QED BY <2>1 DEF DetachRange
<1>4. /\ loose \in Heap
      /\ loose.head = hp.head /\ loose.tail = hp.tail /\ loose.len = hp.len
      /\ loose.value = hp.value
      /\ loose.owner = Owned(hp, G, Nil)
      /\ \A x \in Elem : /\ loose.next[x] = IF x \in G THEN Nil ELSE hp.next[x]
                         /\ loose.prev[x] = IF x \in G THEN Nil ELSE hp.prev[x]
  BY <1>1 DEF Heap, Ptr, Owned
<1> HIDE DEF p, n, loose
<1>5. IsJoin(hj, loose, l, p, n, n, p)
  BY <1>1, <1>2, <1>4, JoinFields
<1> HIDE DEF hj
<1>6. /\ hj.prev \in [Elem -> Ptr] /\ hj.next \in [Elem -> Ptr]
      /\ hj.owner \in [Elem -> List \union {Nil}] /\ hj.value \in [Elem -> Value]
      /\ hj.head \in [List -> Ptr] /\ hj.tail \in [List -> Ptr] /\ hj.len \in [List -> Nat]
      /\ hj \in Heap
  BY <1>5 DEF IsJoin, Heap
<1>7. /\ hq.prev = hj.prev /\ hq.next = hj.next /\ hq.owner = hj.owner /\ hq.value = hj.value
      /\ hq.head = hj.head /\ hq.tail = hj.tail
      /\ hq.len = [hj.len EXCEPT ![l] = @ - Cardinality(G)]
      /\ hq = [prev |-> hq.prev, next |-> hq.next, owner |-> hq.owner, value |-> hq.value,
               head |-> hq.head, tail |-> hq.tail, len |-> hq.len]
  BY <1>3, <1>6 DEF Heap
<1>8. \A q \in List : hq.len[q] = IF q = l THEN hp.len[l] - Cardinality(G) ELSE hp.len[q]
  BY <1>1, <1>4, <1>5, <1>6, <1>7 DEF IsJoin
<1>9. hq.owner = Owned(hp, G, Nil)
  BY <1>4, <1>5, <1>7 DEF IsJoin
<1>10. \A x \in Elem : hq.owner[x] = IF x \in G THEN Nil ELSE hp.owner[x]
  BY <1>9 DEF Owned
<1>11. Cuts(hq, hp, l, p, n, G)
  <2>1. \A x \in Elem \ G : /\ hq.next[x] = IF x = p THEN n ELSE hp.next[x]
                            /\ hq.prev[x] = IF x = n THEN p ELSE hp.prev[x]
    BY <1>4, <1>5, <1>7 DEF IsJoin
  <2>2. /\ hq.head[l] = IF p = Nil THEN n ELSE hp.head[l]
        /\ hq.tail[l] = IF n = Nil THEN p ELSE hp.tail[l]
    BY <1>1, <1>4, <1>5, <1>7 DEF IsJoin
  <2>3. \A x \in Elem \ G : hq.owner[x] = hp.owner[x]
    BY <1>10
  <2>4. \A x \in G : hq.owner[x] # l
    BY <1>1, <1>2, <1>10, NilAssumption
  <2>5. hq.len[l] = hp.len[l] - Cardinality(G)
    BY <1>1, <1>8
  <2> QED BY <2>1, <2>2, <2>3, <2>4, <2>5 DEF Cuts
<1>12. /\ hq.len[l] \in Nat
       /\ ChainOf(hq, l, Spliced(s, hp.len[l], i - 1, j, NoElems, 0))
       /\ \A q \in List : \A r : /\ q # l /\ \A x \in G : hq.owner[x] # q
                                 /\ hq.head[q] = hp.head[q] /\ hq.tail[q] = hp.tail[q]
                                 /\ hq.len[q] = hp.len[q]
                                 /\ ChainOf(hp, q, r)
                                 => ChainOf(hq, q, r)
       /\ \A x \in Elem \ G : hq.owner[x] = Nil => hq.prev[x] = Nil /\ hq.next[x] = Nil
  <2>1. Cuts(hq, hp, l, hp.prev[s[i]], hp.next[s[j]], G)
    BY <1>11 DEF p, n
  <2> QED BY <2>1, CutRest
<1>13. hq \in Heap
  <2>1. hq.len \in [List -> Nat]
    BY <1>1, <1>6, <1>7, <1>8, <1>12 DEF Heap
  <2> QED BY <1>6, <1>7, <2>1 DEF Heap
<1>14. Keeps(hq, hp, {l})
  <2> SUFFICES ASSUME NEW q \in List \ {l}, NEW r, ChainOf(hp, q, r) PROVE ChainOf(hq, q, r)
    BY DEF Keeps
  <2>1. hq.head[q] = hp.head[q] /\ hq.tail[q] = hp.tail[q] /\ hq.len[q] = hp.len[q]
    BY <1>4, <1>5, <1>7, <1>8 DEF IsJoin
  <2>2. \A x \in G : hq.owner[x] # q
    BY <1>2, <1>10, NilAssumption
  <2> QED BY <1>12, <2>1, <2>2
<1>15. ASSUME NEW x \in G PROVE hq.prev[x] = Nil /\ hq.next[x] = Nil
  BY <1>2, <1>4, <1>5, <1>7 DEF IsJoin
<1>16. Good(hq)
  BY <1>1, <1>12, <1>13, <1>14, <1>15 DEF Good, Keeps
<1>17. hq.value = hp.value
  BY <1>4, <1>5, <1>7 DEF IsJoin
<1> QED BY <1>9, <1>12, <1>14, <1>16, <1>17 DEF Shortened

\* An empty list owns nothing and has nil ends; a heap that says so of a list
\* has a chain for it.
LEMMA EmptyOwnsNothing ==
  ASSUME NEW hp, Good(hp), NEW l \in List, hp.len[l] = 0
  PROVE  hp.head[l] = Nil /\ hp.tail[l] = Nil /\ \A x \in Elem : hp.owner[x] # l
<1>1. PICK s : ChainOf(hp, l, s)
  BY DEF Good
<1> QED BY <1>1 DEF ChainOf, Chain

LEMMA EmptyChain ==
  ASSUME NEW hq, NEW l, hq.len[l] = 0, hq.head[l] = Nil, hq.tail[l] = Nil,
         \A x \in Elem : hq.owner[x] # l
  PROVE  ChainOf(hq, l, NoElems)
BY DEF ChainOf, Chain, NoElems

\* List dst has what list l has lost.
CutOff(hq, hp, l, s, i, j, dst) ==
  /\ hq.value = hp.value
  /\ ChainOf(hq, l, Spliced(s, hp.len[l], i - 1, j, NoElems, 0))
  /\ ChainOf(hq, dst, Between(s, i, j))
  /\ Keeps(hq, hp, {l, dst})

\* A run that CutRange moves to an empty list leaves both lists well linked.
LEMMA CutGood ==
  ASSUME NEW hp, NEW l, NEW s, NEW i, NEW j, NEW G, RunOf(hp, l, s, i, j, G),
         NEW dst \in List, dst # l, hp.len[dst] = 0,
         NEW hq, hq = Cut(hp, l, s[i], s[j], dst)
  PROVE  /\ Good(hq)
         /\ hq.owner = Owned(hp, G, dst)
         /\ CutOff(hq, hp, l, s, i, j, dst)
<1> DEFINE N == hp.len[l]
           p == hp.prev[s[i]]
           n == hp.next[s[j]]
           hj == Join(hp, l, p, n, n, p)
           apart == [hj EXCEPT !.prev[s[i]] = Nil, !.next[s[j]] = Nil,
                               !.head[dst] = s[i], !.tail[dst] = s[j]]
           t == [x \in 1 .. (j - i + 1) |-> s[i + x - 1]]
<1>1. /\ hp \in Heap /\ l \in List /\ Good(hp) /\ ChainOf(hp, l, s)
      /\ i \in 1 .. N /\ j \in i .. N /\ G = {s[x] : x \in i .. j}
  BY DEF RunOf, Good
<1>2. /\ N \in Nat
      /\ \A x \in 1 .. N : s[x] \in Elem
      /\ \A x, y \in 1 .. N : s[x] = s[y] => x = y
  BY <1>1, ChainOwner
<1>3. \A x \in 1 .. N : /\ hp.prev[s[x]] = IF x = 1 THEN Nil ELSE s[x - 1]
                        /\ hp.next[s[x]] = IF x = N THEN Nil ELSE s[x + 1]
  BY <1>1 DEF ChainOf, Chain
<1>4. /\ p \in Ptr \ G /\ n \in Ptr \ G /\ G \in SUBSET Elem
      /\ Cardinality(G) = j - i + 1 /\ \A x \in G : hp.owner[x] = l
  BY RunFacts
<1>5. s[i] \in G /\ s[j] \in G /\ \A x \in i .. j : s[x] \in G /\ s[x] # p /\ s[x] # n
  BY <1>1, <1>4
<1>6. IsJoin(hj, hp, l, p, n, n, p)
  BY <1>1, <1>4, JoinFields
<1>7. hq = [apart EXCEPT !.owner = Owned(apart, Visited(apart.next, s[i], Nil), dst),
                         !.len[dst] = Cardinality(Visited(apart.next, s[i], Nil)),
                         !.len[l] = @ - Cardinality(Visited(apart.next, s[i], Nil))]
  BY DEF Cut
<1> HIDE DEF hj, p, n, N
<1>8. /\ hj.prev \in [Elem -> Ptr] /\ hj.next \in [Elem -> Ptr]
      /\ hj.owner \in [Elem -> List \union {Nil}] /\ hj.value \in [Elem -> Value]
      /\ hj.head \in [List -> Ptr] /\ hj.tail \in [List -> Ptr] /\ hj.len \in [List -> Nat]
      /\ hj \in Heap
  BY <1>6 DEF IsJoin, Heap
<1>9. /\ apart.prev = [hj.prev EXCEPT ![s[i]] = Nil] /\ apart.next = [hj.next EXCEPT ![s[j]] = Nil]
      /\ apart.owner = hj.owner /\ apart.value = hj.value /\ apart.len = hj.len
      /\ apart.head = [hj.head EXCEPT ![dst] = s[i]] /\ apart.tail = [hj.tail EXCEPT ![dst] = s[j]]
      /\ apart \in Heap
  <2>1. apart.prev = [hj.prev EXCEPT ![s[i]] = Nil] /\ apart.next = [hj.next EXCEPT ![s[j]] = Nil]
    BY <1>8 DEF Heap
  <2>2. apart.owner = hj.owner /\ apart.value = hj.value /\ apart.len = hj.len
    BY <1>8 DEF Heap
  <2>3. apart.head = [hj.head EXCEPT ![dst] = s[i]] /\ apart.tail = [hj.tail EXCEPT ![dst] = s[j]]
    BY <1>8 DEF Heap
  <2>4. s[i] \in Elem /\ s[j] \in Elem
    BY <1>4, <1>5
  <2>5. apart \in Heap
    BY <1>8, <2>4 DEF Heap, Ptr
  <2> QED BY <2>1, <2>2, <2>3, <2>5
<1> HIDE DEF apart
<1>10. Visited(apart.next, s[i], Nil) = G
  <2>1. \A x \in i .. j : x < j => apart.next[s[x]] = s[x + 1]
    <3> TAKE x \in i .. j
    <3> HAVE x < j
    <3>1. s[x] \in Elem /\ s[x] # s[j] /\ s[x] # p /\ hp.next[s[x]] = s[x + 1]
      BY <1>1, <1>2, <1>3, <1>5
    <3> QED BY <1>6, <1>8, <1>9, <3>1 DEF IsJoin
  <2>2. apart.next[s[j]] = Nil
    BY <1>4, <1>5, <1>8, <1>9
  <2>3. \A x \in i .. j : s[x] \in Elem /\ s[x] # Nil
    BY <1>1, <1>2, NilAssumption
  <2>4. i \in Nat /\ j \in Nat /\ i <= j
    BY <1>1, <1>2
  <2>5. Walks(apart.next, s, i, j, Nil)
    BY <2>1, <2>2, <2>3, <2>4, NilAssumption DEF Walks
  <2> QED BY <1>1, <2>5, VisitedRun DEF Run
<1>11. /\ hq.prev = apart.prev /\ hq.next = apart.next /\ hq.value = apart.value
       /\ hq.owner = Owned(apart, G, dst)
       /\ hq.head = apart.head /\ hq.tail = apart.tail
       /\ hq.len = [apart.len EXCEPT ![dst] = Cardinality(G), ![l] = @ - Cardinality(G)]
  <2>1. hq = [apart EXCEPT !.owner = Owned(apart, G, dst),
                           !.len[dst] = Cardinality(G),
                           !.len[l] = @ - Cardinality(G)]
    BY <1>7, <1>10
  <2>2. hq.prev = apart.prev /\ hq.next = apart.next /\ hq.value = apart.value
    BY <1>9, <2>1 DEF Heap
  <2>3. hq.owner = Owned(apart, G, dst) /\ hq.head = apart.head /\ hq.tail = apart.tail
    BY <1>9, <2>1 DEF Heap
  <2>4. hq.len = [apart.len EXCEPT ![dst] = Cardinality(G), ![l] = @ - Cardinality(G)]
    BY <1>9, <2>1 DEF Heap
  <2> QED BY <2>2, <2>3, <2>4
<1>12. \A q \in List : hq.len[q] = IF q = l THEN hp.len[l] - Cardinality(G)
                                   ELSE IF q = dst THEN Cardinality(G) ELSE hp.len[q]
  BY <1>1, <1>6, <1>8, <1>9, <1>11 DEF IsJoin
<1>13. hq.owner = Owned(hp, G, dst)
  BY <1>6, <1>9, <1>11 DEF IsJoin, Owned
<1>14. \A x \in Elem : hq.owner[x] = IF x \in G THEN dst ELSE hp.owner[x]
  BY <1>13 DEF Owned
<1>15. \A x \in Elem :
         /\ hq.next[x] = IF x = s[j] THEN Nil ELSE IF x = p THEN n ELSE hp.next[x]
         /\ hq.prev[x] = IF x = s[i] THEN Nil ELSE IF x = n THEN p ELSE hp.prev[x]
  BY <1>6, <1>8, <1>9, <1>11 DEF IsJoin
<1>16. \A q \in List :
         /\ hq.head[q] = IF q = dst THEN s[i] ELSE IF q = l /\ p = Nil THEN n ELSE hp.head[q]
         /\ hq.tail[q] = IF q = dst THEN s[j] ELSE IF q = l /\ n = Nil THEN p ELSE hp.tail[q]
  BY <1>6, <1>8, <1>9, <1>11 DEF IsJoin
<1>17. Cuts(hq, hp, l, p, n, G)
  <2>1. hq.len[l] = hp.len[l] - Cardinality(G)
    BY <1>1, <1>12
  <2>2. /\ hq.head[l] = IF p = Nil THEN n ELSE hp.head[l]
        /\ hq.tail[l] = IF n = Nil THEN p ELSE hp.tail[l]
    BY <1>1, <1>16
  <2>3. \A x \in G : hq.owner[x] # l
    BY <1>4, <1>14
  <2>4. \A x \in Elem \ G : /\ hq.next[x] = IF x = p THEN n ELSE hp.next[x]
                            /\ hq.prev[x] = IF x = n THEN p ELSE hp.prev[x]
                            /\ hq.owner[x] = hp.owner[x]
    BY <1>5, <1>14, <1>15
  <2> QED BY <2>1, <2>2, <2>3, <2>4 DEF Cuts
<1>18. /\ hq.len[l] \in Nat
       /\ ChainOf(hq, l, Spliced(s, hp.len[l], i - 1, j, NoElems, 0))
       /\ \A q \in List : \A r : /\ q # l /\ \A x \in G : hq.owner[x] # q
                                 /\ hq.head[q] = hp.head[q] /\ hq.tail[q] = hp.tail[q]
                                 /\ hq.len[q] = hp.len[q]
                                 /\ ChainOf(hp, q, r)
                                 => ChainOf(hq, q, r)
       /\ \A x \in Elem \ G : hq.owner[x] = Nil => hq.prev[x] = Nil /\ hq.next[x] = Nil
  BY <1>17, CutRest DEF p, n
<1>19. hq \in Heap
  <2>1. hq.len \in [List -> Nat]
    <3>1. \A q \in List : hq.len[q] \in Nat
      BY <1>1, <1>2, <1>4, <1>12, <1>18 DEF Heap
    <3> QED BY <1>8, <1>9, <1>11, <3>1
  <2>2. /\ hq.prev \in [Elem -> Ptr] /\ hq.next \in [Elem -> Ptr]
        /\ hq.head \in [List -> Ptr] /\ hq.tail \in [List -> Ptr]
    BY <1>4, <1>5, <1>8, <1>9, <1>11 DEF Ptr
  <2>3. hq.owner \in [Elem -> List \union {Nil}]
    BY <1>8, <1>9, <1>11 DEF Owned
  <2>4. hq = [apart EXCEPT !.owner = Owned(apart, G, dst),
                           !.len[dst] = Cardinality(G),
                           !.len[l] = @ - Cardinality(G)]
    BY <1>7, <1>10
  <2> QED BY <1>9, <1>11, <2>1, <2>3, <2>4 DEF Heap
<1>20. ChainOf(hq, dst, t)
  <2>1. hq.len[dst] = j - i + 1
    BY <1>1, <1>4, <1>12
  <2>2. /\ t \in [1 .. (j - i + 1) -> Elem]
        /\ \A x \in 1 .. (j - i + 1) : i + x - 1 \in i .. j /\ t[x] = s[i + x - 1]
    BY <1>1, <1>2
  <2>3. \A x, y \in 1 .. (j - i + 1) : t[x] = t[y] => x = y
    BY <1>1, <1>2
  <2>4. {x \in Elem : hq.owner[x] = dst} = {t[x] : x \in 1 .. (j - i + 1)}
    <3>1. \A x \in Elem : hq.owner[x] = dst <=> x \in G
      BY <1>1, <1>14, EmptyOwnsNothing
    <3>2. \A x \in i .. j : x - i + 1 \in 1 .. (j - i + 1) /\ t[x - i + 1] = s[x]
      BY <1>1, <1>2
    <3> QED BY <1>1, <1>4, <2>2, <3>1, <3>2
  <2>5. hq.head[dst] = t[1] /\ hq.tail[dst] = t[j - i + 1] /\ j - i + 1 # 0
    BY <1>1, <1>2, <1>16
  <2>6. ASSUME NEW x \in 1 .. (j - i + 1)
        PROVE  /\ hq.prev[t[x]] = IF x = 1 THEN Nil ELSE t[x - 1]
               /\ hq.next[t[x]] = IF x = j - i + 1 THEN Nil ELSE t[x + 1]
    <3> DEFINE y == i + x - 1
    <3>1. /\ y \in i .. j /\ y \in 1 .. N /\ t[x] = s[y] /\ (x = 1 <=> y = i)
          /\ (x = j - i + 1 <=> y = j) /\ (y # i => y # 1 /\ t[x - 1] = s[y - 1])
          /\ (y # j => y # N /\ t[x + 1] = s[y + 1])
      BY <1>1, <1>2
    <3> HIDE DEF y, t
    <3>2. /\ s[y] \in Elem /\ s[y] # p /\ s[y] # n
          /\ (s[y] = s[i] <=> y = i) /\ (s[y] = s[j] <=> y = j)
      BY <1>1, <1>2, <1>5, <3>1
    <3>3. /\ y # i => hp.prev[s[y]] = s[y - 1]
          /\ y # j => hp.next[s[y]] = s[y + 1]
      BY <1>3, <3>1
    <3> QED BY <1>15, <3>1, <3>2, <3>3
  <2> HIDE DEF t
  <2> QED BY <2>1, <2>2, <2>3, <2>4, <2>5, <2>6 DEF ChainOf, Chain
<1>21. Keeps(hq, hp, {l, dst})
  <2> SUFFICES ASSUME NEW q \in List \ {l, dst}, NEW r, ChainOf(hp, q, r) PROVE ChainOf(hq, q, r)
    BY DEF Keeps
  <2>1. hq.head[q] = hp.head[q] /\ hq.tail[q] = hp.tail[q] /\ hq.len[q] = hp.len[q]
    BY <1>12, <1>16
  <2>2. \A x \in G : hq.owner[x] # q
    BY <1>4, <1>14
  <2> QED BY <1>18, <2>1, <2>2
<1>22. \A x \in G : hq.owner[x] # Nil
  BY <1>4, <1>14, NilAssumption
<1>23. Good(hq)
  <2>1. ASSUME NEW q \in List PROVE \E r : ChainOf(hq, q, r)
    BY <1>1, <1>18, <1>20, <1>21 DEF Good, Keeps
  <2> QED BY <1>18, <1>19, <1>22, <2>1 DEF Good
<1>24. hq.value = hp.value
  BY <1>6, <1>9, <1>11 DEF IsJoin
<1>25. CutOff(hq, hp, l, s, i, j, dst)
  BY <1>18, <1>20, <1>21, <1>24 DEF CutOff, Between
<1> QED BY <1>13, <1>23, <1>25

\* List l has, behind place k, what list src has lost.
Moved(hq, hp, l, s, k, src) ==
  /\ hq.value = hp.value
  /\ \A r : ChainOf(hp, src, r) => ChainOf(hq, l, Spliced(s, hp.len[l], k, k, r, hp.len[src]))
  /\ ChainOf(hq, src, NoElems)
  /\ Keeps(hq, hp, {l, src})

\* Splicing another list into a gap of a list leaves a good heap: the elements
\* of the source, and no others, change hands.
LEMMA SpliceGood ==
  ASSUME NEW hp, Good(hp), NEW l \in List, NEW src \in List, src # l,
         NEW s, NEW k, NEW p, NEW n, Gap(hp, l, s, k, p, n),
         NEW hq, hq = Splice(hp, l, p, n, src)
  PROVE  /\ Good(hq)
         /\ \A x \in Elem : hq.owner[x] = IF hp.owner[x] = src THEN l ELSE hp.owner[x]
         /\ Moved(hq, hp, l, s, k, src)
<1>1. hp \in Heap /\ ChainOf(hp, l, s) /\ hp.len[src] \in Nat
  BY DEF Good, Gap, Heap
<1>2. CASE hp.len[src] = 0
  <2>1. hq = hp
    BY <1>2 DEF Splice
  <2>2. /\ hp.head[src] = Nil /\ hp.tail[src] = Nil
        /\ \A x \in Elem : hp.owner[x] # src
    BY <1>2, EmptyOwnsNothing
  <2>3. ChainOf(hq, src, NoElems)
    BY <1>2, <2>1, <2>2, EmptyChain
  <2>4. \A r : Spliced(s, hp.len[l], k, k, r, 0) = s
    <3>1. s \in [1 .. hp.len[l] -> Elem] /\ hp.len[l] \in Nat /\ k \in 0 .. hp.len[l]
      BY <1>1 DEF ChainOf, Gap, Heap
    <3> QED BY <3>1 DEF Spliced
  <2>5. Keeps(hq, hp, {l, src})
    BY <2>1 DEF Keeps
  <2>6. ASSUME NEW r PROVE ChainOf(hq, l, Spliced(s, hp.len[l], k, k, r, hp.len[src]))
    BY <1>1, <1>2, <2>1, <2>4
  <2>7. Moved(hq, hp, l, s, k, src)
    BY <2>1, <2>3, <2>5, <2>6 DEF Moved
  <2> QED BY <2>1, <2>2, <2>7
<1>3. CASE hp.len[src] # 0
  <2> DEFINE N == hp.len[l]
             M == hp.len[src]
             a == hp.head[src]
             b == hp.tail[src]
             hj == Join(hp, l, p, n, a, b)
             joined == [hj EXCEPT !.prev[a] = p, !.next[b] = n]
             G == {x \in Elem : hp.owner[x] = src}
  <2>1. PICK r : ChainOf(hp, src, r)
    BY DEF Good
  <2>2. /\ N \in Nat /\ k \in 0 .. N
        /\ \A x \in 1 .. N : s[x] \in Elem /\ hp.owner[s[x]] = l
        /\ \A x \in Elem : hp.owner[x] = l => \E y \in 1 .. N : x = s[y]
        /\ \A x, y \in 1 .. N : s[x] = s[y] => x = y
    BY <1>1, ChainOwner DEF Gap
  <2>3. /\ M \in Nat /\ M >= 1
        /\ \A x \in 1 .. M : r[x] \in Elem /\ hp.owner[r[x]] = src
        /\ \A x \in Elem : hp.owner[x] = src => \E y \in 1 .. M : x = r[y]
        /\ \A x, y \in 1 .. M : r[x] = r[y] => x = y
    BY <1>1, <1>3, <2>1, ChainOwner
  <2>4. /\ a = r[1] /\ b = r[M]
        /\ \A x \in 1 .. M : /\ hp.prev[r[x]] = IF x = 1 THEN Nil ELSE r[x - 1]
                             /\ hp.next[r[x]] = IF x = M THEN Nil ELSE r[x + 1]
        /\ r \in [1 .. M -> Elem]
    BY <1>3, <2>1 DEF ChainOf, Chain
  <2>5. /\ p = IF k = 0 THEN Nil ELSE s[k]
        /\ n = IF k = N THEN Nil ELSE s[k + 1]
    BY DEF Gap
  <2>6. /\ p \in Ptr /\ n \in Ptr /\ (p = Nil <=> k = 0) /\ (n = Nil <=> k = N)
        /\ \A x \in Elem : x = p \/ x = n => hp.owner[x] = l
    BY <2>2, <2>5, NilAssumption DEF Ptr
  <2>7. a \in Elem /\ b \in Elem /\ a \in Ptr /\ b \in Ptr
    BY <2>3, <2>4 DEF Ptr
  <2>8. \A x \in 1 .. M : r[x] # p /\ r[x] # n /\ r[x] \in G
    BY <2>3, <2>6
  <2>9. /\ \A x \in 1 .. k : (s[x] = p <=> x = k) /\ s[x] # n
        /\ \A x \in k + 1 .. N : (s[x] = n <=> x = k + 1) /\ s[x] # p
        /\ \A x \in 1 .. N : s[x] # a /\ s[x] # b /\ s[x] \notin G
    BY <2>2, <2>3, <2>4, <2>5, <2>6, NilAssumption
  <2>10. IsJoin(hj, hp, l, p, n, a, b)
    BY <1>1, <2>7, JoinFields
  <2>11. hq = [joined EXCEPT !.owner = Owned(joined, Visited(joined.next, a, n), l),
                             !.len[l] = @ + hp.len[src], !.len[src] = 0,
                             !.head[src] = Nil, !.tail[src] = Nil]
    BY <1>3 DEF Splice
  <2> HIDE DEF hj, N, M, a, b, G
  <2>12. /\ hj.prev \in [Elem -> Ptr] /\ hj.next \in [Elem -> Ptr]
         /\ hj.owner \in [Elem -> List \union {Nil}] /\ hj.value \in [Elem -> Value]
         /\ hj.head \in [List -> Ptr] /\ hj.tail \in [List -> Ptr] /\ hj.len \in [List -> Nat]
         /\ hj \in Heap
    BY <2>10 DEF IsJoin, Heap
  <2>13. /\ joined \in Heap
         /\ joined.prev = [hj.prev EXCEPT ![a] = p] /\ joined.next = [hj.next EXCEPT ![b] = n]
         /\ joined.owner = hj.owner /\ joined.len = hj.len /\ joined.value = hj.value
         /\ joined.head = hj.head /\ joined.tail = hj.tail
    BY <2>6, <2>7, <2>12 DEF Heap
  <2> HIDE DEF joined
  <2>14. \A x \in Elem :
           /\ joined.next[x] = IF x = b THEN n ELSE IF x = p THEN a ELSE hp.next[x]
           /\ joined.prev[x] = IF x = a THEN p ELSE IF x = n THEN b ELSE hp.prev[x]
    BY <2>10, <2>12, <2>13 DEF IsJoin
  <2>15. Visited(joined.next, a, n) = G
    <3>1. \A x \in 1 .. M : x < M => joined.next[r[x]] = r[x + 1]
      <4> TAKE x \in 1 .. M
      <4> HAVE x < M
      <4>1. r[x] \in Elem /\ r[x] # b /\ r[x] # p /\ hp.next[r[x]] = r[x + 1]
        BY <2>3, <2>4, <2>8
      <4> QED BY <2>14, <4>1
    <3>2. joined.next[r[M]] = n
      BY <2>4, <2>7, <2>14
    <3>3. Walks(joined.next, r, 1, M, n)
      BY <2>3, <2>8, <3>1, <3>2 DEF Walks
    <3>4. Run(r, 1, M) = G
      BY <2>3 DEF Run, G
    <3>5. Visited(joined.next, r[1], n) = Run(r, 1, M)
      BY <3>3, VisitedRun
    <3> QED BY <2>4, <3>4, <3>5
  <2>16. /\ hq = [joined EXCEPT !.owner = Owned(joined, G, l),
                                !.len[l] = @ + M, !.len[src] = 0,
                                !.head[src] = Nil, !.tail[src] = Nil]
    BY <2>11, <2>15 DEF M
  <2>17. /\ joined.owner \in [Elem -> List \union {Nil}] /\ joined.len \in [List -> Nat]
         /\ joined.head \in [List -> Ptr] /\ joined.tail \in [List -> Ptr]
         /\ Nil \in Ptr
    BY <2>12, <2>13 DEF Ptr
  <2>18. /\ hq.prev = joined.prev /\ hq.next = joined.next /\ hq.owner = Owned(joined, G, l)
    BY <2>13, <2>16 DEF Heap
  <2>19. /\ hq.head = [joined.head EXCEPT ![src] = Nil]
         /\ hq.tail = [joined.tail EXCEPT ![src] = Nil]
    BY <2>13, <2>16 DEF Heap
  <2>20. hq.len = [joined.len EXCEPT ![l] = @ + M, ![src] = 0]
    BY <2>13, <2>16 DEF Heap
  <2>21. hq \in Heap
    <3>1. Owned(joined, G, l) \in [Elem -> List \union {Nil}]
      BY <2>17 DEF Owned
    <3>2. hq.len \in [List -> Nat]
      BY <2>3, <2>17, <2>20
    <3>3. hq.head \in [List -> Ptr] /\ hq.tail \in [List -> Ptr]
      BY <2>17, <2>19
    <3>4. hq = [joined EXCEPT !.owner = hq.owner, !.len = hq.len, !.head = hq.head,
                              !.tail = hq.tail]
      BY <2>13, <2>16 DEF Heap
    <3> QED BY <2>13, <2>18, <3>1, <3>2, <3>3, <3>4 DEF Heap
  <2>22. \A x \in Elem : hq.owner[x] = IF hp.owner[x] = src THEN l ELSE hp.owner[x]
    BY <2>10, <2>13, <2>18 DEF Owned, G, IsJoin
  <2>23. \A q \in List :
           /\ hq.len[q] = IF q = src THEN 0 ELSE IF q = l THEN N + M ELSE hp.len[q]
           /\ hq.head[q] = IF q = src THEN Nil ELSE IF q = l /\ p = Nil THEN a ELSE hp.head[q]
           /\ hq.tail[q] = IF q = src THEN Nil ELSE IF q = l /\ n = Nil THEN b ELSE hp.tail[q]
    BY <2>10, <2>13, <2>17, <2>19, <2>20 DEF IsJoin, N
  <2>24. Rejoins(hq, hp, l, s, k, k, r, M)
    <3>1. /\ hq.len[l] = N + M
          /\ hq.head[l] = IF k = 0 THEN a ELSE hp.head[l]
          /\ hq.tail[l] = IF k = N THEN b ELSE hp.tail[l]
      BY <2>6, <2>23
    <3>2. \A x \in 1 .. k : /\ hq.next[s[x]] = IF x = k THEN a ELSE hp.next[s[x]]
                            /\ hq.prev[s[x]] = hp.prev[s[x]]
      BY <2>2, <2>9, <2>14, <2>18
    <3>3. \A x \in k + 1 .. N : /\ hq.prev[s[x]] = IF x = k + 1 THEN b ELSE hp.prev[s[x]]
                                /\ hq.next[s[x]] = hp.next[s[x]]
      BY <2>2, <2>9, <2>14, <2>18
    <3>4. ASSUME NEW x \in 1 .. M
          PROVE  /\ hq.next[r[x]] = IF x = M THEN n ELSE r[x + 1]
                 /\ hq.prev[r[x]] = IF x = 1 THEN p ELSE r[x - 1]
      <4>1. r[x] \in Elem /\ r[x] # p /\ r[x] # n /\ (r[x] = b <=> x = M) /\ (r[x] = a <=> x = 1)
        BY <2>3, <2>4, <2>8
      <4> QED BY <2>4, <2>14, <2>18, <4>1
    <3>5. \A x \in Elem : hq.owner[x] = l <=> \/ \E y \in 1 .. k : x = s[y]
                                              \/ \E y \in 1 .. M : x = r[y]
                                              \/ \E y \in k + 1 .. N : x = s[y]
      <4>1. ASSUME NEW x \in Elem, hq.owner[x] = l
            PROVE  \/ \E y \in 1 .. k : x = s[y]
                   \/ \E y \in 1 .. M : x = r[y]
                   \/ \E y \in k + 1 .. N : x = s[y]
        <5>1. CASE hp.owner[x] = src
          BY <2>3, <5>1
        <5>2. CASE hp.owner[x] = l
          <6>1. PICK y \in 1 .. N : x = s[y]
            BY <2>2, <5>2
          <6>2. y \in 1 .. k \/ y \in k + 1 .. N
            BY <2>2
          <6> QED BY <6>1, <6>2
        <5> QED BY <2>22, <4>1, <5>1, <5>2
      <4>2. /\ \A y \in 1 .. k : hq.owner[s[y]] = l
            /\ \A y \in k + 1 .. N : hq.owner[s[y]] = l
            /\ \A y \in 1 .. M : hq.owner[r[y]] = l
        BY <2>2, <2>3, <2>22
      <4> QED BY <4>1, <4>2
    <3>6. hq.len[l] = N - (k - k) + M
      BY <2>2, <2>3, <3>1
    <3>7. /\ a = IF M = 0 THEN n ELSE r[1]
          /\ b = IF M = 0 THEN p ELSE r[M]
      BY <2>3, <2>4
    <3>8. N = hp.len[l]
      BY DEF N
    <3>9. Seamed(hq, hp, l, s, k, k, r, M, p, n, a, b)
      BY <2>5, <3>1, <3>2, <3>3, <3>4, <3>5, <3>6, <3>7, <3>8 DEF Seamed
    <3> QED BY <3>9, SeamedRejoins
  <2>25. ChainOf(hq, l, Spliced(s, N, k, k, r, M))
    <3>1. k \in Nat /\ k <= k /\ k <= N
      BY <2>2
    <3>2. \A x \in 1 .. M, y \in 1 .. N : r[x] # s[y]
      BY <2>2, <2>3
    <3> QED BY <1>1, <2>3, <2>4, <2>24, <3>1, <3>2, RejoinChain DEF N
  <2>26. ChainOf(hq, src, NoElems)
    <3>1. /\ hq.len[src] = 0 /\ hq.head[src] = Nil /\ hq.tail[src] = Nil
      BY <2>23
    <3>2. \A x \in Elem : hq.owner[x] # src
      BY <2>22
    <3> QED BY <3>1, <3>2, EmptyChain
  <2>27. ASSUME NEW q \in List, q # l, q # src, NEW t, ChainOf(hp, q, t) PROVE ChainOf(hq, q, t)
    <3>2. hq.head[q] = hp.head[q] /\ hq.tail[q] = hp.tail[q] /\ hq.len[q] = hp.len[q]
      BY <2>23, <2>27
    <3>3. \A x \in Elem : hq.owner[x] = q <=> hp.owner[x] = q
      BY <2>22, <2>27
    <3>4. \A x \in Elem : hp.owner[x] = q => x # p /\ x # n /\ x # a /\ x # b
      BY <2>3, <2>4, <2>6, <2>27
    <3>5. \A x \in Elem : hp.owner[x] = q => hq.prev[x] = hp.prev[x] /\ hq.next[x] = hp.next[x]
      BY <2>14, <2>18, <3>4
    <3> QED BY <2>27, <3>2, <3>3, <3>5, SameChain
  <2>28. ASSUME NEW x \in Elem, hq.owner[x] = Nil PROVE hq.prev[x] = Nil /\ hq.next[x] = Nil
    <3>1. hp.owner[x] = Nil
      BY <2>22, <2>28, NilAssumption
    <3>2. hp.prev[x] = Nil /\ hp.next[x] = Nil
      BY <3>1 DEF Good
    <3>3. x # p /\ x # n /\ x # a /\ x # b
      BY <2>3, <2>4, <2>6, <3>1, NilAssumption
    <3> QED BY <2>14, <2>18, <3>2, <3>3
  <2>29. Good(hq)
    <3>1. ASSUME NEW q \in List PROVE \E t : ChainOf(hq, q, t)
      BY <2>25, <2>26, <2>27 DEF Good
    <3> QED BY <2>21, <2>28, <3>1 DEF Good
  <2>30. Keeps(hq, hp, {l, src})
    BY <2>27 DEF Keeps
  <2>31. hq.value = hp.value
    <3>1. hq.value = joined.value
      BY <2>13, <2>16 DEF Heap
    <3> QED BY <2>10, <2>13, <3>1 DEF IsJoin
  <2>32. \A z : ChainOf(hp, src, z) => z = r
    BY <1>1, <2>1, ElemsChain
  <2>33. Moved(hq, hp, l, s, k, src)
    BY <2>25, <2>26, <2>30, <2>31, <2>32 DEF Moved, N, M
  <2> QED BY <2>22, <2>29, <2>33
<1> QED BY <1>2, <1>3

\* r lists S in the order of the pointers, which lead out of S at both ends.
Sequenced(hp, S, r, M) ==
  /\ M \in Nat /\ M >= 1 /\ r \in [1 .. M -> Elem]
  /\ \A x, y \in 1 .. M : r[x] = r[y] => x = y
  /\ S = Run(r, 1, M)
  /\ \A x \in 1 .. M : x < M => hp.next[r[x]] = r[x + 1]
  /\ \A x \in 1 .. M : x > 1 => hp.prev[r[x]] = r[x - 1]
  /\ hp.prev[r[1]] \notin S /\ hp.next[r[M]] \notin S

\* List dst has the copies of r[1], ..., r[M], with their values.
Copied(hq, hp, r, M, dst, copy) ==
  /\ \A x \in Elem \ Range(copy) : hq.value[x] = hp.value[x]
  /\ \A x \in 1 .. M : hq.value[copy[r[x]]] = hp.value[r[x]]
  /\ ChainOf(hq, dst, [x \in 1 .. M |-> copy[r[x]]])
  /\ Keeps(hq, hp, {dst})

\* Copying such a set into an empty list leaves a good heap: only the copies
\* change hands.
LEMMA CopyGood ==
  ASSUME NEW hp, Good(hp), NEW dst \in List, hp.len[dst] = 0,
         NEW S, NEW r, NEW M, Sequenced(hp, S, r, M),
         NEW copy \in Injection(S, Elem), \A x \in S : hp.owner[copy[x]] = Nil,
         NEW hq, hq = CopyInto(hp, S, r[1], r[M], dst, copy)
  PROVE  /\ Good(hq)
         /\ hq.owner = Owned(hp, Range(copy), dst)
         /\ Copied(hq, hp, r, M, dst, copy)
<1> DEFINE new == Range(copy)
           orig == Inverse(copy, S, new)
           At(e) == IF e \in S THEN copy[e] ELSE Nil
           t == [x \in 1 .. M |-> copy[r[x]]]
<1>1. /\ M \in Nat /\ M >= 1 /\ r \in [1 .. M -> Elem]
      /\ \A x, y \in 1 .. M : r[x] = r[y] => x = y
      /\ S = {r[x] : x \in 1 .. M}
      /\ \A x \in 1 .. M : x < M => hp.next[r[x]] = r[x + 1]
      /\ \A x \in 1 .. M : x > 1 => hp.prev[r[x]] = r[x - 1]
      /\ hp.prev[r[1]] \notin S /\ hp.next[r[M]] \notin S
  BY DEF Sequenced, Run
<1>2. /\ copy \in [S -> Elem]
      /\ \A x, y \in S : copy[x] = copy[y] => x = y
      /\ new = {copy[x] : x \in S} /\ new \in SUBSET Elem
  BY DEF Injection, IsInjective, Range
<1>3. S \in SUBSET Elem /\ S # {} /\ \A x \in 1 .. M : r[x] \in S
  <2>1. \A x \in 1 .. M : r[x] \in S /\ r[x] \in Elem
    BY <1>1
  <2>2. 1 \in 1 .. M
    BY <1>1
  <2> QED BY <1>1, <2>1, <2>2
<1>4. \A x \in S : copy[x] \in new /\ orig[copy[x]] = x
  <2> TAKE x \in S
  <2>1. copy[x] \in new /\ copy[x] \in Range(copy)
    BY <1>2
  <2>2. orig[copy[x]] = CHOOSE y \in S : copy[x] \in Range(copy) => copy[y] = copy[x]
    BY <2>1 DEF Inverse
  <2>3. \E y \in S : copy[x] \in Range(copy) => copy[y] = copy[x]
    OBVIOUS
  <2>4. orig[copy[x]] \in S /\ copy[orig[copy[x]]] = copy[x]
    BY <2>1, <2>2, <2>3
  <2> QED BY <1>2, <2>1, <2>4
<1>5. hq = [hp EXCEPT
              !.prev = [e \in Elem |-> IF e \in new THEN At(hp.prev[orig[e]]) ELSE @[e]],
              !.next = [e \in Elem |-> IF e \in new THEN At(hp.next[orig[e]]) ELSE @[e]],
              !.value = [e \in Elem |-> IF e \in new THEN @[orig[e]] ELSE @[e]],
              !.owner = Owned(hp, new, dst),
              !.head[dst] = copy[r[1]], !.tail[dst] = copy[r[M]],
              !.len[dst] = Cardinality(new)]
  BY <1>3 DEF CopyInto
<1>6. /\ hp.prev \in [Elem -> Ptr] /\ hp.next \in [Elem -> Ptr]
      /\ hp.owner \in [Elem -> List \union {Nil}] /\ hp.value \in [Elem -> Value]
      /\ hp.head \in [List -> Ptr] /\ hp.tail \in [List -> Ptr] /\ hp.len \in [List -> Nat]
      /\ hp \in Heap
  BY DEF Good, Heap
<1>7. ASSUME NEW e \in new PROVE orig[e] \in S /\ copy[orig[e]] = e
  BY <1>2, <1>4
<1>8. Cardinality(new) = M
  <2>1. \A x, y \in 1 .. M : t[x] = t[y] => x = y
    BY <1>1, <1>2, <1>3
  <2>2. {t[x] : x \in 1 .. M} = new
    BY <1>1, <1>2, <1>3
  <2>3. 1 \in Nat /\ 1 <= M /\ M - 1 + 1 = M
    BY <1>1
  <2> HIDE DEF t, new
  <2>4. Distinct(t, 1, M)
    BY <2>1 DEF Distinct
  <2>5. Cardinality(Run(t, 1, M)) = M - 1 + 1
    BY <1>1, <2>3, <2>4, RunCount
  <2>6. Run(t, 1, M) = new
    BY <2>2 DEF Run
  <2> QED BY <2>3, <2>5, <2>6
<1>9. \A x \in new : hp.owner[x] = Nil /\ x \in Elem
  BY <1>2
<1> HIDE DEF new, orig
<1>10. /\ hq.owner = Owned(hp, new, dst)
       /\ \A e \in Elem :
            /\ hq.prev[e] = IF e \in new THEN At(hp.prev[orig[e]]) ELSE hp.prev[e]
            /\ hq.next[e] = IF e \in new THEN At(hp.next[orig[e]]) ELSE hp.next[e]
            /\ hq.value[e] = IF e \in new THEN hp.value[orig[e]] ELSE hp.value[e]
  <2>1. /\ hq.prev = [e \in Elem |-> IF e \in new THEN At(hp.prev[orig[e]]) ELSE hp.prev[e]]
        /\ hq.next = [e \in Elem |-> IF e \in new THEN At(hp.next[orig[e]]) ELSE hp.next[e]]
        /\ hq.value = [e \in Elem |-> IF e \in new THEN hp.value[orig[e]] ELSE hp.value[e]]
        /\ hq.owner = Owned(hp, new, dst)
    BY <1>5, <1>6 DEF Heap
  <2> QED BY <2>1
<1>11. /\ hq.head = [hp.head EXCEPT ![dst] = copy[r[1]]]
       /\ hq.tail = [hp.tail EXCEPT ![dst] = copy[r[M]]]
       /\ hq.len = [hp.len EXCEPT ![dst] = M]
  BY <1>5, <1>6, <1>8 DEF Heap
<1>12. \A e : At(e) \in Ptr
  BY <1>2 DEF Ptr
<1>13. hq \in Heap
  <2> DEFINE prevs == [e \in Elem |-> IF e \in new THEN At(hp.prev[orig[e]]) ELSE hp.prev[e]]
             nexts == [e \in Elem |-> IF e \in new THEN At(hp.next[orig[e]]) ELSE hp.next[e]]
             values == [e \in Elem |-> IF e \in new THEN hp.value[orig[e]] ELSE hp.value[e]]
             heads == [hp.head EXCEPT ![dst] = copy[r[1]]]
             tails == [hp.tail EXCEPT ![dst] = copy[r[M]]]
             owners == Owned(hp, new, dst)
  <2>1. prevs \in [Elem -> Ptr]
    BY <1>6, <1>12
  <2>2. nexts \in [Elem -> Ptr]
    BY <1>6, <1>12
  <2>3. values \in [Elem -> Value]
    BY <1>3, <1>6, <1>7
  <2>4. owners \in [Elem -> List \union {Nil}]
    BY <1>6 DEF Owned
  <2>5. copy[r[1]] \in Ptr /\ copy[r[M]] \in Ptr
    BY <1>1, <1>2, <1>3 DEF Ptr
  <2>6. heads \in [List -> Ptr] /\ tails \in [List -> Ptr]
    BY <1>6, <2>5
  <2>7. [hp.len EXCEPT ![dst] = M] \in [List -> Nat]
    BY <1>1, <1>6
  <2>8. hq = [hp EXCEPT !.prev = prevs, !.next = nexts, !.value = values, !.owner = owners,
                        !.head = heads, !.tail = tails, !.len = [hp.len EXCEPT ![dst] = M]]
    BY <1>5, <1>8
  <2> HIDE DEF prevs, nexts, values, heads, tails, owners
  <2>9. hq = [prev |-> prevs, next |-> nexts, value |-> values, owner |-> owners,
              head |-> heads, tail |-> tails, len |-> [hp.len EXCEPT ![dst] = M]]
    BY <1>6, <2>8 DEF Heap
  <2> QED BY <2>1, <2>2, <2>3, <2>4, <2>6, <2>7, <2>9 DEF Heap
<1>14. \A x \in Elem : hq.owner[x] = IF x \in new THEN dst ELSE hp.owner[x]
  BY <1>10 DEF Owned
<1>15. ChainOf(hq, dst, t)
  <2>1. hq.len[dst] = M /\ hq.head[dst] = t[1] /\ hq.tail[dst] = t[M]
    BY <1>1, <1>6, <1>11
  <2>2. t \in [1 .. M -> Elem] /\ \A x \in 1 .. M : t[x] \in new
    BY <1>1, <1>2, <1>3, <1>4
  <2>3. \A x, y \in 1 .. M : t[x] = t[y] => x = y
    BY <1>1, <1>2, <1>3
  <2>4. {x \in Elem : hq.owner[x] = dst} = {t[x] : x \in 1 .. M}
    <3>1. \A x \in Elem : hq.owner[x] = dst <=> x \in new
      BY <1>14, EmptyOwnsNothing
    <3>2. \A e \in new : \E x \in 1 .. M : e = t[x]
      BY <1>1, <1>7
    <3> QED BY <2>2, <3>1, <3>2
  <2>5. ASSUME NEW x \in 1 .. M
        PROVE  /\ hq.prev[t[x]] = IF x = 1 THEN Nil ELSE t[x - 1]
               /\ hq.next[t[x]] = IF x = M THEN Nil ELSE t[x + 1]
    <3>1. t[x] \in new /\ t[x] \in Elem /\ orig[t[x]] = r[x]
      BY <1>1, <1>3, <1>4, <2>2
    <3>2. hq.prev[t[x]] = At(hp.prev[r[x]]) /\ hq.next[t[x]] = At(hp.next[r[x]])
      BY <1>10, <3>1
    <3>3. At(hp.prev[r[x]]) = IF x = 1 THEN Nil ELSE t[x - 1]
      <4>1. CASE x = 1
        BY <1>1, <4>1
      <4>2. CASE x # 1
        <5>1. x - 1 \in 1 .. M /\ x > 1
          BY <1>1, <4>2
        <5> QED BY <1>1, <1>3, <4>2, <5>1
      <4> QED BY <4>1, <4>2
    <3>4. At(hp.next[r[x]]) = IF x = M THEN Nil ELSE t[x + 1]
      <4>1. CASE x = M
        BY <1>1, <4>1
      <4>2. CASE x # M
        <5>1. x + 1 \in 1 .. M /\ x < M
          BY <1>1, <4>2
        <5> QED BY <1>1, <1>3, <4>2, <5>1
      <4> QED BY <4>1, <4>2
    <3> QED BY <3>2, <3>3, <3>4
  <2>6. M # 0
    BY <1>1
  <2> HIDE DEF t
  <2> QED BY <2>1, <2>2, <2>3, <2>4, <2>5, <2>6 DEF ChainOf, Chain
<1>16. ASSUME NEW q \in List, q # dst, NEW z, ChainOf(hp, q, z) PROVE ChainOf(hq, q, z)
  <2>2. hq.head[q] = hp.head[q] /\ hq.tail[q] = hp.tail[q] /\ hq.len[q] = hp.len[q]
    BY <1>6, <1>11, <1>16
  <2>3. \A x \in Elem : hp.owner[x] = q => x \notin new
    BY <1>9, NilAssumption
  <2>4. \A x \in Elem : hq.owner[x] = q <=> hp.owner[x] = q
    BY <1>14, <1>16, <2>3
  <2>5. \A x \in Elem : hp.owner[x] = q => hq.prev[x] = hp.prev[x] /\ hq.next[x] = hp.next[x]
    BY <1>10, <2>3
  <2> QED BY <1>16, <2>2, <2>4, <2>5, SameChain
<1>17. ASSUME NEW x \in Elem, hq.owner[x] = Nil PROVE hq.prev[x] = Nil /\ hq.next[x] = Nil
  <2>1. x \notin new /\ hp.owner[x] = Nil
    BY <1>14, <1>17, NilAssumption
  <2> QED BY <1>10, <2>1 DEF Good
<1>18. Good(hq)
  <2>1. ASSUME NEW q \in List PROVE \E z : ChainOf(hq, q, z)
    BY <1>15, <1>16 DEF Good
  <2> QED BY <1>13, <1>17, <2>1 DEF Good
<1>19. Keeps(hq, hp, {dst})
  BY <1>16 DEF Keeps
<1>20. /\ \A x \in Elem \ new : hq.value[x] = hp.value[x]
       /\ \A x \in S : hq.value[copy[x]] = hp.value[x]
  BY <1>4, <1>9, <1>10
<1>21. Copied(hq, hp, r, M, dst, copy)
  BY <1>3, <1>15, <1>19, <1>20 DEF Copied, new
<1> QED BY <1>10, <1>18, <1>21 DEF new

-----------------------------------------------------------------------------
(***************************************************************************)
(* Gaps and runs of the handles the operations are given.                  *)
(***************************************************************************)
LEMMA GapFront ==
  ASSUME NEW hp, Good(hp), NEW l \in List
  PROVE  \E s, k : Gap(hp, l, s, k, Nil, hp.head[l])
<1>1. PICK s : ChainOf(hp, l, s)
  BY DEF Good
<1>2. hp.len[l] \in Nat
  BY DEF Good, Heap
<1>3. hp.head[l] = IF 0 = hp.len[l] THEN Nil ELSE s[0 + 1]
  BY <1>1, <1>2 DEF ChainOf, Chain
<1>4. Gap(hp, l, s, 0, Nil, hp.head[l])
  BY <1>1, <1>2, <1>3 DEF Gap
<1> QED BY <1>4

LEMMA GapBack ==
  ASSUME NEW hp, Good(hp), NEW l \in List
  PROVE  \E s, k : Gap(hp, l, s, k, hp.tail[l], Nil)
<1>1. PICK s : ChainOf(hp, l, s)
  BY DEF Good
<1>2. hp.len[l] \in Nat
  BY DEF Good, Heap
<1>3. hp.tail[l] = IF hp.len[l] = 0 THEN Nil ELSE s[hp.len[l]]
  BY <1>1 DEF ChainOf, Chain
<1>4. Gap(hp, l, s, hp.len[l], hp.tail[l], Nil)
  BY <1>1, <1>2, <1>3 DEF Gap
<1> QED BY <1>4

LEMMA GapBefore ==
  ASSUME NEW hp, Good(hp), NEW l \in List, NEW e \in Elem, hp.owner[e] = l
  PROVE  \E s, k : Gap(hp, l, s, k, hp.prev[e], e)
<1>1. PICK s : ChainOf(hp, l, s)
  BY DEF Good
<1>2. hp \in Heap /\ hp.len[l] \in Nat
  BY DEF Good, Heap
<1>3. PICK i \in 1 .. hp.len[l] : s[i] = e
  BY <1>1, <1>2, ChainOwner
<1>4. hp.prev[e] = IF i = 1 THEN Nil ELSE s[i - 1]
  BY <1>1, <1>3 DEF ChainOf, Chain
<1>5. Gap(hp, l, s, i - 1, hp.prev[e], e)
  BY <1>1, <1>2, <1>3, <1>4 DEF Gap
<1> QED BY <1>5

LEMMA GapAfter ==
  ASSUME NEW hp, Good(hp), NEW l \in List, NEW e \in Elem, hp.owner[e] = l
  PROVE  \E s, k : Gap(hp, l, s, k, e, hp.next[e])
<1>1. PICK s : ChainOf(hp, l, s)
  BY DEF Good
<1>2. hp \in Heap /\ hp.len[l] \in Nat
  BY DEF Good, Heap
<1>3. PICK i \in 1 .. hp.len[l] : s[i] = e
  BY <1>1, <1>2, ChainOwner
<1>4. hp.next[e] = IF i = hp.len[l] THEN Nil ELSE s[i + 1]
  BY <1>1, <1>3 DEF ChainOf, Chain
<1>5. Gap(hp, l, s, i, e, hp.next[e])
  BY <1>1, <1>2, <1>3, <1>4 DEF Gap
<1> QED BY <1>5

\* The gap a detached run leaves.
LEMMA GapDetached ==
  ASSUME NEW hp, NEW l, NEW s, NEW i, NEW j, NEW G, RunOf(hp, l, s, i, j, G),
         NEW hq, hq \in Heap, NEW t, t = Spliced(s, hp.len[l], i - 1, j, NoElems, 0),
         ChainOf(hq, l, t), hq.len[l] = hp.len[l] - (j - i + 1)
  PROVE  Gap(hq, l, t, i - 1, hp.prev[s[i]], hp.next[s[j]])
<1> DEFINE N == hp.len[l]
<1>1. hp \in Heap /\ l \in List /\ ChainOf(hp, l, s) /\ i \in 1 .. N /\ j \in i .. N
  BY DEF RunOf, Good
<1>2. N \in Nat
  BY <1>1, ChainOwner
<1>3. /\ hp.prev[s[i]] = IF i = 1 THEN Nil ELSE s[i - 1]
      /\ hp.next[s[j]] = IF j = N THEN Nil ELSE s[j + 1]
  BY RunFacts
<1> HIDE DEF N
<1>4. t = [x \in 1 .. N - (j - (i - 1)) + 0 |->
             IF x <= i - 1 THEN s[x] ELSE IF x <= (i - 1) + 0 THEN NoElems[x - (i - 1)]
             ELSE s[x - 0 + (j - (i - 1))]]
  BY DEF Spliced, N
<1>5. i # 1 => t[i - 1] = s[i - 1]
  <2> HAVE i # 1
  <2>1. i - 1 \in 1 .. N - (j - (i - 1)) + 0 /\ i - 1 <= i - 1
    BY <1>1, <1>2 DEF N
  <2> QED BY <1>4, <2>1
<1>6. j # N => t[i] = s[j + 1]
  <2> HAVE j # N
  <2>1. i \in 1 .. N - (j - (i - 1)) + 0 /\ ~(i <= i - 1) /\ ~(i <= (i - 1) + 0)
        /\ i - 0 + (j - (i - 1)) = j + 1
    BY <1>1, <1>2 DEF N
  <2> QED BY <1>4, <2>1
<1>7. (i - 1 = 0 <=> i = 1) /\ (i - 1 = hq.len[l] <=> j = N) /\ i - 1 \in 0 .. hq.len[l]
      /\ (i - 1) + 1 = i
  BY <1>1, <1>2 DEF N
<1> QED BY <1>3, <1>5, <1>6, <1>7 DEF Gap

\* A range that passes checkRange is a run of the list.
LEMMA RangeIsRun ==
  ASSUME Good(h), NEW l \in List, NEW first \in Ptr, NEW last \in Ptr, InOrder(l, first, last)
  PROVE  \E s, i, j, G : /\ RunOf(h, l, s, i, j, G) /\ s[i] = first /\ s[j] = last
                         /\ Visited(h.next, first, h.next[last]) = G
<1> DEFINE N == h.len[l]
<1>1. PICK s : ChainOf(h, l, s)
  BY DEF Good
<1>2. h \in Heap /\ first \in Elem /\ last \in Elem /\ h.owner[first] = l /\ h.owner[last] = l
  BY DEF Good, InOrder, Owns, Ptr
<1>3. /\ N \in Nat
      /\ \A x \in 1 .. N : s[x] \in Elem
      /\ \A x, y \in 1 .. N : s[x] = s[y] => x = y
  BY <1>1, <1>2, ChainOwner
<1>4. PICK i \in 1 .. N : s[i] = first
  BY <1>1, <1>2, ChainOwner
<1>5. Walks(h.next, s, i, N, Nil)
  <2>1. \A x \in 1 .. N : h.next[s[x]] = IF x = N THEN Nil ELSE s[x + 1]
    BY <1>1 DEF ChainOf, Chain
  <2> QED BY <1>3, <2>1, NilAssumption DEF Walks
<1>6. Visited(h.next, first, Nil) = Run(s, i, N)
  BY <1>4, <1>5, VisitedRun
<1>7. PICK j \in i .. N : s[j] = last
  BY <1>6 DEF InOrder, Run
<1>8. RunOf(h, l, s, i, j, Run(s, i, j))
  BY <1>1, <1>3, <1>4, <1>7 DEF RunOf, Run
<1>9. Visited(h.next, s[i], h.next[s[j]]) = Run(s, i, j)
  BY <1>8, RunVisited
<1> QED BY <1>4, <1>7, <1>8, <1>9

\* A range of an element without a list that passes checkRange is that element.
LEMMA LooseRange ==
  ASSUME Good(h), NEW first \in Elem, NEW last \in Ptr, h.owner[first] = Nil,
         InOrder(Nil, first, last)
  PROVE  /\ last = first /\ h.prev[first] = Nil /\ h.next[first] = Nil
         /\ Visited(h.next, first, h.next[last]) = {first}
<1>1. h.prev[first] = Nil /\ h.next[first] = Nil
  BY DEF Good
<1>2. Visited(h.next, first, Nil) = {first}
  <2> DEFINE s == [x \in 1 .. 1 |-> first]
  <2>1. Walks(h.next, s, 1, 1, Nil)
    BY <1>1, NilAssumption DEF Walks
  <2>2. s[1] = first /\ Run(s, 1, 1) = {first}
    BY DEF Run
  <2> HIDE DEF s
  <2>3. Visited(h.next, s[1], Nil) = Run(s, 1, 1)
    BY <2>1, VisitedRun
  <2> QED BY <2>2, <2>3
<1> QED BY <1>1, <1>2 DEF InOrder

-----------------------------------------------------------------------------
(***************************************************************************)
(* The inductive invariant, and one lemma per kind of step.                *)
(***************************************************************************)
IInv ==
  /\ Good(h)
  /\ used \subseteq Elem
  /\ out \in {"ok", "panic"}
  /\ \A e \in Elem \ used : h.owner[e] = Nil

(***************************************************************************)
(* What a step does to the lists as sequences.                             *)
(***************************************************************************)
AddStep ==
  \E l \in List, e \in Elem \ used, v \in Value : \E s, k, p, n :
    /\ Gap(h, l, s, k, p, n) /\ Inserted(h', h, l, s, k, e, v)
    /\ used' = used \union {e} /\ out' = "ok"

DropStep ==
  \E l \in List : \E s, i, j, G :
    RunOf(h, l, s, i, j, G) /\ Shortened(h', h, l, s, i, j) /\ used' = used

CutStep ==
  \E l, dst \in List : \E s, i, j, G :
    /\ l # dst /\ h.len[dst] = 0
    /\ RunOf(h, l, s, i, j, G) /\ CutOff(h', h, l, s, i, j, dst)
    /\ used' = used /\ out' = "ok"

MoveStep ==
  \E l, src \in List : \E s, k, p, n :
    /\ l # src /\ Gap(h, l, s, k, p, n) /\ Moved(h', h, l, s, k, src)
    /\ used' = used /\ out' = "ok"

\* A run goes, and another list takes its place.
ExchangeStep ==
  \E l, src \in List : \E s, i, j, G, without, p, n :
    /\ l # src /\ RunOf(h, l, s, i, j, G)
    /\ Good(without) /\ Shortened(without, h, l, s, i, j)
    /\ Gap(without, l, Spliced(s, h.len[l], i - 1, j, NoElems, 0), i - 1, p, n)
    /\ Moved(h', without, l, Spliced(s, h.len[l], i - 1, j, NoElems, 0), i - 1, src)
    /\ used' = used /\ out' = "ok"

\* What there is to copy: a run of a list, or an element without one.
Source(S, r, M) ==
  \/ \E l, s, i, j : RunOf(h, l, s, i, j, S) /\ r = Between(s, i, j) /\ M = j - i + 1
  \/ \E e \in used : /\ h.owner[e] = Nil /\ S = {e}
                    /\ r = [x \in 1 .. 1 |-> e] /\ M = 1

CopyStep ==
  \E dst \in List : \E S, r, M : \E copy \in Injection(S, Elem \ used) :
    /\ h.len[dst] = 0 /\ Source(S, r, M) /\ Sequenced(h, S, r, M)
    /\ Copied(h', h, r, M, dst, copy)
    /\ used' = used \union Range(copy) /\ out' = "ok"

WriteStep ==
  \E e \in used, v \in Value :
    h' = [h EXCEPT !.value[e] = v] /\ used' = used /\ out' = "ok"

IdleStep == h' = h /\ used' = used

Effect ==
  \/ AddStep \/ DropStep \/ CutStep \/ MoveStep \/ ExchangeStep \/ CopyStep
  \/ WriteStep \/ IdleStep

\* What a step owes: the invariant, one of these effects, and that no stale
\* handle is owned again.
StepOK == IInv' /\ Effect /\ \A e \in used : h.owner[e] = Nil => h'.owner[e] = Nil

LEMMA PanicOK ==
  ASSUME IInv, Panic
  PROVE  StepOK
BY DEF IInv, Panic, StepOK, Effect, IdleStep

LEMMA NewOK ==
  ASSUME IInv, NEW l \in List, NEW p, NEW n, NEW v \in Value, New(l, p, n, v),
         \E s, k : Gap(h, l, s, k, p, n)
  PROVE  StepOK
<1>1. PICK e \in Elem \ used : Ok(Insert(h, l, p, n, e, v)) /\ used' = used \union {e}
  BY DEF New
<1>2. PICK s, k : Gap(h, l, s, k, p, n)
  OBVIOUS
<1>3. Good(h) /\ h.owner[e] = Nil
  BY <1>1 DEF IInv
<1>4. h' = Insert(h, l, p, n, e, v) /\ out' = "ok"
  BY <1>1 DEF Ok
<1>5. Good(h') /\ h'.owner = Owned(h, {e}, l) /\ Inserted(h', h, l, s, k, e, v)
  BY <1>1, <1>2, <1>3, <1>4, InsertGood
<1>6. \A x \in Elem : h'.owner[x] = IF x = e THEN l ELSE h.owner[x]
  BY <1>5 DEF Owned
<1>7. Effect
  BY <1>1, <1>2, <1>4, <1>5 DEF Effect, AddStep
<1> QED BY <1>1, <1>4, <1>5, <1>6, <1>7 DEF IInv, StepOK

LEMMA MoveOK ==
  ASSUME IInv, NEW l \in List, NEW src \in List, NEW p, NEW n, Move(l, p, n, src),
         \E s, k : Gap(h, l, s, k, p, n)
  PROVE  StepOK
<1>1. CASE src = l /\ Panic
  BY <1>1, PanicOK
<1>2. CASE src # l /\ Ok(Splice(h, l, p, n, src)) /\ UNCHANGED used
  <2>1. PICK s, k : Gap(h, l, s, k, p, n)
    OBVIOUS
  <2>2. h' = Splice(h, l, p, n, src) /\ out' = "ok" /\ used' = used /\ Good(h)
    BY <1>2 DEF Ok, IInv
  <2>3. /\ Good(h')
        /\ \A x \in Elem : h'.owner[x] = IF h.owner[x] = src THEN l ELSE h.owner[x]
        /\ Moved(h', h, l, s, k, src)
    BY <1>2, <2>1, <2>2, SpliceGood
  <2>4. Effect
    BY <1>2, <2>1, <2>2, <2>3 DEF Effect, MoveStep
  <2> QED BY <2>2, <2>3, <2>4, NilAssumption DEF IInv, StepOK
<1> QED BY <1>1, <1>2 DEF Move

LEMMA RemoveOK ==
  ASSUME IInv, NEW l \in List, NEW e \in Handle, Remove(l, e)
  PROVE  StepOK
<1>1. CASE ~Owns(l, e) /\ Panic
  BY <1>1, PanicOK
<1>2. CASE Owns(l, e) /\ Ok(Unlink(h, l, e)) /\ UNCHANGED used
  <2>1. e \in Elem /\ h.owner[e] = l /\ Good(h)
    BY <1>2 DEF Owns, Handle, IInv
  <2>2. h' = Unlink(h, l, e) /\ out' = "ok" /\ used' = used
    BY <1>2 DEF Ok
  <2>3. /\ Good(h') /\ h'.owner = Owned(h, {e}, Nil)
        /\ \E s, k, G : RunOf(h, l, s, k, k, G) /\ Shortened(h', h, l, s, k, k)
    BY <2>1, <2>2, UnlinkGood
  <2>4. \A x \in Elem : h'.owner[x] = IF x = e THEN Nil ELSE h.owner[x]
    BY <2>3 DEF Owned
  <2>5. Effect
    BY <2>2, <2>3 DEF Effect, DropStep
  <2> QED BY <2>2, <2>3, <2>4, <2>5 DEF IInv, StepOK
<1> QED BY <1>1, <1>2 DEF Remove

LEMMA CutRangeOK ==
  ASSUME IInv, NEW l \in List, NEW dst \in List, l # dst, NEW first \in Handle,
         NEW last \in Handle, CutRange(l, first, last, dst)
  PROVE  StepOK
<1>1. CASE ~InOrder(l, first, last) /\ Panic
  BY <1>1, PanicOK
<1>2. CASE /\ InOrder(l, first, last) /\ Empty(dst)
           /\ Ok(Cut(h, l, first, last, dst)) /\ UNCHANGED used
  <2>1. first \in Ptr /\ last \in Ptr /\ Good(h)
    BY DEF Handle, Ptr, IInv
  <2>2. PICK s, i, j, G : RunOf(h, l, s, i, j, G) /\ s[i] = first /\ s[j] = last
    BY <1>2, <2>1, RangeIsRun
  <2>3. h' = Cut(h, l, s[i], s[j], dst) /\ out' = "ok" /\ used' = used /\ h.len[dst] = 0
    BY <1>2, <2>2 DEF Ok, Empty
  <2>4. Good(h') /\ h'.owner = Owned(h, G, dst) /\ CutOff(h', h, l, s, i, j, dst)
    BY <2>2, <2>3, CutGood
  <2>5. \A x \in Elem : h'.owner[x] = IF x \in G THEN dst ELSE h.owner[x]
    BY <2>4 DEF Owned
  <2>6. \A x \in G : h.owner[x] = l /\ x \in Elem
    BY <2>2, RunFacts
  <2>7. Effect
    BY <2>2, <2>3, <2>4 DEF Effect, CutStep
  <2> QED BY <2>3, <2>4, <2>5, <2>6, <2>7, NilAssumption DEF IInv, StepOK
<1> QED BY <1>1, <1>2 DEF CutRange

LEMMA ReplaceRangeOK ==
  ASSUME IInv, NEW l \in List, NEW src \in List, NEW first \in Handle,
         NEW last \in Handle, ReplaceRange(l, first, last, src)
  PROVE  StepOK
<1> DEFINE p == h.prev[first]
           n == h.next[last]
           without == DetachRange(h, l, first, n)
<1>1. CASE ~InOrder(l, first, last) /\ Panic
  BY <1>1, PanicOK
<1>2. CASE /\ InOrder(l, first, last) /\ UNCHANGED used
           /\ \/ src # l /\ Ok(Splice(without, l, p, n, src))
              \/ src = l /\ h' = without /\ out' = "panic"
  <2>1. first \in Ptr /\ last \in Ptr /\ Good(h)
    BY DEF Handle, Ptr, IInv
  <2>2. PICK s, i, j, G : RunOf(h, l, s, i, j, G) /\ s[i] = first /\ s[j] = last
    BY <1>2, <2>1, RangeIsRun
  <2> DEFINE t == Spliced(s, h.len[l], i - 1, j, NoElems, 0)
  <2>3. without = DetachRange(h, l, s[i], h.next[s[j]])
    BY <2>2
  <2> HIDE DEF without
  <2>4. /\ Good(without) /\ without.owner = Owned(h, G, Nil)
         /\ Shortened(without, h, l, s, i, j)
    BY <2>2, <2>3, DetachGood
  <2>5. ChainOf(without, l, t)
    BY <2>4 DEF Shortened
  <2>6. \A x \in Elem : without.owner[x] = IF x \in G THEN Nil ELSE h.owner[x]
    BY <2>4 DEF Owned
  <2>7. without \in Heap /\ without.len[l] = h.len[l] - (j - i + 1)
    <3>1. without \in Heap
      BY <2>4 DEF Good
    <3>2. h \in Heap /\ l \in List /\ Cardinality(G) = j - i + 1
      BY <2>1, <2>2, RunFacts DEF Good
    <3>3. Visited(h.next, s[i], h.next[s[j]]) = G
      BY <2>2, RunVisited
    <3>4. without.len = [h.len EXCEPT ![l] = @ - Cardinality(G)]
      BY <2>3, <3>2, <3>3 DEF DetachRange, Join, Heap
    <3> QED BY <3>1, <3>2, <3>4 DEF Heap
  <2>8. Gap(without, l, t, i - 1, h.prev[s[i]], h.next[s[j]])
    <3> HIDE DEF t
    <3>1. t = Spliced(s, h.len[l], i - 1, j, NoElems, 0)
      BY DEF t
    <3> QED BY <2>2, <2>5, <2>7, <3>1, GapDetached
  <2>9. CASE src = l /\ h' = without /\ out' = "panic"
    <3>1. Effect
      BY <1>2, <2>2, <2>4, <2>9 DEF Effect, DropStep
    <3> QED BY <1>2, <2>4, <2>6, <2>9, <3>1 DEF IInv, StepOK
  <2>10. CASE src # l /\ Ok(Splice(without, l, p, n, src))
    <3>1. h' = Splice(without, l, h.prev[s[i]], h.next[s[j]], src) /\ out' = "ok" /\ used' = used
      BY <1>2, <2>2, <2>10 DEF Ok
    <3>2. /\ Good(h')
          /\ \A x \in Elem : h'.owner[x] = IF without.owner[x] = src THEN l ELSE without.owner[x]
          /\ Moved(h', without, l, t, i - 1, src)
      <4> HIDE DEF t
      <4> QED BY <2>4, <2>8, <2>10, <3>1, SpliceGood
    <3>3. Effect
      <4>1. ExchangeStep
        BY <2>2, <2>4, <2>8, <2>10, <3>1, <3>2 DEF ExchangeStep
      <4> QED BY <4>1 DEF Effect
    <3> QED BY <2>6, <3>1, <3>2, <3>3, NilAssumption DEF IInv, StepOK
  <2> QED BY <1>2, <2>9, <2>10
<1> QED BY <1>1, <1>2 DEF ReplaceRange

\* A copy of elements that are in sequence, or of none.
LEMMA CopiesOK ==
  ASSUME IInv, NEW dst \in List, Empty(dst), NEW S, NEW first, NEW last,
         Copies(S, first, last, dst),
         \/ S = {}
         \/ \E r, M : Sequenced(h, S, r, M) /\ Source(S, r, M) /\ first = r[1] /\ last = r[M]
  PROVE  StepOK
<1>1. PICK copy \in Injection(S, Elem \ used) :
        Ok(CopyInto(h, S, first, last, dst, copy)) /\ used' = used \union Range(copy)
  BY DEF Copies
<1>2. /\ h' = CopyInto(h, S, first, last, dst, copy) /\ out' = "ok"
      /\ Good(h) /\ h.len[dst] = 0
  BY <1>1 DEF Ok, IInv, Empty
<1>3. /\ copy \in [S -> Elem \ used] /\ Range(copy) = {copy[x] : x \in S}
      /\ copy \in Injection(S, Elem)
  BY DEF Injection, IsInjective, Range
<1>4. CASE S = {}
  <2>1. h' = h /\ Range(copy) = {}
    BY <1>2, <1>3, <1>4 DEF CopyInto
  <2>2. Effect
    BY <1>1, <2>1 DEF Effect, IdleStep
  <2> QED BY <1>1, <1>2, <2>1, <2>2 DEF IInv, StepOK
<1>5. CASE \E r, M : Sequenced(h, S, r, M) /\ Source(S, r, M) /\ first = r[1] /\ last = r[M]
  <2>1. PICK r, M : Sequenced(h, S, r, M) /\ Source(S, r, M) /\ first = r[1] /\ last = r[M]
    BY <1>5
  <2>2. \A x \in S : h.owner[copy[x]] = Nil
    BY <1>3 DEF IInv
  <2>3. Good(h') /\ h'.owner = Owned(h, Range(copy), dst) /\ Copied(h', h, r, M, dst, copy)
    <3>1. h' = CopyInto(h, S, r[1], r[M], dst, copy)
      BY <1>2, <2>1
    <3>2. Good(h) /\ h.len[dst] = 0 /\ copy \in Injection(S, Elem)
      BY <1>2, <1>3
    <3>3. Sequenced(h, S, r, M)
      BY <2>1
    <3> QED BY <2>2, <3>1, <3>2, <3>3, CopyGood
  <2>4. \A x \in Elem : h'.owner[x] = IF x \in Range(copy) THEN dst ELSE h.owner[x]
    BY <2>3 DEF Owned
  <2>5. Range(copy) \subseteq Elem \ used
    BY <1>3
  <2>6. Effect
    <3>1. CopyStep
      BY <1>1, <1>2, <2>1, <2>3 DEF CopyStep
    <3> QED BY <3>1 DEF Effect
  <2> QED BY <1>1, <1>2, <2>3, <2>4, <2>5, <2>6 DEF IInv, StepOK
<1> QED BY <1>4, <1>5

\* A run of a list is in sequence.
LEMMA RunSequenced ==
  ASSUME NEW hp, NEW l, NEW s, NEW i, NEW j, NEW G, RunOf(hp, l, s, i, j, G)
  PROVE  /\ Sequenced(hp, G, Between(s, i, j), j - i + 1)
         /\ Between(s, i, j)[1] = s[i] /\ Between(s, i, j)[j - i + 1] = s[j]
<1> DEFINE N == hp.len[l]
           M == j - i + 1
           r == [x \in 1 .. M |-> s[i + x - 1]]
<1>1. /\ hp \in Heap /\ l \in List /\ ChainOf(hp, l, s) /\ i \in 1 .. N /\ j \in i .. N
      /\ G = {s[x] : x \in i .. j}
  BY DEF RunOf, Good
<1>2. /\ N \in Nat
      /\ \A x \in 1 .. N : s[x] \in Elem
      /\ \A x, y \in 1 .. N : s[x] = s[y] => x = y
  BY <1>1, ChainOwner
<1>3. \A x \in 1 .. N : /\ hp.prev[s[x]] = IF x = 1 THEN Nil ELSE s[x - 1]
                        /\ hp.next[s[x]] = IF x = N THEN Nil ELSE s[x + 1]
  BY <1>1 DEF ChainOf, Chain
<1>4. hp.prev[s[i]] \notin G /\ hp.next[s[j]] \notin G
  BY RunFacts
<1>5. M \in Nat /\ M >= 1 /\ i \in Nat /\ j \in Nat /\ r[1] = s[i] /\ r[M] = s[j]
  BY <1>1, <1>2
<1> HIDE DEF N
<1>6. /\ r \in [1 .. M -> Elem]
      /\ \A x \in 1 .. M : i + x - 1 \in 1 .. N /\ i + x - 1 \in i .. j /\ r[x] = s[i + x - 1]
  BY <1>1, <1>2
<1>7. ASSUME NEW x \in 1 .. M, NEW y \in 1 .. M, r[x] = r[y] PROVE x = y
  <2>1. i + x - 1 = i + y - 1
    BY <1>2, <1>6, <1>7
  <2> QED BY <1>5, <2>1
<1>8. G = Run(r, 1, M)
  <2>1. \A y \in i .. j : y - i + 1 \in 1 .. M /\ r[y - i + 1] = s[y]
    BY <1>1, <1>2
  <2>2. \A y \in 1 .. M : r[y] \in G
    BY <1>1, <1>6
  <2>3. \A g \in G : \E y \in 1 .. M : g = r[y]
    BY <1>1, <2>1
  <2> HIDE DEF r, M
  <2> QED BY <2>2, <2>3 DEF Run
<1>9. ASSUME NEW x \in 1 .. M, x < M PROVE hp.next[r[x]] = r[x + 1]
  <2>1. i + x - 1 \in 1 .. N /\ i + x - 1 # N /\ x + 1 \in 1 .. M
        /\ i + (x + 1) - 1 = (i + x - 1) + 1
    BY <1>1, <1>2, <1>9
  <2> QED BY <1>3, <1>6, <2>1
<1>10. ASSUME NEW x \in 1 .. M, x > 1 PROVE hp.prev[r[x]] = r[x - 1]
  <2>1. i + x - 1 \in 1 .. N /\ i + x - 1 # 1 /\ x - 1 \in 1 .. M
        /\ i + (x - 1) - 1 = (i + x - 1) - 1
    BY <1>1, <1>2, <1>10
  <2> QED BY <1>3, <1>6, <2>1
<1>11. Sequenced(hp, G, r, M)
  BY <1>4, <1>5, <1>6, <1>7, <1>8, <1>9, <1>10 DEF Sequenced
<1> QED BY <1>5, <1>11 DEF Between

LEMMA CloneOK ==
  ASSUME IInv, NEW l \in List, NEW dst \in List, Clone(l, dst)
  PROVE  StepOK
<1> DEFINE S == Visited(h.next, h.head[l], Nil)
<1>1. Empty(dst) /\ Copies(S, h.head[l], h.tail[l], dst)
  BY DEF Clone
<1>2. Good(h) /\ h \in Heap
  BY DEF IInv, Good
<1>3. PICK s : ChainOf(h, l, s)
  BY <1>2 DEF Good
<1>4. CASE h.len[l] = 0
  <2>1. h.head[l] = Nil
    BY <1>2, <1>4, EmptyOwnsNothing
  <2>2. S = {}
    BY <2>1 DEF Visited
  <2> HIDE DEF S
  <2> QED BY <1>1, <2>2, CopiesOK
<1>5. CASE h.len[l] # 0
  <2> DEFINE N == h.len[l]
  <2>1. N \in Nat /\ N >= 1 /\ \A x \in 1 .. N : s[x] \in Elem
    BY <1>2, <1>3, <1>5, ChainOwner
  <2>2. h.head[l] = s[1] /\ h.tail[l] = s[N] /\ h.next[s[N]] = Nil
    BY <1>3, <1>5, <2>1 DEF ChainOf, Chain
  <2>3. RunOf(h, l, s, 1, N, Run(s, 1, N))
    BY <1>2, <1>3, <2>1 DEF RunOf, Run
  <2>4. S = Run(s, 1, N)
    <3>1. Visited(h.next, s[1], h.next[s[N]]) = Run(s, 1, N)
      BY <2>3, RunVisited
    <3> QED BY <2>2, <3>1
  <2>5. \E r, M : /\ Sequenced(h, S, r, M) /\ Source(S, r, M)
                  /\ h.head[l] = r[1] /\ h.tail[l] = r[M]
    <3> HIDE DEF S
    <3>1. /\ Sequenced(h, S, Between(s, 1, N), N - 1 + 1)
          /\ Between(s, 1, N)[1] = s[1] /\ Between(s, 1, N)[N - 1 + 1] = s[N]
      BY <2>3, <2>4, RunSequenced
    <3>2. Source(S, Between(s, 1, N), N - 1 + 1)
      BY <2>3, <2>4 DEF Source
    <3> QED BY <2>2, <3>1, <3>2
  <2> HIDE DEF S
  <2> QED BY <1>1, <2>5, CopiesOK
<1> QED BY <1>4, <1>5

LEMMA CloneRangeOK ==
  ASSUME IInv, NEW dst \in List, NEW first \in Handle, NEW last \in Handle,
         CloneRange(first, last, dst)
  PROVE  StepOK
<1> DEFINE l == h.owner[first]
           S == Visited(h.next, first, h.next[last])
<1>1. CASE ~(first # Nil /\ InOrder(l, first, last)) /\ Panic
  BY <1>1, PanicOK
<1>2. CASE /\ first # Nil /\ InOrder(l, first, last) /\ Empty(dst)
           /\ Copies(S, first, last, dst)
  <2>1. /\ first \in Elem /\ first \in Ptr /\ last \in Ptr /\ Good(h)
        /\ l \in List \union {Nil}
    BY <1>2 DEF Handle, IInv, Ptr, Good, Heap
  <2>2. \E r, M : Sequenced(h, S, r, M) /\ Source(S, r, M) /\ first = r[1] /\ last = r[M]
    <3>1. CASE l \in List
      <4> HIDE DEF l
      <4>1. PICK s, i, j, G : /\ RunOf(h, l, s, i, j, G) /\ s[i] = first /\ s[j] = last
                              /\ Visited(h.next, first, h.next[last]) = G
        BY <1>2, <2>1, <3>1, RangeIsRun
      <4> HIDE DEF S
      <4>2. Visited(h.next, first, h.next[last]) = S
        BY DEF S
      <4>3. RunOf(h, l, s, i, j, S)
        BY <4>1, <4>2
      <4>4. /\ Sequenced(h, S, Between(s, i, j), j - i + 1)
            /\ Between(s, i, j)[1] = s[i] /\ Between(s, i, j)[j - i + 1] = s[j]
        BY <4>3, RunSequenced
      <4>5. Source(S, Between(s, i, j), j - i + 1)
        BY <4>3 DEF Source
      <4> QED BY <4>1, <4>4, <4>5
    <3>2. CASE l = Nil
      <4>1. /\ last = first /\ h.prev[first] = Nil /\ h.next[first] = Nil /\ S = {first}
        BY <1>2, <2>1, <3>2, LooseRange
      <4> DEFINE r == [x \in 1 .. 1 |-> first]
      <4>2. Sequenced(h, {first}, r, 1)
        BY <2>1, <4>1, NilAssumption DEF Sequenced, Run
      <4>3. first = r[1] /\ last = r[1]
        BY <4>1
      <4>4. Source({first}, r, 1)
        <5>1. first \in used /\ h.owner[first] = Nil
          BY <1>2, <3>2 DEF Handle
        <5> QED BY <5>1 DEF Source
      <4> HIDE DEF r
      <4> QED BY <4>1, <4>2, <4>3, <4>4
    <3> QED BY <2>1, <3>1, <3>2
  <2> HIDE DEF S
  <2> QED BY <1>2, <2>2, CopiesOK
<1> QED BY <1>1, <1>2 DEF CloneRange

LEMMA SetValueOK ==
  ASSUME IInv, NEW e \in used, NEW v \in Value, SetValue(e, v)
  PROVE  StepOK
<1>1. h' = [h EXCEPT !.value[e] = v] /\ out' = "ok" /\ used' = used
  BY DEF SetValue, Ok
<1>2. h \in Heap /\ e \in Elem /\ Good(h)
  BY DEF IInv, Good
<1>3. /\ h' \in Heap
      /\ h'.prev = h.prev /\ h'.next = h.next /\ h'.owner = h.owner
      /\ h'.head = h.head /\ h'.tail = h.tail /\ h'.len = h.len
  BY <1>1, <1>2 DEF Heap
<1>4. ASSUME NEW l \in List PROVE \E s : ChainOf(h', l, s)
  <2>1. PICK s : ChainOf(h, l, s)
    BY <1>2 DEF Good
  <2> QED BY <1>3, <2>1, SameChain
<1>5. Good(h')
  BY <1>2, <1>3, <1>4 DEF Good
<1>6. Effect
  BY <1>1 DEF Effect, WriteStep
<1> QED BY <1>1, <1>3, <1>5, <1>6 DEF IInv, StepOK

-----------------------------------------------------------------------------
(***************************************************************************)
(* The theorems.                                                           *)
(***************************************************************************)
LEMMA InitIInv == Init => IInv
<1> SUFFICES ASSUME Init PROVE IInv
  OBVIOUS
<1>1. PICK v \in Value :
        h = [prev |-> [e \in Elem |-> Nil], next |-> [e \in Elem |-> Nil],
             owner |-> [e \in Elem |-> Nil], value |-> [e \in Elem |-> v],
             head |-> [l \in List |-> Nil], tail |-> [l \in List |-> Nil],
             len |-> [l \in List |-> 0]]
  BY DEF Init
<1>2. h \in Heap
  BY <1>1 DEF Heap, Ptr
<1>3. \A e \in Elem : h.owner[e] = Nil /\ h.prev[e] = Nil /\ h.next[e] = Nil
  BY <1>1
<1>4. ASSUME NEW l \in List PROVE \E s : ChainOf(h, l, s)
  <2>1. h.len[l] = 0 /\ h.head[l] = Nil /\ h.tail[l] = Nil /\ \A x \in Elem : h.owner[x] # l
    BY <1>1, <1>3, NilAssumption
  <2> QED BY <2>1, EmptyChain
<1> QED BY <1>2, <1>3, <1>4 DEF IInv, Good, Init

LEMMA StepIInv == IInv /\ [Next]_vars => StepOK
<1> SUFFICES ASSUME IInv, [Next]_vars PROVE StepOK
  OBVIOUS
<1>0. Good(h) /\ Handle \subseteq Ptr /\ \A l \in List : h \in Heap /\ h.head[l] \in Ptr
  BY DEF IInv, Handle, Ptr, Good, Heap
<1>1. CASE UNCHANGED vars
  BY <1>1 DEF IInv, StepOK, vars, Effect, IdleStep
<1>2. ASSUME NEW l \in List, NEW v \in Value, PushFront(l, v) PROVE StepOK
  BY <1>0, <1>2, GapFront, NewOK DEF PushFront
<1>3. ASSUME NEW l \in List, NEW v \in Value, PushBack(l, v) PROVE StepOK
  BY <1>0, <1>3, GapBack, NewOK DEF PushBack
<1>4. ASSUME NEW l \in List, NEW v \in Value, NEW mark \in Handle, InsertBefore(l, mark, v)
      PROVE  StepOK
  <2>1. CASE Owns(l, mark) /\ New(l, h.prev[mark], mark, v)
    <3>1. mark \in Elem /\ h.owner[mark] = l
      BY <1>0, <2>1 DEF Owns, Ptr
    <3>2. \E s, k : Gap(h, l, s, k, h.prev[mark], mark)
      BY <1>0, <3>1, GapBefore
    <3> QED BY <2>1, <3>2, NewOK
  <2> QED BY <1>4, <2>1, PanicOK DEF InsertBefore
<1>5. ASSUME NEW l \in List, NEW v \in Value, NEW mark \in Handle, InsertAfter(l, mark, v)
      PROVE  StepOK
  <2>1. CASE Owns(l, mark) /\ New(l, mark, h.next[mark], v)
    <3>1. mark \in Elem /\ h.owner[mark] = l
      BY <1>0, <2>1 DEF Owns, Ptr
    <3>2. \E s, k : Gap(h, l, s, k, mark, h.next[mark])
      BY <1>0, <3>1, GapAfter
    <3> QED BY <2>1, <3>2, NewOK
  <2> QED BY <1>5, <2>1, PanicOK DEF InsertAfter
<1>6. ASSUME NEW l \in List, NEW src \in List, PushFrontList(l, src) PROVE StepOK
  BY <1>0, <1>6, GapFront, MoveOK DEF PushFrontList
<1>7. ASSUME NEW l \in List, NEW src \in List, PushBackList(l, src) PROVE StepOK
  BY <1>0, <1>7, GapBack, MoveOK DEF PushBackList
<1>8. ASSUME NEW l \in List, NEW src \in List, NEW mark \in Handle,
             InsertListBefore(l, mark, src)
      PROVE  StepOK
  <2>1. CASE Owns(l, mark) /\ Move(l, h.prev[mark], mark, src)
    <3>1. mark \in Elem /\ h.owner[mark] = l
      BY <1>0, <2>1 DEF Owns, Ptr
    <3>2. \E s, k : Gap(h, l, s, k, h.prev[mark], mark)
      BY <1>0, <3>1, GapBefore
    <3> QED BY <2>1, <3>2, MoveOK
  <2> QED BY <1>8, <2>1, PanicOK DEF InsertListBefore
<1>9. ASSUME NEW l \in List, NEW src \in List, NEW mark \in Handle,
             InsertListAfter(l, mark, src)
      PROVE  StepOK
  <2>1. CASE Owns(l, mark) /\ Move(l, mark, h.next[mark], src)
    <3>1. mark \in Elem /\ h.owner[mark] = l
      BY <1>0, <2>1 DEF Owns, Ptr
    <3>2. \E s, k : Gap(h, l, s, k, mark, h.next[mark])
      BY <1>0, <3>1, GapAfter
    <3> QED BY <2>1, <3>2, MoveOK
  <2> QED BY <1>9, <2>1, PanicOK DEF InsertListAfter
<1>10. ASSUME NEW l \in List, NEW src \in List, NEW e \in used, Replace(l, e, src) PROVE StepOK
  BY <1>10, ReplaceRangeOK DEF Replace, Handle
<1>11. ASSUME NEW l \in List, NEW src \in List, NEW first \in Handle, NEW last \in Handle,
              ReplaceRange(l, first, last, src)
       PROVE  StepOK
  BY <1>11, ReplaceRangeOK
<1>12. ASSUME NEW l \in List, NEW e \in Handle, Remove(l, e) PROVE StepOK
  BY <1>12, RemoveOK
<1>13. ASSUME NEW l \in List, NEW dst \in List, NEW first \in Handle, NEW last \in Handle,
              l # dst, CutRange(l, first, last, dst)
       PROVE  StepOK
  BY <1>13, CutRangeOK
<1>14. ASSUME NEW l \in List, NEW dst \in List, Clone(l, dst) PROVE StepOK
  BY <1>14, CloneOK
<1>15. ASSUME NEW dst \in List, NEW first \in Handle, NEW last \in Handle,
              CloneRange(first, last, dst)
       PROVE  StepOK
  BY <1>15, CloneRangeOK
<1>16. ASSUME NEW e \in used, NEW v \in Value, SetValue(e, v) PROVE StepOK
  BY <1>16, SetValueOK
<1> QED BY <1>1, <1>2, <1>3, <1>4, <1>5, <1>6, <1>7, <1>8, <1>9, <1>10, <1>11, <1>12,
           <1>13, <1>14, <1>15, <1>16 DEF Next

\* The inductive invariant holds in every reachable state.
THEOREM Invariance == Spec => []IInv
<1>1. IInv /\ [Next]_vars => IInv'
  BY StepIInv DEF StepOK
<1> QED BY InitIInv, <1>1, PTL DEF Spec

\* Every field of the heap keeps its type: no length goes negative and no
\* pointer leaves the elements, in whatever order the operations of list.go
\* are called.
THEOREM TypeCorrect == Spec => []TypeOK
<1>1. IInv => TypeOK
  BY DEF IInv, Good, TypeOK
<1> QED BY Invariance, <1>1, PTL

\* Every list can be walked both ways over exactly the elements it owns, for
\* any heap and any sequence of calls, refused ones included.
THEOREM ListsWellLinked == Spec => []WellLinked
<1>1. IInv => WellLinked
  <2> SUFFICES ASSUME IInv, NEW l \in List PROVE Chain(h, l, Elems(h, l))
    BY DEF WellLinked
  <2>1. PICK s : ChainOf(h, l, s)
    BY DEF IInv, Good
  <2>2. h.len[l] \in Nat
    BY DEF IInv, Good, Heap
  <2>3. Elems(h, l) = s
    BY <2>1, <2>2, ElemsChain
  <2> QED BY <2>1, <2>3 DEF ChainOf
<1> QED BY Invariance, <1>1, PTL

\* A removed element points at nothing, for as long as a client keeps it.
THEOREM RemovedAreLoose == Spec => []Loose
<1>1. IInv => Loose
  BY DEF IInv, Good, Loose
<1> QED BY Invariance, <1>1, PTL

\* A stale element handle is never accepted again.
THEOREM StaleForever == Spec => DetachedForever
<1>1. IInv /\ [Next]_vars => [\A e \in used : h.owner[e] = Nil => h'.owner[e] = Nil]_vars
  BY StepIInv DEF StepOK
<1> QED BY Invariance, <1>1, PTL DEF Spec, DetachedForever


-----------------------------------------------------------------------------
(***************************************************************************)
(* Chains as sequences.                                                    *)
(***************************************************************************)
\* What the client sees of a heap.
View(hp) == [l \in List |-> Elems(hp, l)]

\* Spliced in the words of ListSpec.
LEMMA SplicedIs ==
  ASSUME NEW s \in Seq(Elem), NEW i \in 0 .. Len(s), NEW j \in i .. Len(s), NEW m \in Seq(Elem)
  PROVE  Spliced(s, Len(s), i, j, m, Len(m)) = Abs!Prefix(s, i) \o m \o Abs!Suffix(s, j)
<1> DEFINE N == Len(s)
           M == Len(m)
           a == Abs!Prefix(s, i)
           b == Abs!Suffix(s, j)
           t == Spliced(s, N, i, j, m, M)
<1>1. N \in Nat /\ M \in Nat /\ i \in Nat /\ j \in Nat /\ i <= j /\ j <= N
  OBVIOUS
<1>2. a \in Seq(Elem) /\ Len(a) = i /\ \A x \in 1 .. i : a[x] = s[x]
  BY <1>1 DEF Abs!Prefix
<1>3. b \in Seq(Elem) /\ Len(b) = N - j /\ \A x \in 1 .. N - j : b[x] = s[j + x]
  <2>1. b = SubSeq(s, j + 1, N)
    BY DEF Abs!Suffix
  <2>2. Len(b) = N - j
    BY <1>1, <2>1
  <2>3. \A x \in 1 .. N - j : b[x] = s[j + x]
    BY <1>1, <2>1
  <2>4. b \in Seq(Elem)
    BY <1>1, <2>1
  <2> QED BY <2>2, <2>3, <2>4
<1> HIDE DEF a, b
<1>4. /\ a \o m \in Seq(Elem) /\ Len(a \o m) = i + M
      /\ \A x \in 1 .. i + M : (a \o m)[x] = IF x <= i THEN s[x] ELSE m[x - i]
  BY <1>1, <1>2
<1>5. /\ (a \o m) \o b \in Seq(Elem) /\ Len((a \o m) \o b) = (i + M) + (N - j)
      /\ \A x \in 1 .. (i + M) + (N - j) :
           ((a \o m) \o b)[x] = IF x <= i + M THEN (a \o m)[x] ELSE b[x - (i + M)]
  <2> DEFINE c == a \o m
  <2>1. c \in Seq(Elem) /\ Len(c) = i + M
    BY <1>4
  <2> HIDE DEF c
  <2>2. /\ c \o b \in Seq(Elem) /\ Len(c \o b) = Len(c) + Len(b)
        /\ \A x \in 1 .. Len(c) + Len(b) : (c \o b)[x] = IF x <= Len(c) THEN c[x] ELSE b[x - Len(c)]
    <3>1. b \in Seq(Elem) /\ c \in Seq(Elem)
      BY <1>3, <2>1
    <3> HIDE <1>3
    <3> QED BY <3>1
  <2>3. Len(c) + Len(b) = (i + M) + (N - j) /\ Len(c) = i + M
    BY <1>3, <2>1
  <2> HIDE DEF N, M
  <2> QED BY <2>2, <2>3 DEF c
<1> HIDE DEF N, M
<1>6. N - (j - i) + M = (i + M) + (N - j)
  BY <1>1
<1>7. t = [x \in 1 .. (i + M) + (N - j) |->
             IF x <= i THEN s[x] ELSE IF x <= i + M THEN m[x - i] ELSE s[x - M + (j - i)]]
  BY <1>6 DEF Spliced
<1> HIDE DEF t
<1>8. ASSUME NEW x \in 1 .. (i + M) + (N - j) PROVE ((a \o m) \o b)[x] = t[x]
  <2>1. t[x] = IF x <= i THEN s[x] ELSE IF x <= i + M THEN m[x - i] ELSE s[x - M + (j - i)]
    BY <1>7
  <2>2. CASE x <= i + M
    <3>1. x \in 1 .. i + M
      BY <1>1, <2>2
    <3> QED BY <1>4, <1>5, <2>1, <2>2, <3>1
  <2>3. CASE ~(x <= i + M)
    <3>1. x - (i + M) \in 1 .. N - j /\ j + (x - (i + M)) = x - M + (j - i) /\ ~(x <= i)
      BY <1>1, <2>3
    <3>2. b[x - (i + M)] = s[j + (x - (i + M))]
      BY <1>3, <3>1
    <3> QED BY <1>5, <2>1, <2>3, <3>1, <3>2
  <2> QED BY <2>2, <2>3
<1>9. (a \o m) \o b = [x \in 1 .. (i + M) + (N - j) |-> ((a \o m) \o b)[x]]
  <2> DEFINE c == (a \o m) \o b
  <2>1. c \in Seq(Elem) /\ Len(c) = (i + M) + (N - j)
    BY <1>5
  <2> HIDE DEF c
  <2>2. c = [x \in 1 .. Len(c) |-> c[x]]
    BY <2>1
  <2> QED BY <2>1, <2>2 DEF c
<1>10. t = [x \in 1 .. (i + M) + (N - j) |-> t[x]]
  BY <1>7
<1>11. (a \o m) \o b = t
  BY <1>8, <1>9, <1>10
<1> QED BY <1>11 DEF t, N, M, a, b

\* What a chain tells of the sequence.
LEMMA ViewOf ==
  ASSUME NEW hp, Good(hp), NEW l \in List, NEW s, ChainOf(hp, l, s)
  PROVE  /\ View(hp)[l] = s /\ s \in Seq(Elem) /\ Len(s) = hp.len[l]
         /\ \A i, j \in 1 .. Len(s) : s[i] = s[j] => i = j
<1>1. hp.len[l] \in Nat
  BY DEF Good, Heap
<1>2. Elems(hp, l) = s
  BY <1>1, ElemsChain
<1>3. s \in [1 .. hp.len[l] -> Elem] /\ \A i, j \in 1 .. hp.len[l] : s[i] = s[j] => i = j
  BY DEF ChainOf, Chain
<1>4. s \in Seq(Elem) /\ Len(s) = hp.len[l]
  BY <1>1, <1>3
<1> QED BY <1>2, <1>3, <1>4 DEF View

\* A list that keeps its chain keeps its sequence.
LEMMA ViewKept ==
  ASSUME NEW hp, Good(hp), NEW hq, Good(hq), NEW L, Keeps(hq, hp, L), NEW q \in List \ L
  PROVE  View(hq)[q] = View(hp)[q]
<1>1. PICK r : ChainOf(hp, q, r)
  BY DEF Good
<1>2. ChainOf(hq, q, r)
  BY <1>1 DEF Keeps
<1> QED BY <1>1, <1>2, ViewOf

\* The view of a heap in which one or two lists changed.
LEMMA ViewOne ==
  ASSUME NEW hp, Good(hp), NEW hq, Good(hq), NEW l \in List, Keeps(hq, hp, {l}),
         NEW s, ChainOf(hq, l, s)
  PROVE  View(hq) = [View(hp) EXCEPT ![l] = s]
<1>1. \A q \in List \ {l} : View(hq)[q] = View(hp)[q]
  BY ViewKept
<1>2. View(hq) = [q \in List |-> View(hq)[q]] /\ View(hp) = [q \in List |-> View(hp)[q]]
  BY DEF View
<1>3. View(hq)[l] = s
  BY ViewOf
<1> QED BY <1>1, <1>2, <1>3

LEMMA ViewTwo ==
  ASSUME NEW hp, Good(hp), NEW hq, Good(hq), NEW l \in List, NEW m \in List, l # m,
         Keeps(hq, hp, {l, m}), NEW s, ChainOf(hq, l, s), NEW t, ChainOf(hq, m, t)
  PROVE  View(hq) = [View(hp) EXCEPT ![l] = s, ![m] = t]
<1>1. \A q \in List \ {l, m} : View(hq)[q] = View(hp)[q]
  BY ViewKept
<1>2. View(hq) = [q \in List |-> View(hq)[q]] /\ View(hp) = [q \in List |-> View(hp)[q]]
  BY DEF View
<1>3. View(hq)[l] = s /\ View(hq)[m] = t
  BY ViewOf
<1> QED BY <1>1, <1>2, <1>3

\* The view after an insertion.
LEMMA AddView ==
  ASSUME NEW hp, Good(hp), NEW hq, Good(hq), NEW l \in List, NEW s, NEW k, NEW p, NEW n,
         Gap(hp, l, s, k, p, n), NEW e \in Elem, NEW v, Inserted(hq, hp, l, s, k, e, v)
  PROVE  /\ View(hp)[l] = s /\ k \in 0 .. Len(s)
         /\ View(hq) = [View(hp) EXCEPT ![l] = Abs!Prefix(s, k) \o <<e>> \o Abs!Suffix(s, k)]
<1>1. ChainOf(hp, l, s) /\ k \in 0 .. hp.len[l]
  BY DEF Gap
<1>2. View(hp)[l] = s /\ s \in Seq(Elem) /\ Len(s) = hp.len[l]
  BY <1>1, ViewOf
<1>3. ChainOf(hq, l, Spliced(s, Len(s), k, k, <<e>>, 1)) /\ Keeps(hq, hp, {l})
  <2>1. <<e>> = [x \in 1 .. 1 |-> e]
    OBVIOUS
  <2> QED BY <1>2, <2>1 DEF Inserted
<1>4. View(hq) = [View(hp) EXCEPT ![l] = Spliced(s, Len(s), k, k, <<e>>, 1)]
  BY <1>3, ViewOne
<1>5. Spliced(s, Len(s), k, k, <<e>>, 1) = Abs!Prefix(s, k) \o <<e>> \o Abs!Suffix(s, k)
  <2>1. <<e>> \in Seq(Elem) /\ Len(<<e>>) = 1 /\ k \in 0 .. Len(s) /\ k \in k .. Len(s)
    BY <1>1, <1>2
  <2> QED BY <1>2, <2>1, SplicedIs
<1> QED BY <1>1, <1>2, <1>4, <1>5

\* The range of a run, and the sequence without it.
IsRange(hp, l, s, i, j) ==
  /\ View(hp)[l] = s /\ s \in Seq(Elem) /\ Len(s) = hp.len[l]
  /\ i \in 1 .. Len(s) /\ j \in i .. Len(s) /\ <<i, j>> \in Abs!Ranges(s)
  /\ Spliced(s, hp.len[l], i - 1, j, NoElems, 0) = Abs!Without(s, <<i, j>>)
  /\ Between(s, i, j) = Abs!Run(s, <<i, j>>)

LEMMA RunRange ==
  ASSUME NEW hp, NEW l, NEW s, NEW i, NEW j, NEW G, RunOf(hp, l, s, i, j, G)
  PROVE  IsRange(hp, l, s, i, j)
<1>1. Good(hp) /\ l \in List /\ ChainOf(hp, l, s) /\ i \in 1 .. hp.len[l] /\ j \in i .. hp.len[l]
  BY DEF RunOf
<1>2. View(hp)[l] = s /\ s \in Seq(Elem) /\ Len(s) = hp.len[l]
  BY <1>1, ViewOf
<1>3. i \in 1 .. Len(s) /\ j \in i .. Len(s) /\ i \in Nat /\ j \in 1 .. Len(s) /\ i <= j
  BY <1>1, <1>2
<1>4. <<i, j>> \in Abs!Ranges(s)
  BY <1>3 DEF Abs!Ranges
<1>5. Spliced(s, hp.len[l], i - 1, j, NoElems, 0) = Abs!Without(s, <<i, j>>)
  <2>1. NoElems = <<>> /\ <<>> \in Seq(Elem) /\ Len(<<>>) = 0
    BY DEF NoElems
  <2>2. i - 1 \in 0 .. Len(s) /\ j \in (i - 1) .. Len(s)
    BY <1>3
  <2>3. Spliced(s, Len(s), i - 1, j, <<>>, Len(<<>>))
          = Abs!Prefix(s, i - 1) \o <<>> \o Abs!Suffix(s, j)
    BY <1>2, <2>1, <2>2, SplicedIs
  <2>4. Abs!Prefix(s, i - 1) \o <<>> = Abs!Prefix(s, i - 1)
    <3>1. Abs!Prefix(s, i - 1) \in Seq(Elem)
      BY <1>2, <2>2 DEF Abs!Prefix
    <3> QED BY <3>1
  <2> QED BY <1>2, <2>1, <2>3, <2>4 DEF Abs!Without
<1>6. Between(s, i, j) = Abs!Run(s, <<i, j>>)
  <2>1. Abs!Run(s, <<i, j>>) = SubSeq(s, i, j)
    BY DEF Abs!Run
  <2>2. SubSeq(s, i, j) = [x \in 1 .. (j - i + 1) |-> s[i + x - 1]]
    BY <1>2, <1>3
  <2> QED BY <2>1, <2>2 DEF Between
<1> QED BY <1>2, <1>3, <1>4, <1>5, <1>6 DEF IsRange

\* An empty list is seen as the empty sequence.
LEMMA EmptyView ==
  ASSUME NEW hp, Good(hp), NEW l \in List, hp.len[l] = 0
  PROVE  View(hp)[l] = <<>>
<1>1. PICK s : ChainOf(hp, l, s)
  BY DEF Good
<1>2. View(hp)[l] = s /\ s \in Seq(Elem) /\ Len(s) = 0
  BY <1>1, ViewOf
<1> QED BY <1>2

\* The view after a splice.
LEMMA MoveView ==
  ASSUME NEW hp, Good(hp), NEW hq, Good(hq), NEW l \in List, NEW src \in List, l # src,
         NEW s, NEW k, NEW p, NEW n, Gap(hp, l, s, k, p, n), Moved(hq, hp, l, s, k, src)
  PROVE  /\ View(hp)[l] = s /\ k \in 0 .. Len(s)
         /\ View(hq) = [View(hp) EXCEPT
                          ![l] = Abs!Prefix(s, k) \o View(hp)[src] \o Abs!Suffix(s, k),
                          ![src] = <<>>]
<1>1. ChainOf(hp, l, s) /\ k \in 0 .. hp.len[l]
  BY DEF Gap
<1>2. View(hp)[l] = s /\ s \in Seq(Elem) /\ Len(s) = hp.len[l]
  BY <1>1, ViewOf
<1>3. PICK r : ChainOf(hp, src, r)
  BY DEF Good
<1>4. View(hp)[src] = r /\ r \in Seq(Elem) /\ Len(r) = hp.len[src]
  BY <1>3, ViewOf
<1>5. ChainOf(hq, l, Spliced(s, Len(s), k, k, r, Len(r)))
  BY <1>2, <1>3, <1>4 DEF Moved
<1>6. ChainOf(hq, src, <<>>) /\ Keeps(hq, hp, {l, src})
  <2>1. NoElems = <<>>
    BY DEF NoElems
  <2> QED BY <2>1 DEF Moved
<1>7. View(hq) = [View(hp) EXCEPT ![l] = Spliced(s, Len(s), k, k, r, Len(r)), ![src] = <<>>]
  BY <1>5, <1>6, ViewTwo
<1>8. k \in 0 .. Len(s) /\ k \in k .. Len(s)
  BY <1>1, <1>2
<1>9. Spliced(s, Len(s), k, k, r, Len(r)) = Abs!Prefix(s, k) \o r \o Abs!Suffix(s, k)
  BY <1>2, <1>4, <1>8, SplicedIs
<1> QED BY <1>2, <1>4, <1>7, <1>8, <1>9

-----------------------------------------------------------------------------
(***************************************************************************)
(* One lemma per effect: the action of ListSpec it is.                     *)
(***************************************************************************)
\* The refinement mapping, and its value in the next state.
LEMMA ViewIs == [q \in List |-> Elems(h, q)] = View(h) /\ [q \in List |-> Elems(h, q)]' = View(h')
BY DEF View

LEMMA AddOK ==
  ASSUME IInv, IInv', AddStep
  PROVE  out' = "ok" /\ \E l \in List : Abs!Add(l)
<1>1. PICK l \in List, e \in Elem \ used, v \in Value :
        \E s, k, p, n : /\ Gap(h, l, s, k, p, n) /\ Inserted(h', h, l, s, k, e, v)
                        /\ used' = used \union {e} /\ out' = "ok"
  BY DEF AddStep
<1>2. PICK s, k, p, n : /\ Gap(h, l, s, k, p, n) /\ Inserted(h', h, l, s, k, e, v)
                        /\ used' = used \union {e} /\ out' = "ok"
  BY <1>1
<1>3. Good(h) /\ Good(h')
  BY DEF IInv
<1>4. /\ View(h)[l] = s /\ k \in 0 .. Len(s)
      /\ View(h') = [View(h) EXCEPT ![l] = Abs!Prefix(s, k) \o <<e>> \o Abs!Suffix(s, k)]
  BY <1>2, <1>3, AddView
<1>5. h'.value = [h.value EXCEPT ![e] = v]
  BY <1>2 DEF Inserted
<1>6. Abs!Add(l)
  BY <1>2, <1>4, <1>5, ViewIs DEF Abs!Add
<1> QED BY <1>2, <1>6

LEMMA DropOK ==
  ASSUME IInv, IInv', DropStep
  PROVE  \E l \in List : Abs!Drop(l)
<1>1. PICK l \in List : \E s, i, j, G :
        RunOf(h, l, s, i, j, G) /\ Shortened(h', h, l, s, i, j) /\ used' = used
  BY DEF DropStep
<1>2. PICK s, i, j, G : RunOf(h, l, s, i, j, G) /\ Shortened(h', h, l, s, i, j) /\ used' = used
  BY <1>1
<1>3. Good(h) /\ Good(h') /\ RunOf(h, l, s, i, j, G)
  BY <1>2 DEF IInv
<1> IsRange(h, l, s, i, j)
  BY <1>3, RunRange
<1>4. /\ View(h)[l] = s /\ <<i, j>> \in Abs!Ranges(s)
      /\ Spliced(s, h.len[l], i - 1, j, NoElems, 0) = Abs!Without(s, <<i, j>>)
  BY DEF IsRange
<1>5. View(h') = [View(h) EXCEPT ![l] = Abs!Without(s, <<i, j>>)] /\ h'.value = h.value
  BY <1>2, <1>3, <1>4, ViewOne DEF Shortened
<1>6. Abs!Drop(l)
  BY <1>2, <1>4, <1>5, ViewIs DEF Abs!Drop
<1> QED BY <1>6

LEMMA CutOK ==
  ASSUME IInv, IInv', CutStep
  PROVE  out' = "ok" /\ \E l, m \in List : l # m /\ Abs!CutOut(l, m)
<1>1. PICK l \in List, dst \in List : \E s, i, j, G :
        /\ l # dst /\ h.len[dst] = 0
        /\ RunOf(h, l, s, i, j, G) /\ CutOff(h', h, l, s, i, j, dst)
        /\ used' = used /\ out' = "ok"
  BY DEF CutStep
<1>2. PICK s, i, j, G : /\ l # dst /\ h.len[dst] = 0
                        /\ RunOf(h, l, s, i, j, G) /\ CutOff(h', h, l, s, i, j, dst)
                        /\ used' = used /\ out' = "ok"
  BY <1>1
<1>3. Good(h) /\ Good(h') /\ RunOf(h, l, s, i, j, G)
  BY <1>2 DEF IInv
<1> IsRange(h, l, s, i, j)
  BY <1>3, RunRange
<1>4. /\ View(h)[l] = s /\ <<i, j>> \in Abs!Ranges(s)
      /\ Spliced(s, h.len[l], i - 1, j, NoElems, 0) = Abs!Without(s, <<i, j>>)
      /\ Between(s, i, j) = Abs!Run(s, <<i, j>>)
  BY DEF IsRange
<1>5. View(h') = [View(h) EXCEPT ![l] = Abs!Without(s, <<i, j>>), ![dst] = Abs!Run(s, <<i, j>>)]
  BY <1>2, <1>3, <1>4, ViewTwo DEF CutOff
<1>6. h'.value = h.value
  BY <1>2 DEF CutOff
<1>7. View(h)[dst] = <<>>
  BY <1>2, <1>3, EmptyView
<1>8. Abs!CutOut(l, dst)
  BY <1>2, <1>4, <1>5, <1>6, <1>7, ViewIs DEF Abs!CutOut
<1> QED BY <1>2, <1>8

LEMMA TakeOK ==
  ASSUME IInv, IInv', MoveStep
  PROVE  out' = "ok" /\ \E l, m \in List : l # m /\ Abs!Take(l, m)
<1>1. PICK l \in List, src \in List : \E s, k, p, n :
        /\ l # src /\ Gap(h, l, s, k, p, n) /\ Moved(h', h, l, s, k, src)
        /\ used' = used /\ out' = "ok"
  BY DEF MoveStep
<1>2. PICK s, k, p, n : /\ l # src /\ Gap(h, l, s, k, p, n) /\ Moved(h', h, l, s, k, src)
                        /\ used' = used /\ out' = "ok"
  BY <1>1
<1>3. Good(h) /\ Good(h')
  BY DEF IInv
<1>4. /\ View(h)[l] = s /\ k \in 0 .. Len(s)
      /\ View(h') = [View(h) EXCEPT
                       ![l] = Abs!Prefix(s, k) \o View(h)[src] \o Abs!Suffix(s, k),
                       ![src] = <<>>]
  BY <1>2, <1>3, MoveView
<1>5. h'.value = h.value
  BY <1>2 DEF Moved
<1>6. Abs!Take(l, src)
  BY <1>2, <1>4, <1>5, ViewIs DEF Abs!Take
<1> QED BY <1>2, <1>6

\* A gap that a range left is where the range was.
LEMMA GapOfRange ==
  ASSUME NEW s \in Seq(Elem), NEW i \in 1 .. Len(s), NEW j \in i .. Len(s),
         NEW t, t = Abs!Without(s, <<i, j>>)
  PROVE  Abs!Prefix(t, i - 1) = Abs!Prefix(s, i - 1) /\ Abs!Suffix(t, i - 1) = Abs!Suffix(s, j)
<1> DEFINE a == SubSeq(s, 1, i - 1)
           b == SubSeq(s, j + 1, Len(s))
<1>1. t = a \o b
  BY DEF Abs!Without, Abs!Prefix, Abs!Suffix
<1>2. a \in Seq(Elem) /\ b \in Seq(Elem) /\ Len(a) = i - 1
  OBVIOUS
<1> HIDE DEF a, b
<1>3. SubSeq(a \o b, 1, Len(a)) = a
  BY <1>2
<1>4. SubSeq(a \o b, Len(a) + 1, Len(a \o b)) = b
  BY <1>2
<1> QED BY <1>1, <1>2, <1>3, <1>4 DEF a, b, Abs!Prefix, Abs!Suffix

LEMMA ExchangeOK ==
  ASSUME IInv, IInv', ExchangeStep
  PROVE  out' = "ok" /\ \E l, m \in List : l # m /\ Abs!Exchange(l, m)
<1>1. PICK l \in List, src \in List : \E s, i, j, G, without, p, n :
        /\ l # src /\ RunOf(h, l, s, i, j, G)
        /\ Good(without) /\ Shortened(without, h, l, s, i, j)
        /\ Gap(without, l, Spliced(s, h.len[l], i - 1, j, NoElems, 0), i - 1, p, n)
        /\ Moved(h', without, l, Spliced(s, h.len[l], i - 1, j, NoElems, 0), i - 1, src)
        /\ used' = used /\ out' = "ok"
  BY DEF ExchangeStep
<1>2. PICK s, i, j, G, without, p, n :
        /\ l # src /\ RunOf(h, l, s, i, j, G)
        /\ Good(without) /\ Shortened(without, h, l, s, i, j)
        /\ Gap(without, l, Spliced(s, h.len[l], i - 1, j, NoElems, 0), i - 1, p, n)
        /\ Moved(h', without, l, Spliced(s, h.len[l], i - 1, j, NoElems, 0), i - 1, src)
        /\ used' = used /\ out' = "ok"
  BY <1>1
<1> DEFINE t == Spliced(s, h.len[l], i - 1, j, NoElems, 0)
<1>3. Good(h) /\ Good(h') /\ RunOf(h, l, s, i, j, G)
  BY <1>2 DEF IInv
<1> IsRange(h, l, s, i, j)
  BY <1>3, RunRange
<1>4. /\ View(h)[l] = s /\ <<i, j>> \in Abs!Ranges(s) /\ t = Abs!Without(s, <<i, j>>)
      /\ s \in Seq(Elem) /\ i \in 1 .. Len(s) /\ j \in i .. Len(s)
  BY DEF IsRange
<1>5. /\ Gap(without, l, t, i - 1, p, n) /\ Moved(h', without, l, t, i - 1, src)
      /\ Good(without) /\ Good(h') /\ l # src
  BY <1>2, <1>3
<1>6. View(without) = [View(h) EXCEPT ![l] = t]
  BY <1>2, <1>3, ViewOne DEF Shortened
<1> HIDE DEF t
<1>7. View(h') = [View(without) EXCEPT
                    ![l] = Abs!Prefix(t, i - 1) \o View(without)[src] \o Abs!Suffix(t, i - 1),
                    ![src] = <<>>]
  <2> DEFINE k == i - 1
  <2>1. Gap(without, l, t, k, p, n) /\ Moved(h', without, l, t, k, src)
    BY <1>5
  <2> HIDE DEF k
  <2>2. View(h') = [View(without) EXCEPT
                      ![l] = Abs!Prefix(t, k) \o View(without)[src] \o Abs!Suffix(t, k),
                      ![src] = <<>>]
    BY <1>5, <2>1, MoveView
  <2> QED BY <2>2 DEF k
<1>8. Abs!Prefix(t, i - 1) = Abs!Prefix(s, i - 1) /\ Abs!Suffix(t, i - 1) = Abs!Suffix(s, j)
  BY <1>4, GapOfRange
<1>9. View(h') = [View(h) EXCEPT
                    ![l] = Abs!Prefix(s, i - 1) \o View(h)[src] \o Abs!Suffix(s, j),
                    ![src] = <<>>]
  BY <1>2, <1>6, <1>7, <1>8 DEF View
<1>10. h'.value = h.value
  BY <1>2 DEF Moved, Shortened
<1>11. Abs!Exchange(l, src)
  <2> DEFINE r == <<i, j>>
  <2>1. r[1] = i /\ r[2] = j
    OBVIOUS
  <2>2. View(h') = [View(h) EXCEPT
                     ![l] = Abs!Prefix(View(h)[l], r[1] - 1) \o View(h)[src]
                              \o Abs!Suffix(View(h)[l], r[2]),
                     ![src] = <<>>]
    BY <1>4, <1>9, <2>1
  <2>3. r \in Abs!Ranges(View(h)[l])
    BY <1>4
  <2> HIDE DEF r
  <2> QED BY <1>2, <1>10, <2>2, <2>3, ViewIs DEF Abs!Exchange
<1> QED BY <1>2, <1>11

\* What can be copied, in the words of ListSpec.
LEMMA SourceCopyable ==
  ASSUME IInv, NEW S, NEW r, NEW M, Source(S, r, M)
  PROVE  r \in Abs!Copyable
<1>1. Good(h)
  BY DEF IInv
<1>2. ASSUME NEW l, NEW s, NEW i, NEW j, RunOf(h, l, s, i, j, S), r = Between(s, i, j)
      PROVE  r \in Abs!Copyable
  <2>1. l \in List
    BY <1>2 DEF RunOf
  <2> IsRange(h, l, s, i, j)
    BY <1>2, RunRange
  <2>2. View(h)[l] = s /\ <<i, j>> \in Abs!Ranges(s) /\ r = Abs!Run(s, <<i, j>>)
    BY <1>2 DEF IsRange
  <2>3. r \in {Abs!Run(View(h)[l], x) : x \in Abs!Ranges(View(h)[l])}
    BY <2>2
  <2> QED BY <2>1, <2>3, ViewIs DEF Abs!Copyable
<1>3. ASSUME NEW e \in used, h.owner[e] = Nil, r = [x \in 1 .. 1 |-> e]
      PROVE  r \in Abs!Copyable
  <2>1. ASSUME e \in Abs!Listed PROVE FALSE
    <3>1. PICK l \in List : e \in Abs!Range(View(h)[l])
      BY <2>1, ViewIs DEF Abs!Listed
    <3>2. PICK s : ChainOf(h, l, s)
      BY <1>1 DEF Good
    <3>3. View(h)[l] = s /\ DOMAIN s = 1 .. h.len[l]
      <4>1. s \in [1 .. h.len[l] -> Elem]
        BY <3>2 DEF ChainOf
      <4> QED BY <1>1, <3>2, <4>1, ViewOf
    <3>4. PICK i \in 1 .. h.len[l] : s[i] = e
      BY <3>1, <3>3 DEF Abs!Range
    <3>5. h \in Heap
      BY <1>1 DEF Good
    <3>6. h.owner[e] = l
      BY <3>2, <3>4, <3>5, ChainOwner
    <3> QED BY <1>3, <3>6, NilAssumption
  <2>2. r = <<e>>
    BY <1>3
  <2> QED BY <2>1, <2>2 DEF Abs!Copyable
<1> QED BY <1>2, <1>3 DEF Source

LEMMA CopyOK ==
  ASSUME IInv, IInv', CopyStep
  PROVE  out' = "ok" /\ \E l \in List : Abs!Copy(l)
<1>1. PICK dst \in List : \E S, r, M : \E copy \in Injection(S, Elem \ used) :
        /\ h.len[dst] = 0 /\ Source(S, r, M) /\ Sequenced(h, S, r, M)
        /\ Copied(h', h, r, M, dst, copy)
        /\ used' = used \union Range(copy) /\ out' = "ok"
  BY DEF CopyStep
<1>2. PICK S, r, M : \E copy \in Injection(S, Elem \ used) :
        /\ h.len[dst] = 0 /\ Source(S, r, M) /\ Sequenced(h, S, r, M)
        /\ Copied(h', h, r, M, dst, copy)
        /\ used' = used \union Range(copy) /\ out' = "ok"
  BY <1>1
<1>3. PICK copy \in Injection(S, Elem \ used) :
        /\ h.len[dst] = 0 /\ Source(S, r, M) /\ Sequenced(h, S, r, M)
        /\ Copied(h', h, r, M, dst, copy)
        /\ used' = used \union Range(copy) /\ out' = "ok"
  BY <1>2
<1> DEFINE t == [x \in 1 .. M |-> copy[r[x]]]
<1>4. Good(h) /\ Good(h')
  BY DEF IInv
<1>5. /\ M \in Nat /\ r \in [1 .. M -> Elem]
      /\ \A x, y \in 1 .. M : r[x] = r[y] => x = y
      /\ S = {r[x] : x \in 1 .. M}
  BY <1>3 DEF Sequenced, Run
<1>6. /\ copy \in [S -> Elem \ used]
      /\ \A x, y \in S : copy[x] = copy[y] => x = y
      /\ Range(copy) = {copy[x] : x \in S}
  BY DEF Injection, IsInjective, Range
<1>7. r \in Seq(Elem) /\ Len(r) = M
  BY <1>5
<1>8. /\ t \in [1 .. Len(r) -> Elem \ used]
      /\ \A x, y \in 1 .. M : t[x] = t[y] => x = y
  BY <1>5, <1>6, <1>7
<1>9. Range(copy) = {t[x] : x \in 1 .. M}
  BY <1>5, <1>6
<1>10. r \in Abs!Copyable
  BY <1>3, SourceCopyable
<1>11. /\ \A x \in Elem \ Range(copy) : h'.value[x] = h.value[x]
       /\ \A x \in 1 .. M : h'.value[t[x]] = h.value[r[x]]
       /\ ChainOf(h', dst, t) /\ Keeps(h', h, {dst})
  BY <1>3 DEF Copied
<1> HIDE DEF t
<1>12. View(h') = [View(h) EXCEPT ![dst] = t]
  BY <1>4, <1>11, ViewOne
<1>13. View(h)[dst] = <<>>
  BY <1>3, <1>4, EmptyView
<1>14. t \in Abs!Injection(1 .. Len(r), Elem \ used) /\ Abs!Range(t) = Range(copy)
  <2>1. DOMAIN t = 1 .. M
    BY <1>7, <1>8
  <2> QED BY <1>7, <1>8, <1>9, <2>1 DEF Abs!Injection, Abs!IsInjective, Abs!Range
<1>15. h'.value = [e \in Elem |-> IF e \in Abs!Range(t)
                                  THEN h.value[r[CHOOSE i \in 1 .. Len(r) : t[i] = e]]
                                  ELSE h.value[e]]
  <2>1. ASSUME NEW e \in Elem
        PROVE  h'.value[e] = IF e \in Abs!Range(t)
                             THEN h.value[r[CHOOSE i \in 1 .. Len(r) : t[i] = e]]
                             ELSE h.value[e]
    <3>1. CASE e \in Range(copy)
      <4> DEFINE c == CHOOSE i \in 1 .. Len(r) : t[i] = e
      <4>1. \E i \in 1 .. Len(r) : t[i] = e
        BY <1>7, <1>9, <3>1
      <4>2. c \in 1 .. Len(r) /\ t[c] = e
        BY <4>1
      <4> HIDE DEF c
      <4>3. h'.value[e] = h.value[r[c]]
        BY <1>7, <1>11, <4>2
      <4> QED BY <1>14, <3>1, <4>3 DEF c
    <3>2. CASE e \notin Range(copy)
      BY <1>11, <1>14, <3>2
    <3> QED BY <3>1, <3>2
  <2>2. h'.value \in [Elem -> Value]
    BY <1>4 DEF Good, Heap
  <2> QED BY <2>1, <2>2
<1>16. Abs!Copy(dst)
  <2> DEFINE C == [q \in List |-> Elems(h, q)]
  <2>1. C[dst] = <<>> /\ C' = [C EXCEPT ![dst] = t]
    BY <1>12, <1>13, ViewIs
  <2>2. used' = used \union Abs!Range(t) /\ t \in Abs!Injection(1 .. Len(r), Elem \ used)
    BY <1>3, <1>14
  <2> QED BY <1>10, <1>15, <2>1, <2>2, Zenon DEF Abs!Copy
<1> QED BY <1>3, <1>16

LEMMA WriteOK ==
  ASSUME IInv, IInv', WriteStep
  PROVE  out' = "ok" /\ Abs!Write
<1>1. PICK e \in used, v \in Value :
        h' = [h EXCEPT !.value[e] = v] /\ used' = used /\ out' = "ok"
  BY DEF WriteStep
<1>2. h \in Heap /\ Good(h) /\ Good(h')
  BY DEF IInv, Good
<1>3. /\ h'.value = [h.value EXCEPT ![e] = v]
      /\ h'.prev = h.prev /\ h'.next = h.next /\ h'.owner = h.owner
      /\ h'.head = h.head /\ h'.tail = h.tail /\ h'.len = h.len
  BY <1>1, <1>2 DEF Heap
<1>4. Keeps(h', h, {})
  BY <1>3, SameChain DEF Keeps
<1>5. \A q \in List : View(h')[q] = View(h)[q]
  BY <1>2, <1>4, ViewKept
<1>6. View(h') = View(h)
  BY <1>5 DEF View
<1> QED BY <1>1, <1>3, <1>6, ViewIs DEF Abs!Write

LEMMA IdleOK ==
  ASSUME IInv', IdleStep
  PROVE  Abs!Nothing /\ out' \in {"ok", "panic"}
<1>1. h' = h /\ used' = used
  BY DEF IdleStep
<1>2. View(h') = View(h)
  BY <1>1
<1> QED BY <1>1, <1>2, ViewIs DEF Abs!Nothing, IInv

-----------------------------------------------------------------------------
(***************************************************************************)
(* The theorem.                                                            *)
(***************************************************************************)
LEMMA StepImplements == IInv /\ IInv' /\ [Next]_vars => Abs!Next
<1> SUFFICES ASSUME IInv, IInv', [Next]_vars PROVE Abs!Next
  OBVIOUS
<1>1. Effect /\ out' \in {"ok", "panic"}
  BY StepIInv DEF StepOK, IInv
<1>2. CASE AddStep
  BY <1>2, AddOK DEF Abs!Next, Abs!Done
<1>3. CASE DropStep
  BY <1>1, <1>3, DropOK DEF Abs!Next, Abs!Done, Abs!Refused
<1>4. CASE CutStep
  BY <1>4, CutOK DEF Abs!Next, Abs!Done
<1>5. CASE MoveStep
  BY <1>5, TakeOK DEF Abs!Next, Abs!Done
<1>6. CASE ExchangeStep
  BY <1>6, ExchangeOK DEF Abs!Next, Abs!Done
<1>7. CASE CopyStep
  BY <1>7, CopyOK DEF Abs!Next, Abs!Done
<1>8. CASE WriteStep
  BY <1>8, WriteOK DEF Abs!Next, Abs!Done
<1>9. CASE IdleStep
  BY <1>9, IdleOK DEF Abs!Next, Abs!Done, Abs!Refused
<1> QED BY <1>1, <1>2, <1>3, <1>4, <1>5, <1>6, <1>7, <1>8, <1>9 DEF Effect

LEMMA InitImplements == Init => Abs!Init
<1> SUFFICES ASSUME Init PROVE Abs!Init
  OBVIOUS
<1>1. Good(h) /\ h \in Heap
  BY InitIInv DEF IInv, Good
<1>2. \A l \in List : h.len[l] = 0
  BY DEF Init
<1>3. \A l \in List : View(h)[l] = <<>>
  BY <1>1, <1>2, EmptyView
<1>4. View(h) = [l \in List |-> <<>>]
  BY <1>3 DEF View
<1>5. h.value \in [Elem -> Value]
  BY <1>1 DEF Heap
<1> QED BY <1>4, <1>5, ViewIs DEF Abs!Init, Init

\* The pointer code of list.go implements lists that are sequences: every
\* call adds, moves, drops, exchanges or copies one run of consecutive elements
\* and leaves all else in its order, and a refused call changes nothing, but
\* for a list told to replace a range with itself.
THEOREM ListsAreSequences == Spec => ImplementsListSpec
<1>1. IInv /\ IInv' /\ [Next]_vars => [Abs!Next]_Abs!vars
  BY StepImplements
<1> QED BY Invariance, InitImplements, <1>1, PTL DEF Spec, ImplementsListSpec, Abs!Spec
=============================================================================
